SPECIFICATION FairSpec
CONSTANTS
  c1 = c1
  c2 = c2
  m1 = m1
  m2 = m2
  k1 = k1
  plc = plc
  host = host
  NoDevice = NoDevice
  KeepReply = KeepReply
  NoData = NoData
  Torn = Torn
  None = None
  Callers <- MCCallers
  Messages <- MCMessages
  Devices <- MCDevices
  ReplyTo <- MCReplyTo
  MAX_SEND_BUFFER_COUNT = 3
  MaxWaiting = 2
INVARIANTS
  TypeOK
  PollSeesWaiting
  SlotInFlightIntact
  ReportIsTruthful
  ReplyOfNewest
PROPERTIES
  ImplementsFifo
  EventuallyWritten
