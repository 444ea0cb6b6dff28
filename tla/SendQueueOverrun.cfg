SPECIFICATION Spec
CONSTANTS
  c1 = c1
  c2 = c2
  m1 = m1
  m2 = m2
  k1 = k1
  plc = plc
  host = host
  NoDevice = NoDevice
  KeepReply = KeepReply
  NoData = NoData
  Torn = Torn
  None = None
  Callers <- MCCallers
  Messages <- MCOneMessage
  Devices <- MCDevices
  ReplyTo <- MCOneReply
  MAX_SEND_BUFFER_COUNT = 10
  MaxWaiting = 10
INVARIANTS
  PollSeesWaiting
