SPECIFICATION FairSpec
CONSTANTS
  Names <- SharedNames
  Devices <- SharedDevices
  Threads <- SharedDevices
  Sockets <- SharedDevices
  Commands <- SharedCommands
  Routes <- SharedRoutes
  Readers <- MCReaders
  ReadCommands <- MCReadCommands
  ReadFrame = "read40"
  Data = "data"
  SendFail = "ERR:SENDFAIL#"
  NoDevice = "NULL"
  MAX_SEND_BUFFER_COUNT = 10
  MaxInputs = 2
INVARIANTS
  OnlyRouted
  AnswersReturn
PROPERTIES
  CommandsReachTargets
  AnswersReachLine
