SPECIFICATION FairSpec
CONSTANTS
  Names <- MeshNames
  Devices <- SiteDevices
  Threads <- SiteThreads
  Sockets <- SiteSockets
  Commands <- MeshCommands
  Routes <- MeshRoutes
  Readers <- MCReaders
  ReadCommands <- MCReadCommands
  ReadFrame = "read40"
  Data = "data"
  SendFail = "ERR:SENDFAIL#"
  NoDevice = "NULL"
  MAX_SEND_BUFFER_COUNT = 10
  MaxInputs = 2
INVARIANTS
  TypeOK
  CrashOnlyByUnknownTarget
PROPERTIES
  ReportsDieOut
CHECK_DEADLOCK FALSE
