SPECIFICATION FairSpec
CONSTANTS
  Payloads <- MCPayloads
  Speeds <- MCSpeeds
  Chunks <- MCChunks
  BufSize = 24
  LENGTH = 20
  CopySize = 8
  MaxFrames = 4
  MaxFaults = 1
  MaxReads = 1
INVARIANTS
  TypeOK
  DataIsGenuine
  OverrunNeedsCrowding
  ReadyMeansAnswered
  ChecksumAgrees
PROPERTIES
  NothingLiesAbout
  ReadsAreWritten
CHECK_DEADLOCK FALSE
