SPECIFICATION Spec
CONSTANTS
  Payloads <- MCPayloads
  Speeds <- MCSpeeds
  Chunks <- MCChunks
  BufSize = 24
  LENGTH = 20
  CopySize = 8
  MaxFrames = 4
  MaxFaults = 1
  MaxReads = 1
INVARIANTS
  ErrorsArriveWhole
CHECK_DEADLOCK FALSE
