SPECIFICATION FairSpec
CONSTANTS
  NumDevices = 3
  Threaded <- MCThreaded
  MaxSignals = 3
INVARIANTS
  TypeOK
  QuietWhenFreed
PROPERTIES
  SignalEndsProcess
CHECK_DEADLOCK FALSE
