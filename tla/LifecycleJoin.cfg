SPECIFICATION Spec
CONSTANTS
  NumDevices = 3
  Threaded <- MCThreaded
  MaxSignals = 1
INVARIANTS
  JoinsOnlyThreads
CHECK_DEADLOCK FALSE
