SPECIFICATION FairSpec
CONSTANTS
  NumDevices = 3
  Threaded <- MCThreaded
  MaxSignals = 1
PROPERTIES
  WaitingForExitSignal
CHECK_DEADLOCK FALSE
