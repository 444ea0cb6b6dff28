SPECIFICATION FairSpec
CONSTANTS
  NestingLimit = 4
  Files <- MCFiles
  Reading <- Load
  Scripts = {s1, s2}
  MaxPid = 3
  MaxRefused = 45
  s1 = s1
  s2 = s2
INVARIANTS
  TreeAsWritten
  NothingLost
  DevicesAsWritten
  OneApp
  LogsKept
PROPERTIES
  ComesBack
CHECK_DEADLOCK FALSE
