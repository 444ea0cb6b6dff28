SPECIFICATION Spec
CONSTANTS
  Fds <- MCFds
  Messages <- MCMessages
  Commands <- MCCommands
  Terminator <- MCTerminator
  Blank <- MCBlank
  RevbufSize = 4
  MaxSaid = 2
  MaxPushes = 2
  MaxBreaks = 2
INVARIANTS
  CommandsAsSent
CHECK_DEADLOCK FALSE
