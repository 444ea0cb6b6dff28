SPECIFICATION FairSpec
CONSTANTS
  Fds <- MCFds
  Messages <- MCMessages
  Commands <- MCCommands
  Terminator <- MCTerminator
  Blank <- MCBlank
  RevbufSize = 4
  MaxSaid = 2
  MaxPushes = 2
  MaxBreaks = 2
INVARIANTS
  TypeOK
  WritesOwnConnection
  NoDescriptorLeaks
  KilledOnlyAfterReset
  CommandsFromStream
  ToldCommandsAsSent
PROPERTIES
  ImplementsLoop
  EndIsNoticed
  MessagesOutlastReconnection
  StopsWhenTold
CHECK_DEADLOCK FALSE
