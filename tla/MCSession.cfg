SPECIFICATION Spec
CONSTANTS
  MaxCommands = 5
  MaxPipelined = 1
INVARIANTS
  TypeOK
  OneVerdict
  VerdictBeforeNext
  NothingAfterGoodbye
  AbortNotLost
  AnnouncedTransferRuns
  NoSocketAfterCleanup
CHECK_DEADLOCK FALSE
