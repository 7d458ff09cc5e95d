SPECIFICATION ClientSpec
CONSTANTS
  MaxCommands = 8
  MaxPipelined = 8
  MaxUserCommands = 4
  DataSocketFails = FALSE
INVARIANTS
  ClientTypeOK
  SingleReader
  RepliesAligned
  NothingLeftUnread
PROPERTY ClientIsSession
CHECK_DEADLOCK FALSE
