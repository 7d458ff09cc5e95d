SPECIFICATION ClientSpec
CONSTANTS
  MaxCommands = 8
  MaxPipelined = 8
  MaxUserCommands = 3
  DataSocketFails = TRUE
INVARIANT RepliesAligned
CHECK_DEADLOCK FALSE
