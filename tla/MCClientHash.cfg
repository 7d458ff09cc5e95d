SPECIFICATION ClientSpec
CONSTANTS
  MaxCommands = 8
  MaxPipelined = 8
  MaxUserCommands = 3
  DataSocketFails = FALSE
INVARIANT HashIsCompared
CHECK_DEADLOCK FALSE
