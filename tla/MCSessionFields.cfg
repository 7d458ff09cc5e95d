SPECIFICATION Spec
CONSTANTS
  MaxCommands = 3
  MaxPipelined = 1
INVARIANT FieldsDescribeTransfer
CHECK_DEADLOCK FALSE
