SPECIFICATION ClientFairSpec
CONSTANTS
  MaxCommands = 8
  MaxPipelined = 8
  MaxUserCommands = 3
  DataSocketFails = TRUE
PROPERTIES
  ClientTransferEnds
  PromptReturns
CHECK_DEADLOCK FALSE
