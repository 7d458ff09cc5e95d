SPECIFICATION FairSpec
CONSTANTS
  MaxCommands = 3
  MaxPipelined = 1
PROPERTIES
  ControlReturns
  AnnouncedIsConcluded
  ClosedIsReleased
CHECK_DEADLOCK FALSE
