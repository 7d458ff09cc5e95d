SPECIFICATION FairSpec
CONSTANTS
  Files <- MCFiles
  WINDOW_SIZE = 2
  DUP_ACK_THRESHOLD = 2
  DATA_MAX_RETRIES = 2
  FIN_MAX_RETRIES = 2
  MaxSyns = 1
INVARIANTS
  TypeOK
  InOrderDelivery
  ReceiverInsideWindow
  FinMeansComplete
  SuccessMeansAccepted
  GivingUpIsNeverAccepted
  PacketsTruthful
PROPERTIES
  ImplementsReliableTransfer
  SenderEnds
  ReceiverEnds
CHECK_DEADLOCK FALSE
