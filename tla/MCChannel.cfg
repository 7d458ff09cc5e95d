SPECIFICATION FairSpec
CONSTANTS
  PASSIVE_HANDSHAKE_RETRIES = 4
  ACTIVE_HANDSHAKE_RETRIES = 4
  PASSIVE_DISCOVERY_TIMEOUT = 4
  ACTIVE_UPLOAD_HANDSHAKE_TIMEOUT = 5
  DataTimeout = 3
  MaxChannels = 2
  MaxLosses = 4
  MaxCopies = 1
INVARIANTS
  TypeOK
  PeersAgree
  PassiveChannelOpens
  SuccessIsDelivery
PROPERTIES
  ActiveUploadOpens
  TransferEnds
CHECK_DEADLOCK FALSE
