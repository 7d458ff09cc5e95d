SPECIFICATION Spec
CONSTANTS
  CR = 13
  LF = 10
  Streams <- MCStreams
  ChunkSize = 3
  MAX_COMMAND_LENGTH = 2
  Lines <- MCLines
  MaxLines = 3
  MAX_PAYLOAD = 2
  BLOCK_MAX_PAYLOAD = 3
  BitsFlipped = {1, 128}
INVARIANTS
  LinesAreCut
  DamageDetected
  FileArrives
CHECK_DEADLOCK FALSE
