SPECIFICATION StreamSpec
CONSTANTS
  CHUNK_BASE = 2
  MAX_SHIFT  = 1
  SMALL_SIZE = 1
  LLONG_MAX  = 8
  INT_MAX    = 3
  SQLITE_IOERR       = 2
  SQLITE_IOERR_NOMEM = 3
  MaxChunks  = 2
  byte   = byte
  Zero   = byte
  Uninit = byte
  NULL   = NULL
  Payloads <- MCPayloads
  Offsets  <- MCOffsets
  Amounts  <- MCAmounts
  Sizes    <- MCSizes
CHECK_DEADLOCK FALSE
INVARIANTS StreamTypeOK Covered
PROPERTIES ResizeExact ShortOnlyAtEnd PositionStaysInMemory ReadsReachEnd
