SPECIFICATION PagerSpec
CONSTANTS
  CHUNK_BASE = 1
  MAX_SHIFT  = 1
  SMALL_SIZE = 0
  LLONG_MAX  = 6
  MaxChunks  = 3
  Zero = Zero
  Uninit = Uninit
  NULL = NULL
  a = a
  b = b
  Payloads <- MCPayloads
  Offsets  <- MCOffsets
  Amounts  <- MCAmounts
  Sizes    <- MCSizes
INVARIANT ShortReadZeroFill
