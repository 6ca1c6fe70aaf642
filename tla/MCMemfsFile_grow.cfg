SPECIFICATION Spec
CONSTANTS
  CHUNK_BASE = 3
  MAX_SHIFT  = 0
  SMALL_SIZE = 0
  LLONG_MAX  = 7
  MaxChunks  = 2
  Zero = Zero
  Uninit = Uninit
  NULL = NULL
  a = a
  b = b
  Payloads <- MCFewPayloads
  Offsets  <- MCOffsets
  Amounts  <- MCNoAmounts
  Sizes    <- MCAllSizes
PROPERTY GrowKeepsData
