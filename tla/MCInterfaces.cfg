SPECIFICATION MCSpec
CONSTANTS
  Kinds   <- MCKinds
  Handles <- MCHandles
  Chunks  <- MCChunks
  Absorbable <- MCAbsorbable
  Buffers <- MCBuffers
  Exports <- MCExports
  CommandLines <- MCLines
  ArgPieces <- MCArgPieces
  Paths <- MCPaths
  Values <- MCValues
  Pads = {2}
  LINES = 2
  MAX_U64 = 65535
  Lines <- MCFuzzLines
  WIDTH = 4
  Clock = {0, 4660}
  Counts = {0, 12}
  Generated <- MCGenerated
  SMALL_SIZES <- MCSmallSizes
  LARGE_SIZES <- MCLargeSizes
  BYTEWISE_BYTES = 6
  MS_REGION = 5
  NMEA_MAX = 6
  MAX_K = 8
  FILLS_CLOCK = 8
  Samples = 2
INVARIANTS
  AllTyped
  GivesOneShot
  AsTheOriginal
  MeansWhatItSays
  RoundTrip
  LogIsReadBack
  SameBytes
CHECK_DEADLOCK FALSE
