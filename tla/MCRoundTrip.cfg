SPECIFICATION ValuesSpec
CONSTANTS
  LimbBits  = 3
  Widths    = {0, 2, 4, 9}
  Amounts   = {0, 1, 3, 4, 8}
  Values    = {0, 6, 13, 64, 300}
  Texts     <- MCTexts
  ChunkBase = 3
  MaxLen    = 7
INVARIANT FourStateRoundTrips
