SPECIFICATION Spec
CONSTANTS
  LimbBits  = 2
  Widths    = {0, 1, 2, 3, 4, 5, 6}
  Amounts   = {0, 1, 2, 3, 5}
  Values    = {0, 1, 3, 6, 13, 16, 27, 63}
  Texts     <- MCTexts
  ChunkBase = 3
  MaxLen    = 7
PROPERTY ComputesExactly
