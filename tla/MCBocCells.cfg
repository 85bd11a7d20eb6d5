CONSTANTS
  NumCells = 4
  MaxRefs = 2
  Payloads <- MCPayloads
  DepthSize = 2
  HashSize = 32
SPECIFICATION Spec
INVARIANTS
  FlattensOnce
  LevelOrder
  BytesReadBack
  TwoEntriesFit
CHECK_DEADLOCK FALSE
