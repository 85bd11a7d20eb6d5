CONSTANTS
  W = 3
  Pow <- MCPow
  U64Max = 130
  MaxAnchorLayer = 5
  None = None
  AutoMode = AutoMode
  MaxHead = 130
SPECIFICATION ChainSpec
INVARIANTS
  ChainTypeOK
  CursorInv
  AcceptedExactlyInWindow
  ReadersRebuildTrees
  RungIsWhereTheNodePutIt
  UsableSpan
CHECK_DEADLOCK FALSE
