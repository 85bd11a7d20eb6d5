CONSTANTS
  W = 2
  Pow <- MCPow
  U64Max = 15
  MaxAnchorLayer = 4
  None = None
  AutoMode = AutoMode
  MaxHead = 14
  MaxEvent = 8
  Timeout = 0
  Interval = 1
  Requests <- AnchorRequests
  LieSets <- Truthful
  MaxFaults = 1
  QueryTime = 0
SPECIFICATION Spec
INVARIANTS
  ExporterTypeOK
  AdviceHolds
  TruthfulNodeIsNeverRefused
  TouchedOnlyIfHeld
  AutoTakesTheHighest
PROPERTY KeepsPromise
CHECK_DEADLOCK FALSE
