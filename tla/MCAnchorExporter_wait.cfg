CONSTANTS
  W = 2
  Pow <- MCPow
  U64Max = 15
  MaxAnchorLayer = 4
  None = None
  AutoMode = AutoMode
  MaxHead = 5
  MaxEvent = 8
  Timeout = 5
  Interval = 2
  Requests <- EndRequests
  LieSets <- Truthful
  MaxFaults = 1
  QueryTime = 1
SPECIFICATION FairSpec
INVARIANTS
  GivesUpOnlyIfLate
  WaitNeverOverruns
PROPERTY ExportEnds
CHECK_DEADLOCK FALSE
