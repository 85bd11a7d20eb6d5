CONSTANTS
  W = 2
  Pow <- MCPow
  U64Max = 15
  MaxAnchorLayer = 4
  None = None
  Torn = Torn
  AutoMode = AutoMode
  MaxHead = 12
  Events = {3}
  Requests <- MCRequests
  LieSets <- MCLies
  MaxFaults = 1
  QueryTime = 0
SPECIFICATION MCFairPipeline
INVARIANTS
  FixtureProvesEvent
  AcceptedProvesEvent
  ClaimableUntilExpiry
PROPERTY EventClaimed
CHECK_DEADLOCK FALSE
