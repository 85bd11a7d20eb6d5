CONSTANTS
  Tools = {t1, t2}
  Size = 2
  OddBodies <- MCOddBodies
  K = 19
  Degrees = {19, 20}
  MaxFaults = 1
  Absent = Absent
  Torn = Torn
SPECIFICATION MCFairSpec
INVARIANTS
  RightSizeIsComplete
  KeysOnlyFromCeremony
  FilesAgree
PROPERTY
  RerunsSucceed
CHECK_DEADLOCK FALSE
