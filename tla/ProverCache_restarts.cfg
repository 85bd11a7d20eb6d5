CONSTANTS
  Provers = {p1}
  Constructors = {"url", "hermez", "legacy", "hermez_uncached"}
  Shapes = {w128, w8}
  ChainShape = w128
  MaxFaults = 4
  Absent = Absent
  Torn = Torn
  Garbled = Garbled
  NoKey = NoKey
SPECIFICATION FairSpec
INVARIANTS
  CacheTypeOK
  KeysMatch
  TornKeyNeverLooksSaved
PROPERTIES
  RetriesSucceed
