CONSTANTS
  Provers = {p1}
  Constructors = {"legacy", "hermez", "legacy_uncached"}
  Shapes = {w128}
  ChainShape = w128
  MaxFaults = 0
  Absent = Absent
  Torn = Torn
  Garbled = Garbled
  NoKey = NoKey
SPECIFICATION Spec
INVARIANT
  HermezProofsVerify
