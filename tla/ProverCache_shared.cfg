CONSTANTS
  Provers = {p1, p2}
  Constructors = {"url", "hermez", "url_uncached"}
  Shapes = {w128}
  ChainShape = w128
  MaxFaults = 2
  Absent = Absent
  Torn = Torn
  Garbled = Garbled
  NoKey = NoKey
SPECIFICATION Spec
INVARIANTS
  ProofsVerify
