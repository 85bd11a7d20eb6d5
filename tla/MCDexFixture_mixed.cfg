CONSTANTS
  Window = 2
  TopLayer = 3
  MaxChainLen = 2
  MaxEventsDepth = 1
  k1 = k1
  k2 = k2
  Keys <- MCKeys
  Tracks <- MCTracks
  Voucher <- MCVoucher
  SynthBlock = 9
  MaxEdits = 2
  None = None
SPECIFICATION Spec
INVARIANTS
  HonestFixtureProves
  KeygenShapeFits
  CheckedLinksNeverPanic
  ProofProvesInclusion
  LayerOneCheckSuffices
CHECK_DEADLOCK FALSE
