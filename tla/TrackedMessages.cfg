CONSTANTS
  NumAccounts = 2
  Messages = {m1, m2}
  MaxTracked = 5
SPECIFICATION Spec
INVARIANTS
  EveryMessageProves
  NothingElseProves
PROPERTIES
  RootChanges
CHECK_DEADLOCK FALSE
