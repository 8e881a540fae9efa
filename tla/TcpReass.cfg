CONSTANTS
  End = 5
  Limit = 2
  DL = 2
SPECIFICATION Spec
INVARIANTS ReassInv StreamExact
CHECK_DEADLOCK FALSE
