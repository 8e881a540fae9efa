SPECIFICATION Spec
CONSTANT Apps = {a1, a2}
INVARIANTS PairInv 
PROPERTY Reclaimed
CHECK_DEADLOCK FALSE
