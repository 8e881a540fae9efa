CONSTANTS
  c1 = c1
  c2 = c2
  c3 = c3
  Other = Other
  Nobody = Nobody
  Caller = {c1, c2, c3}
  Interruptible = {c2, c3}
  Ifs <- MCIfs
  Attempts = 2
SPECIFICATION FairSpec
INVARIANTS ShutdownInv ReturnsComplete
PROPERTY NoneBlocked
CHECK_DEADLOCK FALSE
