CONSTANTS
  Max = 2
  NSlots = 4
SPECIFICATION FairSpec
INVARIANTS PoolInv RingInv NoBufferShared
PROPERTIES ImplementsContextPool GivenBackRecycled
CHECK_DEADLOCK FALSE
