CONSTANTS
  None = None
  Sender = {1, 2}
  MaxPkts = 5
  QLen = 3
  NSlots = 3
SPECIFICATION FairSpec
INVARIANTS SendInv WireInOrder
PROPERTIES QueueDrains StopAcked
CHECK_DEADLOCK FALSE
