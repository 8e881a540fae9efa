CONSTANTS
  Sender = {1, 2}
  MaxPkts = 5
  QLen = 3
SPECIFICATION FairPcapSpec
INVARIANTS PcapInv 
 
CHECK_DEADLOCK FALSE
