CONSTANTS
  h1 = h1
  h2 = h2
  h3 = h3
  NULL = NULL
  Handler = {h1, h2, h3}
  Pri <- MCPri
  StartLate = TRUE
SPECIFICATION FairSwiSpec
INVARIANTS SwiInv 
  
CHECK_DEADLOCK FALSE
