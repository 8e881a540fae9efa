SPECIFICATION Spec
CONSTANTS
  Conns = {c1, c2}
  Rx = {r1}
  Mbufs = {m1, m2}
  bucket_limit = 2
  rexmt_limit = 1
  tcp_backoff <- MCBackoff
  GoActive = 1
  Decisions <- AllDecisions
INVARIANTS  MbufOnce
PROPERTIES Expires 
