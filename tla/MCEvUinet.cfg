CONSTANTS
  s1 = s1
  s2 = s2
  w1 = w1
  w2 = w2
  w3 = w3
  i1 = i1
  i2 = i2
  NoSock = NoSock
  Sock = {s1, s2}
  Watcher = {w1, w2, w3}
  Interface = {i1, i2}
  WSock <- MCWSock
  WEvents <- MCWEvents
SPECIFICATION FairEvSpec
INVARIANTS EvInv NothingForgotten
PROPERTY Delivered
