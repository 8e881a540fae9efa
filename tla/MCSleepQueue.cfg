CONSTANTS
  t1 = t1
  t2 = t2
  c1 = c1
  c2 = c2
  e1 = e1
  e2 = e2
  NULL = NULL
  Thread = {t1, t2}
  Chan = {c1, c2}
  Entry = {e1, e2}
  MaxItems = 2
  Priorities = {"none"}
SPECIFICATION FairSleepSpec
INVARIANTS SleepInv EntryIsMine
PROPERTY NoLostWakeup
