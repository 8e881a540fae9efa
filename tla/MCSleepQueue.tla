---------------------------- MODULE MCSleepQueue ----------------------------
(* Two threads, two channels, and an entry for each.                       *)
EXTENDS SleepQueue
CONSTANTS t1, t2, c1, c2, e1, e2
=============================================================================
