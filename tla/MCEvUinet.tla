------------------------------ MODULE MCEvUinet -----------------------------
(* Two watchers share a socket; a third has one of its own.                *)
EXTENDS EvUinet
CONSTANTS s1, s2, w1, w2, w3, i1, i2
MCWSock == [w \in Watcher |-> IF w = w3 THEN s2 ELSE s1]
MCWEvents == [w \in Watcher |-> IF w = w2 THEN {"READ", "WRITE"} ELSE {"READ"}]
=============================================================================
