----------------------------- MODULE MCSwiEvent -----------------------------
(* Handlers h1, h2, h3; the last two have the same priority.               *)
EXTENDS SwiEvent
CONSTANTS h1, h2, h3
MCPri == [h \in Handler |-> IF h = h1 THEN 2 ELSE 1]
=============================================================================
