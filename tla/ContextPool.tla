---------------------------- MODULE ContextPool ----------------------------
(***************************************************************************)
(* What the netmap driver wants of its zero-copy contexts: each one is     *)
(* ready, out with the stack, or back from it, and never two at once.      *)
(* BufinfoPool implements it with a circular list and one shared counter.  *)
(***************************************************************************)
CONSTANT Context

VARIABLES ready, out, back

vars == <<ready, out, back>>

Init == ready = Context /\ out = {} /\ back = {}

Take(c) ==
  /\ c \in ready
  /\ ready' = ready \ {c} /\ out' = out \cup {c} /\ back' = back

Undo(c) ==
  /\ c \in out
  /\ ready' = ready \cup {c} /\ out' = out \ {c} /\ back' = back

GiveBack(c) ==
  /\ c \in out
  /\ ready' = ready /\ out' = out \ {c} /\ back' = back \cup {c}

Recycle(S) ==
  /\ S \subseteq back
  /\ ready' = ready \cup S /\ out' = out /\ back' = back \ S

Next ==
  \/ \E c \in Context : Take(c) \/ Undo(c) \/ GiveBack(c)
  \/ \E S \in SUBSET Context : Recycle(S)

Spec == Init /\ [][Next]_vars
=============================================================================
