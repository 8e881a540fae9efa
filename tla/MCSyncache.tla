------------------------------ MODULE MCSyncache ------------------------------
(* A row of two entries, two connections, one receive thread and the        *)
(* application.  Every timeout is one tick.                                  *)
EXTENDS Syncache

MCBackoff == [n \in 0 .. 3 |-> 1]
AllDecisions == {"ACCEPT", "ACCEPT_PASSIVE", "REJECT_RST", "REJECT_SILENT", "DEFER"}
=============================================================================
