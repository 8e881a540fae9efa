----------------------------- MODULE MCShutdown -----------------------------
(* Three callers; a netmap interface between two others.                   *)
EXTENDS Shutdown
CONSTANTS c1, c2, c3
MCIfs == <<"pcap", "netmap", "bridge">>
=============================================================================
