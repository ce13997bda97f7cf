--------------------------- MODULE MCNodeMonitor ----------------------------
(* Small instances of NodeMonitor. *)
EXTENDS NodeMonitor, TLC
=============================================================================
