--------------------------- MODULE MCCleanupProcess ---------------------------
(* Bounds for CleanupProcess. *)
EXTENDS CleanupProcess

CONSTANTS t1, t2, p1, d1
===============================================================================
