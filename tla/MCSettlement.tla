---------------------------- MODULE MCSettlement ----------------------------
(* One row against every file an outside writer could put next to it.       *)
EXTENDS Settlement
=============================================================================
