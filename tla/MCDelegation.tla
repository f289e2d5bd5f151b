---------------------------- MODULE MCDelegation ----------------------------
(* Two acting parents and three specialists: chains of two hops, siblings,   *)
(* forged roots, and a ledger that runs out.                                 *)
EXTENDS Delegation, TLC

Symmetry == Permutations(ParentTasks) \cup Permutations(Specialists) \cup Permutations(Results)
=============================================================================
