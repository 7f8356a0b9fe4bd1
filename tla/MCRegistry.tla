----------------------------- MODULE MCRegistry -----------------------------
(***************************************************************************)
(* TLC instances of Registry.                                              *)
(***************************************************************************)
EXTENDS Registry, TLC

MCSymmetry ==
    Permutations(Groups) \cup Permutations(Cidrs) \cup Permutations(Requests)
=============================================================================
