----------------------------- MODULE MCLiveSync -----------------------------
(***************************************************************************)
(* TLC instances of LiveSync.                                              *)
(***************************************************************************)
EXTENDS LiveSync, TLC

MCSymmetry == Permutations(Hosts) \cup Permutations(Requests)
=============================================================================
