---------------------------- MODULE MCMonitoring ----------------------------
(***************************************************************************)
(* TLC instances of Monitoring.                                            *)
(***************************************************************************)
EXTENDS Monitoring, TLC

MCSymmetry == Permutations(Hosts) \cup Permutations(Requests)
=============================================================================
