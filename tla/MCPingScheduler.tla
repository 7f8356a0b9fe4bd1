-------------------------- MODULE MCPingScheduler --------------------------
(***************************************************************************)
(* TLC instances of PingScheduler.  Hosts are interchangeable; generations *)
(* are not, because Spawn chooses one.                                     *)
(***************************************************************************)
EXTENDS PingScheduler, TLC

MCSymmetry == Permutations(Hosts)
=============================================================================
