----------------------------- MODULE OutageLog -----------------------------
(***************************************************************************)
(* What outage detection promises, with no tasks and no scheduler: every   *)
(* sample of a host is judged the moment it is recorded, and the host's    *)
(* event log has an open outage exactly while its last Threshold samples   *)
(* all failed.  README.md: "Automatic outage events after repeated         *)
(* failures, with recovery events".                                        *)
(*                                                                         *)
(* PingScheduler implements this specification when no broadcaster can     *)
(* suspend a host loop in the middle of an announcement.                   *)
(***************************************************************************)
EXTENDS Integers

CONSTANTS Hosts,       \* every host id that may ever exist
          Threshold    \* OUTAGE_THRESHOLD_FAILS

VARIABLES hosts,       \* host ids present in the database
          trail,       \* per host: failed samples since its last success
          balance      \* per host: outage_start events minus outage_end events

vars == <<hosts, trail, balance>>

Init ==
    /\ hosts = Hosts
    /\ trail = [h \in hosts |-> 0]
    /\ balance = [h \in hosts |-> 0]

\* A successful sample ends the outage if one is open.
Up(h) ==
    /\ trail' = [trail EXCEPT ![h] = 0]
    /\ balance' = [balance EXCEPT ![h] = IF @ = 1 THEN 0 ELSE @]
    /\ UNCHANGED hosts

\* A failed sample opens an outage when it is the Threshold-th in a row.
\* The counter stops one above Threshold: nothing tells larger values apart.
Down(h) ==
    /\ trail' = [trail EXCEPT ![h] = IF @ > Threshold THEN @ ELSE @ + 1]
    /\ balance' = [balance EXCEPT ![h] =
                      IF trail'[h] >= Threshold THEN 1 ELSE @]
    /\ UNCHANGED hosts

\* A deleted host takes its samples and its events with it.
Delete(h) ==
    /\ hosts' = hosts \ {h}
    /\ trail' = [k \in hosts' |-> trail[k]]
    /\ balance' = [k \in hosts' |-> balance[k]]

Next == \E h \in hosts : Up(h) \/ Down(h) \/ Delete(h)

Spec == Init /\ [][Next]_vars
=============================================================================
