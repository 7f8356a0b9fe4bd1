------------------------------- MODULE RowLog ------------------------------
(***************************************************************************)
(* What the store promises about samples and events, with no buffers, no   *)
(* batches and no retries: rows wait; every row older than some instant,   *)
(* of both kinds, stops waiting at once; and as it does it is stored if    *)
(* its host still exists, unless all of them are given up.  So the         *)
(* database never holds an event while the samples that led to it wait.    *)
(***************************************************************************)
EXTENDS Integers, Sequences

CONSTANT Hosts  \* host ids that exist at first

Kinds == {"sample", "event"}

VARIABLES
    hosts,    \* host ids that exist
    next,     \* rows are numbered in the order they are enqueued
    owner,    \* sequence of hosts: owner[n] is the host row n is about
    waiting,  \* kind -> set of rows not stored yet
    stored    \* kind -> set of rows in the database

vars == <<hosts, next, owner, waiting, stored>>

Init ==
    /\ hosts = Hosts
    /\ next = 1
    /\ owner = <<>>
    /\ waiting = [k \in Kinds |-> {}]
    /\ stored = [k \in Kinds |-> {}]

Enqueue(h, k) ==
    /\ next' = next + 1
    /\ owner' = Append(owner, h)
    /\ waiting' = [waiting EXCEPT ![k] = @ \cup {next}]
    /\ UNCHANGED <<hosts, stored>>

\* The rows older than the one numbered cut stop waiting; those about a host of
\* H are stored.
Leave(cut, H) ==
    /\ waiting' = [k \in Kinds |-> {n \in waiting[k] : n >= cut}]
    /\ stored' = [k \in Kinds |->
                    stored[k] \cup {n \in waiting[k] : n < cut /\ owner[n] \in H}]
    /\ UNCHANGED <<hosts, next, owner>>

\* A flush succeeds.
Flush == \E cut \in 1..next : Leave(cut, hosts)

\* Rows that could not be stored are dropped, or the process is gone.
GiveUp == \E cut \in 1..next : Leave(cut, {})

\* A deleted host takes its stored rows with it; waiting ones leave later.
DeleteHost(h) ==
    /\ hosts' = hosts \ {h}
    /\ stored' = [k \in Kinds |-> {n \in stored[k] : owner[n] # h}]
    /\ UNCHANGED <<next, owner, waiting>>

Next ==
    \/ \E h \in Hosts, k \in Kinds : Enqueue(h, k)
    \/ Flush
    \/ GiveUp
    \/ \E h \in hosts : DeleteHost(h)

Spec == Init /\ [][Next]_vars
=============================================================================
