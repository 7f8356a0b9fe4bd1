------------------------------ MODULE Registry ------------------------------
(***************************************************************************)
(* The tables an operator edits (hosts, groups, group_cidrs and            *)
(* dismissed_suggestions) and the API requests that edit them.  Every      *)
(* method of Store opens a connection of its own: its statements up to the *)
(* commit are one transaction, but the checks a handler makes before it    *)
(* are separate reads, and other requests commit in between.               *)
(*                                                                         *)
(* A host is represented by its group, a group by `enabled`.  What the     *)
(* requests broadcast afterwards is the subject of LiveSync.               *)
(***************************************************************************)
EXTENDS Naturals, FiniteSets

CONSTANTS
    Groups,    \* group names
    Cidrs,     \* normalised CIDRs
    Requests,  \* API requests in flight together
    None,      \* no group
    HostCap,   \* HOST_CAP
    MaxId      \* bound: hosts ever created

ASSUME NoneAssumption == None \notin Groups
ASSUME BoundsAssumption == HostCap \in Nat /\ MaxId \in Nat
ASSUME RequestsAssumption == IsFiniteSet(Requests) /\ Requests # {}

VARIABLES
    hosts,      \* id -> group_name
    groups,     \* name -> enabled
    cidrs,      \* rows <<group_name, cidr>>
    dismissed,  \* rows <<host_id, group_name>>
    lastId,     \* AUTOINCREMENT's counter
    retired,    \* ids of deleted hosts
    job         \* request -> what it is doing

tables == <<hosts, groups, cidrs, dismissed>>
vars == <<tables, lastId, retired, job>>

Ids == 1..MaxId
Idle == [op |-> "idle", host |-> 0, group |-> None, on |-> TRUE, ids |-> {}]

Jobs ==
    {Idle} \cup
    [op : {"create", "deleteGroup", "renamed", "accept", "acceptInto",
           "dismiss", "dismissInto"},
     host : 0..MaxId, group : Groups, on : BOOLEAN, ids : SUBSET Ids]

TypeOK ==
    /\ \E S \in SUBSET (1..lastId) : hosts \in [S -> Groups]
    /\ \E G \in SUBSET Groups : groups \in [G -> BOOLEAN]
    /\ cidrs \subseteq Groups \X Cidrs
    /\ dismissed \subseteq Ids \X Groups
    /\ lastId \in 0..MaxId
    /\ retired \subseteq 1..lastId
    /\ job \in [Requests -> Jobs]

Init ==
    /\ hosts = << >> /\ groups = << >>
    /\ cidrs = {} /\ dismissed = {}
    /\ lastId = 0 /\ retired = {}
    /\ job = [r \in Requests |-> Idle]

-----------------------------------------------------------------------------
(* SQL.                                                                    *)

\* Mutant: INSERT OR REPLACE.
EnsuredReplacing(g) ==
    [n \in DOMAIN groups \cup {g} |-> IF n = g THEN TRUE ELSE groups[n]]
\* INSERT OR IGNORE INTO groups (name, enabled) VALUES (g, 1).
Ensured(g) ==
    [n \in DOMAIN groups \cup {g} |-> IF n \in DOMAIN groups THEN groups[n]
                                                             ELSE TRUE]

Members(g) == {h \in DOMAIN hosts : hosts[h] = g}

\* Mutant: without AUTOINCREMENT.
NextIdReused == CHOOSE n \in Ids : n \notin DOMAIN hosts
\* Mutant: the counter is read before it is advanced.
NextIdBehind == lastId
NextId == lastId + 1

\* Mutant: the insert does not check its foreign keys.
ReferencedAny(h, g) == TRUE
\* FOREIGN KEY of dismissed_suggestions, with PRAGMA foreign_keys=ON.
Referenced(h, g) == h \in DOMAIN hosts /\ g \in DOMAIN groups

\* Deletes the hosts of S and the groups of G, with ON DELETE CASCADE.
Delete(S, G) ==
    /\ hosts' = [h \in DOMAIN hosts \ S |-> hosts[h]]
    /\ groups' = [g \in DOMAIN groups \ G |-> groups[g]]
    /\ cidrs' = {c \in cidrs : c[1] \notin G}
    /\ dismissed' = {d \in dismissed : d[1] \notin S /\ d[2] \notin G}
    /\ retired' = retired \cup (S \cap DOMAIN hosts)

Work(r, op, h, g, e, S) ==
    job' = [job EXCEPT ![r] = [op |-> op, host |-> h, group |-> g, on |-> e,
                               ids |-> S]]
Return(r) == job' = [job EXCEPT ![r] = Idle]
Is(r, op) == job[r].op = op

-----------------------------------------------------------------------------
(* Hosts.                                                                  *)

\* Mutant: one host more than the cap.
BelowCapOrAt == Cardinality(DOMAIN hosts) <= HostCap
BelowCap == Cardinality(DOMAIN hosts) < HostCap

\* create_host counts the hosts; at the cap it answers 409.
CreateBegins(r, g) ==
    /\ Is(r, "idle") /\ BelowCap
    /\ Work(r, "create", 0, g, TRUE, {})
    /\ UNCHANGED <<tables, lastId, retired>>

CreateInserts(r) ==
    LET g == job[r].group IN
    /\ Is(r, "create")
    /\ lastId < MaxId /\ lastId' = lastId + 1
    /\ hosts' = [h \in DOMAIN hosts \cup {NextId} |->
                    IF h = NextId THEN g ELSE hosts[h]]
    /\ groups' = Ensured(g)
    /\ Return(r)
    /\ UNCHANGED <<cidrs, dismissed, retired>>

\* patch_host with a group_name: an UPDATE, whether the group exists or not.
MoveHost(r, h, g) ==
    /\ Is(r, "idle") /\ h \in DOMAIN hosts
    /\ hosts' = [hosts EXCEPT ![h] = g]
    /\ UNCHANGED <<groups, cidrs, dismissed, lastId, retired, job>>

DeleteHost(r, h) ==
    /\ Is(r, "idle") /\ h \in DOMAIN hosts
    /\ Delete({h}, {})
    /\ UNCHANGED <<lastId, job>>

-----------------------------------------------------------------------------
(* Groups.                                                                 *)

\* list_groups adds the rows that are missing.
ListGroups(r) ==
    /\ Is(r, "idle")
    /\ groups' = [g \in DOMAIN groups \cup {hosts[h] : h \in DOMAIN hosts} |->
                     IF g \in DOMAIN groups THEN groups[g] ELSE TRUE]
    /\ UNCHANGED <<hosts, cidrs, dismissed, lastId, retired, job>>

\* update_group with `enabled`; with `collapsed` alone the row is only ensured.
Upserts(g, e) ==
    /\ \/ groups' = [Ensured(g) EXCEPT ![g] = e]
       \/ groups' = Ensured(g)
    /\ UNCHANGED <<hosts, cidrs, dismissed>>

\* patch_group without a name.
UpdateGroup(r, g, e) ==
    /\ Is(r, "idle")
    /\ Upserts(g, e)
    /\ UNCHANGED <<lastId, retired, job>>

RenamedDismissals(old, new) ==
    {<<d[1], IF d[2] = old THEN new ELSE d[2]>> : d \in dismissed}

\* rename_group is one BEGIN IMMEDIATE transaction: 404 when the group is gone,
\* 409 when the new name is taken.  Other fields follow in a second one.
RenameGroup(r, old, new, e) ==
    /\ Is(r, "idle")
    /\ old \in DOMAIN groups /\ new \notin DOMAIN groups
    /\ groups' = [g \in (DOMAIN groups \ {old}) \cup {new} |->
                     IF g = new THEN groups[old] ELSE groups[g]]
    /\ hosts' = [h \in DOMAIN hosts |-> IF hosts[h] = old THEN new
                                                          ELSE hosts[h]]
    /\ cidrs' = {<<IF c[1] = old THEN new ELSE c[1], c[2]>> : c \in cidrs}
    /\ dismissed' = RenamedDismissals(old, new)
    /\ Return(r) \/ Work(r, "renamed", 0, new, e, {})
    /\ UNCHANGED <<lastId, retired>>

UpdateRenamed(r) ==
    /\ Is(r, "renamed")
    /\ Upserts(job[r].group, job[r].on)
    /\ Return(r)
    /\ UNCHANGED <<lastId, retired>>

\* delete_group selects the row and the ids of its hosts, which it will
\* announce, before its first DELETE opens the transaction.
DeleteGroupBegins(r, g) ==
    /\ Is(r, "idle") /\ g \in DOMAIN groups
    /\ Work(r, "deleteGroup", 0, g, TRUE, Members(g))
    /\ UNCHANGED <<tables, lastId, retired>>

\* Mutant: the selected hosts are deleted.
DoomedAsRead(r) == job[r].ids
\* DELETE FROM hosts WHERE group_name = ?
Doomed(r) == Members(job[r].group)

DeleteGroupCommits(r) ==
    /\ Is(r, "deleteGroup")
    /\ Delete(Doomed(r), {job[r].group})
    /\ Return(r)
    /\ UNCHANGED lastId

AddCidr(r, g, c) ==
    /\ Is(r, "idle")
    /\ groups' = Ensured(g)
    /\ cidrs' = cidrs \cup {<<g, c>>}
    /\ UNCHANGED <<hosts, dismissed, lastId, retired, job>>

DeleteCidr(r, g, c) ==
    /\ Is(r, "idle") /\ <<g, c>> \in cidrs
    /\ cidrs' = cidrs \ {<<g, c>>}
    /\ UNCHANGED <<hosts, groups, dismissed, lastId, retired, job>>

-----------------------------------------------------------------------------
(* Suggestions: two reads validate the request, a third transaction acts.  *)

SuggestionBegins(r, op, h, g) ==
    /\ Is(r, "idle") /\ h \in DOMAIN hosts
    /\ Work(r, op, h, g, TRUE, {})
    /\ UNCHANGED <<tables, lastId, retired>>

SuggestionChecksGroup(r) ==
    LET j == job[r] IN
    /\ j.op \in {"accept", "dismiss"}
    /\ IF j.group \notin DOMAIN groups THEN Return(r)
       ELSE Work(r, IF j.op = "accept" THEN "acceptInto" ELSE "dismissInto",
                 j.host, j.group, TRUE, {})
    /\ UNCHANGED <<tables, lastId, retired>>

\* update_host matches no row when the host was deleted in between.
AcceptMoves(r) ==
    /\ Is(r, "acceptInto")
    /\ hosts' = [h \in DOMAIN hosts |-> IF h = job[r].host THEN job[r].group
                                                           ELSE hosts[h]]
    /\ Return(r)
    /\ UNCHANGED <<groups, cidrs, dismissed, lastId, retired>>

\* The insert fails when the host or the group was deleted in between.
DismissInserts(r) ==
    LET h == job[r].host
        g == job[r].group IN
    /\ Is(r, "dismissInto")
    /\ dismissed' = IF Referenced(h, g) THEN dismissed \cup {<<h, g>>}
                                        ELSE dismissed
    /\ Return(r)
    /\ UNCHANGED <<hosts, groups, cidrs, lastId, retired>>

-----------------------------------------------------------------------------
HostStep(r) ==
    \/ \E g \in Groups : CreateBegins(r, g)
    \/ CreateInserts(r)
    \/ \E h \in Ids : DeleteHost(r, h) \/ \E g \in Groups : MoveHost(r, h, g)

GroupStep(r) ==
    \/ ListGroups(r)
    \/ \E g \in Groups : DeleteGroupBegins(r, g)
    \/ \E g \in Groups, e \in BOOLEAN :
          UpdateGroup(r, g, e) \/ \E new \in Groups : RenameGroup(r, g, new, e)
    \/ UpdateRenamed(r)
    \/ DeleteGroupCommits(r)
    \/ \E g \in Groups, c \in Cidrs : AddCidr(r, g, c) \/ DeleteCidr(r, g, c)

SuggestionStep(r) ==
    \/ \E op \in {"accept", "dismiss"}, h \in Ids, g \in Groups :
          SuggestionBegins(r, op, h, g)
    \/ SuggestionChecksGroup(r) \/ AcceptMoves(r) \/ DismissInserts(r)

Next == \E r \in Requests : HostStep(r) \/ GroupStep(r) \/ SuggestionStep(r)

Spec == Init /\ [][Next]_vars

-----------------------------------------------------------------------------
\* Whatever two requests validated before the rows they named were deleted, no
\* CIDR and no dismissal refers to a group or a host that does not exist.
RefsIntact ==
    /\ \A c \in cidrs : c[1] \in DOMAIN groups
    /\ \A d \in dismissed : d[1] \in DOMAIN hosts /\ d[2] \in DOMAIN groups

\* A deleted host's id never names another host: outage state, buffered samples
\* and the browsers' buffers are kept by id and outlive the row.
IdsNotReused == DOMAIN hosts \cap retired = {}

\* The cap is checked before the insert, on another connection, so requests in
\* flight together can pass it, by one host each and no further (api.py:39-41
\* calls it a hard cap).
CapBounded ==
    Cardinality(DOMAIN hosts) + Cardinality({r \in Requests : Is(r, "create")})
        < HostCap + Cardinality(Requests)

\* A group is paused or resumed only by an update of it, never by a host or a
\* CIDR that is added to it or a host that is moved or deleted.
PauseKept ==
    [][\A g \in DOMAIN groups \cap DOMAIN groups' :
          groups'[g] # groups[g] =>
              UNCHANGED <<hosts, cidrs, dismissed, lastId>>]_vars

\* A group's row disappears together with all its hosts or with all of them
\* moved, also those that joined it after delete_group listed them.
NoHostLeftBehind ==
    [][\A g \in DOMAIN groups \ DOMAIN groups' :
          \A h \in DOMAIN hosts' : hosts'[h] # g]_vars

\* The deletion of a group takes no host that is in another group by then, also
\* when delete_group listed it before it left.
LeaversStay ==
    [][\A h \in DOMAIN hosts \ DOMAIN hosts' :
          hosts[h] \in DOMAIN groups \ DOMAIN groups' \/ UNCHANGED groups]_vars

\* What happens to a group as a whole is what somebody asked for: it is not
\* resumed by a host that joins it, nor left half-way by its deletion, which
\* takes the hosts that are in it and no others.
GroupsChangeAsAsked == PauseKept /\ NoHostLeftBehind /\ LeaversStay
=============================================================================
