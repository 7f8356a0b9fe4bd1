--------------------------- MODULE Registry_proof ---------------------------
(***************************************************************************)
(* Registry: the types, the foreign keys, the ids, the cap on hosts and    *)
(* what a step may do to a group, for every set of groups, CIDRs and       *)
(* requests and every bound.                                               *)
(***************************************************************************)
EXTENDS Registry, FiniteSetTheorems, TLAPS

\* TypeOK with the domains named instead of quantified.
Typed ==
    /\ hosts \in [DOMAIN hosts -> Groups] /\ DOMAIN hosts \subseteq 1..lastId
    /\ groups \in [DOMAIN groups -> BOOLEAN] /\ DOMAIN groups \subseteq Groups
    /\ cidrs \subseteq Groups \X Cidrs
    /\ dismissed \subseteq Ids \X Groups
    /\ lastId \in 0..MaxId
    /\ retired \subseteq 1..lastId
    /\ job \in [Requests -> Jobs]

LEMMA TypedIsTypeOK == Typed <=> TypeOK
<1>1. Typed => TypeOK
  <2>1. ASSUME Typed PROVE \E S \in SUBSET (1..lastId) : hosts \in [S -> Groups]
    BY <2>1 DEF Typed
  <2>2. ASSUME Typed PROVE \E G \in SUBSET Groups : groups \in [G -> BOOLEAN]
    BY <2>2 DEF Typed
  <2> QED BY <2>1, <2>2 DEF Typed, TypeOK
<1>2. TypeOK => Typed
  BY DEF Typed, TypeOK
<1> QED BY <1>1, <1>2

\* Ids counted so far are ids of the model.
LEMMA CountedAreIds == ASSUME lastId \in 0..MaxId PROVE 1..lastId \subseteq Ids
BY BoundsAssumption DEF Ids

\* A request's work is well typed when its parts are.
LEMMA WorkTyped ==
    ASSUME job \in [Requests -> Jobs], NEW r \in Requests,
           NEW op \in {"create", "deleteGroup", "renamed", "accept",
                       "acceptInto", "dismiss", "dismissInto"},
           NEW h \in 0..MaxId, NEW g \in Groups, NEW e \in BOOLEAN,
           NEW S \in SUBSET Ids, Work(r, op, h, g, e, S)
    PROVE  job' \in [Requests -> Jobs]
BY DEF Work, Jobs

LEMMA ReturnTyped ==
    ASSUME job \in [Requests -> Jobs], NEW r \in Requests, Return(r)
    PROVE  job' \in [Requests -> Jobs]
BY DEF Return, Jobs

\* A request at work names a group.
LEMMA WorkNamesGroup ==
    ASSUME job \in [Requests -> Jobs], NEW r \in Requests, ~Is(r, "idle")
    PROVE  job[r].group \in Groups /\ job[r].on \in BOOLEAN
BY DEF Jobs, Is, Idle

-----------------------------------------------------------------------------
\* Everything an operator's requests must not break.
IInv == Typed /\ RefsIntact /\ IdsNotReused

\* Deleting rows with their cascades keeps the tables sound.
LEMMA DeleteKeeps ==
    ASSUME IInv, NEW S, NEW G, Delete(S, G), lastId' = lastId,
           job' \in [Requests -> Jobs]
    PROVE  IInv'
<1> USE DEF IInv, Delete
<1>1. Typed'
  BY DEF Typed
<1>2. RefsIntact'
  BY DEF RefsIntact, Typed
<1>3. IdsNotReused'
  BY DEF IdsNotReused
<1> QED BY <1>1, <1>2, <1>3

\* Adding a group that is missing, with its rows or not, keeps them too.
LEMMA EnsuredTyped ==
    ASSUME Typed, NEW g \in Groups
    PROVE  /\ Ensured(g) \in [DOMAIN groups \cup {g} -> BOOLEAN]
           /\ DOMAIN Ensured(g) = DOMAIN groups \cup {g}
BY DEF Typed, Ensured

LEMMA GroupsGrow ==
    ASSUME IInv, groups' \in [DOMAIN groups' -> BOOLEAN],
           DOMAIN groups \subseteq DOMAIN groups', DOMAIN groups' \subseteq Groups,
           UNCHANGED <<hosts, cidrs, dismissed, lastId, retired>>,
           job' \in [Requests -> Jobs]
    PROVE  IInv'
BY DEF IInv, Typed, RefsIntact, IdsNotReused

LEMMA UpsertsGrows ==
    ASSUME IInv, NEW g \in Groups, NEW e \in BOOLEAN, Upserts(g, e),
           UNCHANGED <<lastId, retired>>, job' \in [Requests -> Jobs]
    PROVE  IInv'
<1>1. groups' \in [DOMAIN groups \cup {g} -> BOOLEAN]
  BY EnsuredTyped DEF Upserts, IInv
<1>2. DOMAIN groups' = DOMAIN groups \cup {g}
  BY <1>1
<1> QED BY <1>1, <1>2, GroupsGrow DEF Upserts, IInv, Typed

\* Only a request's own progress changes.
LEMMA TablesStay ==
    ASSUME IInv, UNCHANGED <<tables, lastId, retired>>,
           job' \in [Requests -> Jobs]
    PROVE  IInv'
BY DEF IInv, Typed, RefsIntact, IdsNotReused, tables

-----------------------------------------------------------------------------
LEMMA InitInv == Init => IInv
<1> SUFFICES ASSUME Init PROVE IInv
  OBVIOUS
<1> USE DEF Init
<1>1. hosts = [h \in {} |-> None] /\ groups = [g \in {} |-> TRUE]
  OBVIOUS
<1>2. Idle \in Jobs
  BY DEF Jobs
<1>3. Typed
  BY <1>1, <1>2, BoundsAssumption DEF Typed, Ids
<1>4. RefsIntact /\ IdsNotReused
  BY <1>1 DEF RefsIntact, IdsNotReused
<1> QED BY <1>3, <1>4 DEF IInv

\* The id a new host gets was never used.
LEMMA CreateKeeps ==
    ASSUME IInv, NEW r \in Requests, CreateInserts(r)
    PROVE  IInv'
<1> DEFINE g == job[r].group
<1> USE DEF IInv
<1>1. job' \in [Requests -> Jobs]
  BY ReturnTyped DEF CreateInserts, Typed
<1>2. g \in Groups
  BY WorkNamesGroup DEF CreateInserts, Typed, Is
<1>3. /\ lastId \in Nat /\ lastId + 1 \in 0..MaxId
      /\ 1..lastId \subseteq 1..(lastId + 1) /\ lastId + 1 \notin 1..lastId
  BY BoundsAssumption DEF CreateInserts, Typed
<1>4. /\ DOMAIN hosts' = DOMAIN hosts \cup {lastId + 1}
      /\ hosts' \in [DOMAIN hosts' -> Groups]
  BY <1>2 DEF CreateInserts, Typed, NextId
<1>5. /\ groups' \in [DOMAIN groups' -> BOOLEAN]
      /\ DOMAIN groups' = DOMAIN groups \cup {g}
  BY <1>2, EnsuredTyped DEF CreateInserts
<1>6. UNCHANGED <<cidrs, dismissed, retired>> /\ lastId' = lastId + 1
  BY DEF CreateInserts
<1>7. Typed'
  BY <1>1, <1>2, <1>3, <1>4, <1>5, <1>6 DEF Typed
<1>8. RefsIntact'
  BY <1>4, <1>5, <1>6 DEF RefsIntact
<1>9. IdsNotReused'
  BY <1>3, <1>4, <1>6 DEF IdsNotReused, Typed
<1> QED BY <1>7, <1>8, <1>9

LEMMA HostStepInv ==
    ASSUME IInv, NEW r \in Requests, HostStep(r)
    PROVE  IInv'
<1> USE DEF IInv
<1>1. ASSUME NEW g \in Groups, CreateBegins(r, g) PROVE IInv'
  <2>1. 0 \in 0..MaxId /\ {} \in SUBSET Ids
    BY BoundsAssumption
  <2>2. Work(r, "create", 0, g, TRUE, {})
    BY <1>1 DEF CreateBegins
  <2>3. job' \in [Requests -> Jobs]
    BY <2>1, <2>2, WorkTyped DEF Typed
  <2> QED BY <1>1, <2>3, TablesStay DEF CreateBegins
<1>2. CASE CreateInserts(r)
  BY <1>2, CreateKeeps
<1>3. ASSUME NEW h \in Ids, DeleteHost(r, h) PROVE IInv'
  BY <1>3, DeleteKeeps DEF DeleteHost, Typed
<1>4. ASSUME NEW h \in Ids, NEW g \in Groups, MoveHost(r, h, g) PROVE IInv'
  BY <1>4 DEF MoveHost, Typed, RefsIntact, IdsNotReused
<1> QED BY <1>1, <1>2, <1>3, <1>4 DEF HostStep

\* A rename moves every row that referred to the old name.
LEMMA RenameKeeps ==
    ASSUME IInv, NEW r \in Requests, NEW old \in Groups, NEW new \in Groups,
           NEW e \in BOOLEAN, RenameGroup(r, old, new, e)
    PROVE  IInv'
<1> USE DEF IInv
<1>1. job' \in [Requests -> Jobs]
  <2>1. 0 \in 0..MaxId /\ {} \in SUBSET Ids
    BY BoundsAssumption
  <2>2. Return(r) \/ Work(r, "renamed", 0, new, e, {})
    BY DEF RenameGroup
  <2> QED BY <2>1, <2>2, ReturnTyped, WorkTyped DEF Typed
<1>2. /\ DOMAIN groups' = (DOMAIN groups \ {old}) \cup {new}
      /\ groups' \in [DOMAIN groups' -> BOOLEAN]
  BY DEF RenameGroup, Typed
<1>3. DOMAIN hosts' = DOMAIN hosts /\ hosts' \in [DOMAIN hosts' -> Groups]
  BY DEF RenameGroup, Typed
<1>4. cidrs' \subseteq Groups \X Cidrs /\ dismissed' \subseteq Ids \X Groups
  BY DEF RenameGroup, RenamedDismissals, Typed
<1>5. Typed'
  BY <1>1, <1>2, <1>3, <1>4 DEF RenameGroup, Typed
<1>6. \A c \in cidrs' : c[1] \in DOMAIN groups'
  BY <1>2 DEF RenameGroup, RefsIntact
<1>7. \A d \in dismissed' : d[1] \in DOMAIN hosts' /\ d[2] \in DOMAIN groups'
  BY <1>2, <1>3 DEF RenameGroup, RenamedDismissals, RefsIntact
<1>8. IdsNotReused'
  BY <1>3 DEF RenameGroup, IdsNotReused
<1> QED BY <1>5, <1>6, <1>7, <1>8 DEF RefsIntact

LEMMA GroupStepInv ==
    ASSUME IInv, NEW r \in Requests, GroupStep(r)
    PROVE  IInv'
<1> USE DEF IInv
<1>1. CASE ListGroups(r)
  <2>1. /\ groups' \in [DOMAIN groups' -> BOOLEAN]
        /\ DOMAIN groups \subseteq DOMAIN groups'
        /\ DOMAIN groups' \subseteq Groups
    BY <1>1 DEF ListGroups, Typed
  <2> QED BY <1>1, <2>1, GroupsGrow DEF ListGroups, Typed
<1>2. ASSUME NEW g \in Groups, DeleteGroupBegins(r, g) PROVE IInv'
  <2>1. 0 \in 0..MaxId /\ Members(g) \in SUBSET Ids
    BY BoundsAssumption, CountedAreIds DEF Members, Typed
  <2>2. Work(r, "deleteGroup", 0, g, TRUE, Members(g))
    BY <1>2 DEF DeleteGroupBegins
  <2>3. job' \in [Requests -> Jobs]
    BY <2>1, <2>2, WorkTyped DEF Typed
  <2> QED BY <1>2, <2>3, TablesStay DEF DeleteGroupBegins
<1>3. ASSUME NEW g \in Groups, NEW e \in BOOLEAN, UpdateGroup(r, g, e)
      PROVE  IInv'
  BY <1>3, UpsertsGrows DEF UpdateGroup, Typed
<1>4. ASSUME NEW g \in Groups, NEW new \in Groups, NEW e \in BOOLEAN,
             RenameGroup(r, g, new, e)
      PROVE  IInv'
  BY <1>4, RenameKeeps
<1>5. CASE UpdateRenamed(r)
  <2>1. job[r].group \in Groups /\ job[r].on \in BOOLEAN
    BY <1>5, WorkNamesGroup DEF UpdateRenamed, Typed, Is
  <2>2. job' \in [Requests -> Jobs]
    BY <1>5, ReturnTyped DEF UpdateRenamed, Typed
  <2> QED BY <1>5, <2>1, <2>2, UpsertsGrows DEF UpdateRenamed
<1>6. CASE DeleteGroupCommits(r)
  <2>1. job' \in [Requests -> Jobs]
    BY <1>6, ReturnTyped DEF DeleteGroupCommits, Typed
  <2> QED BY <1>6, <2>1, DeleteKeeps DEF DeleteGroupCommits
<1>7. ASSUME NEW g \in Groups, NEW c \in Cidrs, AddCidr(r, g, c) PROVE IInv'
  <2>1. /\ groups' \in [DOMAIN groups' -> BOOLEAN]
        /\ DOMAIN groups' = DOMAIN groups \cup {g}
    BY <1>7, EnsuredTyped DEF AddCidr
  <2> QED BY <1>7, <2>1 DEF AddCidr, Typed, RefsIntact, IdsNotReused
<1>8. ASSUME NEW g \in Groups, NEW c \in Cidrs, DeleteCidr(r, g, c)
      PROVE  IInv'
  BY <1>8 DEF DeleteCidr, Typed, RefsIntact, IdsNotReused
<1> QED BY <1>1, <1>2, <1>3, <1>4, <1>5, <1>6, <1>7, <1>8 DEF GroupStep

LEMMA SuggestionStepInv ==
    ASSUME IInv, NEW r \in Requests, SuggestionStep(r)
    PROVE  IInv'
<1> USE DEF IInv
<1>1. ASSUME NEW op \in {"accept", "dismiss"}, NEW h \in Ids, NEW g \in Groups,
             SuggestionBegins(r, op, h, g)
      PROVE  IInv'
  <2>1. /\ h \in 0..MaxId /\ {} \in SUBSET Ids
        /\ op \in {"create", "deleteGroup", "renamed", "accept", "acceptInto",
                   "dismiss", "dismissInto"}
    BY BoundsAssumption DEF Ids
  <2>2. Work(r, op, h, g, TRUE, {})
    BY <1>1 DEF SuggestionBegins
  <2>3. job' \in [Requests -> Jobs]
    BY <2>1, <2>2, WorkTyped DEF Typed
  <2> QED BY <1>1, <2>3, TablesStay DEF SuggestionBegins
<1>2. CASE SuggestionChecksGroup(r)
  <2>1. ~Is(r, "idle")
    BY <1>2 DEF SuggestionChecksGroup, Is
  <2>2. job[r].group \in Groups /\ job[r].host \in 0..MaxId
    BY <2>1 DEF Typed, Jobs, Is, Idle
  <2>3. job' \in [Requests -> Jobs]
    <3>1. CASE Return(r)
      BY <3>1, ReturnTyped DEF Typed
    <3>2. ASSUME NEW op \in {"acceptInto", "dismissInto"},
                 Work(r, op, job[r].host, job[r].group, TRUE, {})
          PROVE  job' \in [Requests -> Jobs]
      <4>1. /\ {} \in SUBSET Ids
            /\ op \in {"create", "deleteGroup", "renamed", "accept",
                       "acceptInto", "dismiss", "dismissInto"}
        OBVIOUS
      <4> QED BY <2>2, <3>2, <4>1, WorkTyped DEF Typed
    <3> QED BY <1>2, <3>1, <3>2 DEF SuggestionChecksGroup
  <2> QED BY <1>2, <2>3, TablesStay DEF SuggestionChecksGroup
<1>3. CASE AcceptMoves(r)
  <2>1. job[r].group \in Groups
    BY <1>3, WorkNamesGroup DEF AcceptMoves, Typed, Is
  <2>2. job' \in [Requests -> Jobs]
    BY <1>3, ReturnTyped DEF AcceptMoves, Typed
  <2> QED BY <1>3, <2>1, <2>2 DEF AcceptMoves, Typed, RefsIntact, IdsNotReused
<1>4. CASE DismissInserts(r)
  <2>1. job[r].group \in Groups
    BY <1>4, WorkNamesGroup DEF DismissInserts, Typed, Is
  <2>2. job' \in [Requests -> Jobs]
    BY <1>4, ReturnTyped DEF DismissInserts, Typed
  <2>3. dismissed' \subseteq Ids \X Groups
    BY <1>4, <2>1, CountedAreIds DEF DismissInserts, Referenced, Typed
  <2>4. RefsIntact'
    BY <1>4 DEF DismissInserts, Referenced, RefsIntact
  <2> QED BY <1>4, <2>2, <2>3, <2>4 DEF DismissInserts, Typed, IdsNotReused
<1> QED BY <1>1, <1>2, <1>3, <1>4 DEF SuggestionStep

LEMMA StepInv == IInv /\ [Next]_vars => IInv'
<1> SUFFICES ASSUME IInv, [Next]_vars PROVE IInv'
  OBVIOUS
<1>1. ASSUME NEW r \in Requests, HostStep(r) \/ GroupStep(r) \/ SuggestionStep(r)
      PROVE  IInv'
  BY <1>1, HostStepInv, GroupStepInv, SuggestionStepInv
<1>2. CASE UNCHANGED vars
  BY <1>2, TablesStay DEF vars, IInv, Typed
<1> QED BY <1>1, <1>2 DEF Next

LEMMA Invariant == Spec => []IInv
BY InitInv, StepInv, PTL DEF Spec

-----------------------------------------------------------------------------
\* The tables, the id counter and every request keep their types.
THEOREM TypeCorrect == Spec => []TypeOK
<1>1. IInv => TypeOK
  BY TypedIsTypeOK DEF IInv
<1> QED BY <1>1, Invariant, PTL

\* No CIDR and no dismissal is left without its group or host, whatever two
\* requests validated before those rows were deleted or renamed.
THEOREM ReferencesIntact == Spec => []RefsIntact
<1>1. IInv => RefsIntact
  BY DEF IInv
<1> QED BY <1>1, Invariant, PTL

\* A deleted host's id is never given to another host.
THEOREM IdsStayRetired == Spec => []IdsNotReused
<1>1. IInv => IdsNotReused
  BY DEF IInv
<1> QED BY <1>1, Invariant, PTL

-----------------------------------------------------------------------------
(* Action properties.                                                      *)

\* A step that keeps every group's row, with its pause.
Keeps(S) == \A g \in S : g \in DOMAIN groups' /\ groups'[g] = groups[g]

LEMMA EnsuredKeeps ==
    ASSUME NEW g, groups' = Ensured(g)
    PROVE  Keeps(DOMAIN groups)
BY DEF Ensured, Keeps

LEMMA UpsertsKeepsRows ==
    ASSUME NEW g, NEW e, Upserts(g, e)
    PROVE  DOMAIN groups \subseteq DOMAIN groups'
BY DEF Ensured, Upserts

\* What a step does to the groups' rows.
LEMMA StepsOnGroups ==
    ASSUME IInv, [Next]_vars
    PROVE  \/ Keeps(DOMAIN groups)
           \/ /\ DOMAIN groups \subseteq DOMAIN groups'
              /\ UNCHANGED <<hosts, cidrs, dismissed, lastId>>
           \/ \E r \in Requests : DeleteGroupCommits(r)
           \/ \E r \in Requests, old \in Groups, new \in Groups, e \in BOOLEAN :
                 RenameGroup(r, old, new, e)
<1> DEFINE Goal == \/ Keeps(DOMAIN groups)
                   \/ /\ DOMAIN groups \subseteq DOMAIN groups'
                      /\ UNCHANGED <<hosts, cidrs, dismissed, lastId>>
                   \/ \E r \in Requests : DeleteGroupCommits(r)
                   \/ \E r \in Requests, old \in Groups, new \in Groups,
                         e \in BOOLEAN : RenameGroup(r, old, new, e)
<1>1. ASSUME NEW r \in Requests, HostStep(r) PROVE Goal
  <2>1. ASSUME NEW g \in Groups, CreateBegins(r, g) PROVE Goal
    BY <2>1 DEF CreateBegins, tables, Keeps
  <2>2. CASE CreateInserts(r)
    BY <2>2, EnsuredKeeps DEF CreateInserts
  <2>3. ASSUME NEW h \in Ids, DeleteHost(r, h) PROVE Goal
    BY <2>3 DEF DeleteHost, Delete, Keeps
  <2>4. ASSUME NEW h \in Ids, NEW g \in Groups, MoveHost(r, h, g) PROVE Goal
    BY <2>4 DEF MoveHost, Keeps
  <2> QED BY <1>1, <2>1, <2>2, <2>3, <2>4 DEF HostStep
<1>2. ASSUME NEW r \in Requests, GroupStep(r) PROVE Goal
  <2>1. CASE ListGroups(r)
    BY <2>1 DEF ListGroups, Keeps
  <2>2. ASSUME NEW g \in Groups, DeleteGroupBegins(r, g) PROVE Goal
    BY <2>2 DEF DeleteGroupBegins, tables, Keeps
  <2>3. ASSUME NEW g \in Groups, NEW e \in BOOLEAN, UpdateGroup(r, g, e)
        PROVE  Goal
    BY <2>3, UpsertsKeepsRows DEF UpdateGroup, Upserts
  <2>4. CASE UpdateRenamed(r)
    BY <2>4, UpsertsKeepsRows DEF UpdateRenamed, Upserts
  <2>5. ASSUME NEW g \in Groups, NEW c \in Cidrs, AddCidr(r, g, c) PROVE Goal
    BY <2>5, EnsuredKeeps DEF AddCidr
  <2>6. ASSUME NEW g \in Groups, NEW c \in Cidrs, DeleteCidr(r, g, c)
        PROVE  Goal
    BY <2>6 DEF DeleteCidr, Keeps
  <2>7. ASSUME NEW g \in Groups, NEW new \in Groups, NEW e \in BOOLEAN,
               RenameGroup(r, g, new, e)
        PROVE  Goal
    BY <2>7
  <2>8. CASE DeleteGroupCommits(r)
    BY <2>8
  <2> QED BY <1>2, <2>1, <2>2, <2>3, <2>4, <2>5, <2>6, <2>7, <2>8 DEF GroupStep
<1>3. ASSUME NEW r \in Requests, SuggestionStep(r) PROVE Goal
  <2>1. UNCHANGED groups
    BY <1>3 DEF SuggestionStep, SuggestionBegins, SuggestionChecksGroup,
                AcceptMoves, DismissInserts, tables
  <2> QED BY <2>1 DEF Keeps
<1>4. CASE UNCHANGED vars
  BY <1>4 DEF vars, tables, Keeps
<1> QED BY <1>1, <1>2, <1>3, <1>4 DEF Next

\* A group's row disappears together with all its hosts, or with all of them
\* moved, also those that joined it after delete_group listed them.
THEOREM NoHostStays == Spec => NoHostLeftBehind
<1> DEFINE A == \A g \in DOMAIN groups \ DOMAIN groups' :
                   \A h \in DOMAIN hosts' : hosts'[h] # g
<1>1. ASSUME IInv, [Next]_vars PROVE A
  <2>1. ASSUME NEW r \in Requests, DeleteGroupCommits(r) PROVE A
    BY <1>1, <2>1 DEF DeleteGroupCommits, Delete, Doomed, Members, IInv, Typed
  <2>2. ASSUME NEW r \in Requests, NEW old \in Groups, NEW new \in Groups,
               NEW e \in BOOLEAN, RenameGroup(r, old, new, e)
        PROVE  A
    BY <1>1, <2>2 DEF RenameGroup, IInv, Typed
  <2> QED BY <1>1, <2>1, <2>2, StepsOnGroups DEF Keeps
<1>2. IInv /\ [Next]_vars => [A]_vars
  BY <1>1
<1> QED BY <1>2, Invariant, PTL DEF Spec, NoHostLeftBehind

\* Adding hosts or CIDRs, moving or deleting hosts and renaming or deleting
\* other groups never pauses or resumes a group.
THEOREM PausesKept == Spec => PauseKept
<1> DEFINE A == \A g \in DOMAIN groups \cap DOMAIN groups' :
                   groups'[g] # groups[g] =>
                      UNCHANGED <<hosts, cidrs, dismissed, lastId>>
<1>1. ASSUME IInv, [Next]_vars PROVE A
  <2>1. ASSUME NEW r \in Requests, DeleteGroupCommits(r) PROVE A
    BY <2>1 DEF DeleteGroupCommits, Delete
  <2>2. ASSUME NEW r \in Requests, NEW old \in Groups, NEW new \in Groups,
               NEW e \in BOOLEAN, RenameGroup(r, old, new, e)
        PROVE  A
    BY <2>2 DEF RenameGroup
  <2> QED BY <1>1, <2>1, <2>2, StepsOnGroups DEF Keeps
<1>2. IInv /\ [Next]_vars => [A]_vars
  BY <1>1
<1> QED BY <1>2, Invariant, PTL DEF Spec, PauseKept

\* The deletion of a group takes no host that is in another group by then, also
\* when delete_group listed it before it left.
THEOREM LeaversAreKept == Spec => LeaversStay
<1> DEFINE A == \A h \in DOMAIN hosts \ DOMAIN hosts' :
                   hosts[h] \in DOMAIN groups \ DOMAIN groups' \/ UNCHANGED groups
<1>1. ASSUME IInv, NEW r \in Requests, DeleteGroupCommits(r) PROVE A
  <2>1. /\ hosts' = [h \in DOMAIN hosts \ Members(job[r].group) |-> hosts[h]]
        /\ groups' = [g \in DOMAIN groups \ {job[r].group} |-> groups[g]]
    BY <1>1 DEF DeleteGroupCommits, Delete, Doomed
  <2>2. \A h \in DOMAIN hosts \ DOMAIN hosts' : hosts[h] = job[r].group
    BY <2>1 DEF Members
  <2>3. CASE job[r].group \in DOMAIN groups
    BY <2>1, <2>2, <2>3
  <2>4. CASE job[r].group \notin DOMAIN groups
    <3>1. groups = [g \in DOMAIN groups |-> groups[g]]
      BY <1>1 DEF IInv, Typed
    <3> QED BY <2>1, <2>4, <3>1
  <2> QED BY <2>3, <2>4
<1>2. ASSUME IInv, [Next]_vars, \A r \in Requests : ~DeleteGroupCommits(r) PROVE A
  <2>1. ASSUME NEW r \in Requests, HostStep(r) PROVE A
    <3>1. groups = [g \in DOMAIN groups |-> groups[g]]
      BY <1>2 DEF IInv, Typed
    <3>2. ASSUME NEW h \in Ids, DeleteHost(r, h) PROVE UNCHANGED groups
      <4>1. groups' = [g \in DOMAIN groups \ {} |-> groups[g]]
        BY <3>2 DEF DeleteHost, Delete
      <4>2. DOMAIN groups \ {} = DOMAIN groups
        OBVIOUS
      <4> QED BY <3>1, <4>1, <4>2
    <3>3. ASSUME NEW g \in Groups, CreateBegins(r, g) PROVE DOMAIN hosts \subseteq DOMAIN hosts'
      BY <3>3 DEF CreateBegins, tables
    <3>4. CASE CreateInserts(r)
      BY <3>4 DEF CreateInserts
    <3>5. ASSUME NEW h \in Ids, NEW g \in Groups, MoveHost(r, h, g)
          PROVE  DOMAIN hosts \subseteq DOMAIN hosts'
      BY <3>5 DEF MoveHost
    <3> QED BY <2>1, <3>2, <3>3, <3>4, <3>5 DEF HostStep
  <2>2. ASSUME NEW r \in Requests, GroupStep(r) PROVE DOMAIN hosts' = DOMAIN hosts
    <3>1. ASSUME NEW g \in Groups, NEW new \in Groups, NEW e \in BOOLEAN,
                 RenameGroup(r, g, new, e)
          PROVE  DOMAIN hosts' = DOMAIN hosts
      BY <3>1 DEF RenameGroup
    <3>2. ASSUME NEW g \in Groups, NEW e \in BOOLEAN, UpdateGroup(r, g, e)
          PROVE  UNCHANGED hosts
      BY <3>2 DEF UpdateGroup, Upserts
    <3>3. ASSUME NEW g \in Groups, NEW c \in Cidrs, AddCidr(r, g, c) \/ DeleteCidr(r, g, c)
          PROVE  UNCHANGED hosts
      BY <3>3 DEF AddCidr, DeleteCidr
    <3>4. ASSUME NEW g \in Groups, DeleteGroupBegins(r, g) PROVE UNCHANGED hosts
      BY <3>4 DEF DeleteGroupBegins, tables
    <3>5. CASE ListGroups(r) \/ UpdateRenamed(r)
      BY <3>5 DEF ListGroups, UpdateRenamed, Upserts
    <3> QED BY <1>2, <2>2, <3>1, <3>2, <3>3, <3>4, <3>5 DEF GroupStep
  <2>3. ASSUME NEW r \in Requests, SuggestionStep(r) PROVE DOMAIN hosts' = DOMAIN hosts
    BY <2>3 DEF SuggestionStep, SuggestionBegins, SuggestionChecksGroup, AcceptMoves,
                DismissInserts, tables
  <2> QED BY <1>2, <2>1, <2>2, <2>3 DEF Next, vars, tables
<1>3. IInv /\ [Next]_vars => [A]_vars
  BY <1>1, <1>2
<1> QED BY <1>3, Invariant, PTL DEF Spec, LeaversStay

\* All at once, as the run checks them: groups are paused, resumed and deleted
\* as a whole and only on request, for any number of requests in flight.
THEOREM GroupsAsAsked == Spec => GroupsChangeAsAsked
BY NoHostStays, PausesKept, LeaversAreKept DEF GroupsChangeAsAsked

-----------------------------------------------------------------------------
(* The cap.  The requests between their count and their insert are what    *)
(* can still be added.                                                     *)

Creating == {r \in Requests : Is(r, "create")}

LEMMA LeavesCreating ==
    ASSUME IInv, NEW r \in Requests,
           \/ Return(r)
           \/ \E op \in {"deleteGroup", "renamed", "accept", "acceptInto",
                         "dismiss", "dismissInto"} : \E h, g, e, S :
                 Work(r, op, h, g, e, S)
    PROVE  Creating' = Creating \ {r}
BY DEF Creating, Is, Return, Work, Idle, IInv, Typed

LEMMA EntersCreating ==
    ASSUME IInv, NEW r \in Requests, NEW g, Work(r, "create", 0, g, TRUE, {})
    PROVE  Creating' = Creating \cup {r}
BY DEF Creating, Is, Work, IInv, Typed

\* What a step does to the hosts and to the requests that may add one.
LEMMA StepsOnHosts ==
    ASSUME IInv, [Next]_vars
    PROVE  \/ DOMAIN hosts' \subseteq DOMAIN hosts /\ Creating' \subseteq Creating
           \/ /\ BelowCap /\ UNCHANGED hosts
              /\ \E r \in Requests : Creating' = Creating \cup {r}
           \/ \E r \in Creating : /\ DOMAIN hosts' = DOMAIN hosts \cup {NextId}
                                  /\ Creating' = Creating \ {r}
<1> DEFINE Goal ==
       \/ DOMAIN hosts' \subseteq DOMAIN hosts /\ Creating' \subseteq Creating
       \/ /\ BelowCap /\ UNCHANGED hosts
          /\ \E r \in Requests : Creating' = Creating \cup {r}
       \/ \E r \in Creating : /\ DOMAIN hosts' = DOMAIN hosts \cup {NextId}
                              /\ Creating' = Creating \ {r}
<1>1. ASSUME NEW r \in Requests, HostStep(r) PROVE Goal
  <2>1. ASSUME NEW g \in Groups, CreateBegins(r, g) PROVE Goal
    BY <2>1, EntersCreating DEF CreateBegins, tables
  <2>2. CASE CreateInserts(r)
    <3>1. r \in Creating /\ Creating' = Creating \ {r}
      BY <2>2, LeavesCreating DEF CreateInserts, Creating
    <3> QED BY <2>2, <3>1 DEF CreateInserts
  <2>3. ASSUME NEW h \in Ids, DeleteHost(r, h) PROVE Goal
    BY <2>3 DEF DeleteHost, Delete, Creating, Is
  <2>4. ASSUME NEW h \in Ids, NEW g \in Groups, MoveHost(r, h, g) PROVE Goal
    BY <2>4 DEF MoveHost, Creating, Is
  <2> QED BY <1>1, <2>1, <2>2, <2>3, <2>4 DEF HostStep
<1>2. ASSUME NEW r \in Requests, GroupStep(r) PROVE Goal
  <2>1. CASE ListGroups(r)
    BY <2>1 DEF ListGroups, Creating, Is
  <2>2. ASSUME NEW g \in Groups, DeleteGroupBegins(r, g) PROVE Goal
    BY <2>2, LeavesCreating DEF DeleteGroupBegins, tables
  <2>3. ASSUME NEW g \in Groups, NEW e \in BOOLEAN, UpdateGroup(r, g, e)
        PROVE  Goal
    BY <2>3 DEF UpdateGroup, Upserts, Creating, Is
  <2>4. CASE UpdateRenamed(r)
    BY <2>4, LeavesCreating DEF UpdateRenamed, Upserts
  <2>5. ASSUME NEW g \in Groups, NEW c \in Cidrs, AddCidr(r, g, c) PROVE Goal
    BY <2>5 DEF AddCidr, Creating, Is
  <2>6. ASSUME NEW g \in Groups, NEW c \in Cidrs, DeleteCidr(r, g, c)
        PROVE  Goal
    BY <2>6 DEF DeleteCidr, Creating, Is
  <2>7. ASSUME NEW g \in Groups, NEW new \in Groups, NEW e \in BOOLEAN,
               RenameGroup(r, g, new, e)
        PROVE  Goal
    BY <2>7, LeavesCreating DEF RenameGroup
  <2>8. CASE DeleteGroupCommits(r)
    BY <2>8, LeavesCreating DEF DeleteGroupCommits, Delete
  <2> QED BY <1>2, <2>1, <2>2, <2>3, <2>4, <2>5, <2>6, <2>7, <2>8 DEF GroupStep
<1>3. ASSUME NEW r \in Requests, SuggestionStep(r) PROVE Goal
  <2>1. DOMAIN hosts' = DOMAIN hosts
    BY <1>3 DEF SuggestionStep, SuggestionBegins, SuggestionChecksGroup,
                AcceptMoves, DismissInserts, tables
  <2>2. Creating' = Creating \ {r}
    <3>1. ASSUME NEW op \in {"accept", "dismiss"}, NEW h \in Ids,
                 NEW g \in Groups, SuggestionBegins(r, op, h, g)
          PROVE  Creating' = Creating \ {r}
      <4>1. \E x \in {"deleteGroup", "renamed", "accept", "acceptInto",
                      "dismiss", "dismissInto"} : Work(r, x, h, g, TRUE, {})
        BY <3>1 DEF SuggestionBegins
      <4> QED BY <4>1, LeavesCreating
    <3>2. CASE SuggestionChecksGroup(r)
      BY <3>2, LeavesCreating DEF SuggestionChecksGroup
    <3>3. CASE AcceptMoves(r) \/ DismissInserts(r)
      BY <3>3, LeavesCreating DEF AcceptMoves, DismissInserts
    <3> QED BY <1>3, <3>1, <3>2, <3>3 DEF SuggestionStep
  <2> QED BY <2>1, <2>2
<1>4. CASE UNCHANGED vars
  BY <1>4 DEF vars, tables, Creating, Is
<1> QED BY <1>1, <1>2, <1>3, <1>4 DEF Next

LEMMA IdSetsFinite ==
    ASSUME NEW n \in 0..MaxId, NEW H \in SUBSET (1..n)
    PROVE  IsFiniteSet(H) /\ Cardinality(H) \in Nat
<1>1. n \in Int
  BY BoundsAssumption
<1>2. IsFiniteSet(1..n)
  BY <1>1, FS_Interval
<1> QED BY <1>2, FS_Subset, FS_CardinalityType

LEMMA RequestSetsFinite ==
    ASSUME NEW S \in SUBSET Requests
    PROVE  /\ IsFiniteSet(S) /\ Cardinality(S) \in Nat
           /\ Cardinality(S) <= Cardinality(Requests)
BY RequestsAssumption, FS_Subset, FS_CardinalityType

LEMMA CapStep == IInv /\ CapBounded /\ IInv' /\ [Next]_vars => CapBounded'
<1> SUFFICES ASSUME IInv, CapBounded, IInv', [Next]_vars PROVE CapBounded'
  OBVIOUS
<1> DEFINE C == Cardinality(DOMAIN hosts)
           D == Cardinality(Creating)
           R == Cardinality(Requests)
<1>0. IsFiniteSet(DOMAIN hosts) /\ IsFiniteSet(Creating)
  BY IdSetsFinite, RequestSetsFinite DEF IInv, Typed, Creating
<1>1. /\ C \in Nat /\ D \in Nat /\ C' \in Nat /\ D' \in Nat /\ HostCap \in Nat
  <2>1. C \in Nat /\ C' \in Nat
    BY IdSetsFinite DEF IInv, Typed
  <2>2. D \in Nat /\ D' \in Nat
    BY RequestSetsFinite DEF Creating
  <2> QED BY <2>1, <2>2, BoundsAssumption
<1>2. R \in Nat /\ D' <= R
  BY RequestsAssumption, FS_CardinalityType, RequestSetsFinite DEF Creating
<1>3. C + D < HostCap + R
  BY DEF CapBounded, Creating
<1>4. CASE DOMAIN hosts' \subseteq DOMAIN hosts /\ Creating' \subseteq Creating
  <2>1. C' <= C
    BY <1>0, <1>4, FS_Subset
  <2>2. D' <= D
    BY <1>0, <1>4, FS_Subset
  <2> QED BY <1>1, <1>2, <1>3, <2>1, <2>2 DEF CapBounded, Creating
<1>5. CASE BelowCap /\ UNCHANGED hosts
  BY <1>1, <1>2, <1>5 DEF CapBounded, Creating, BelowCap
<1>6. ASSUME NEW r \in Creating, DOMAIN hosts' = DOMAIN hosts \cup {NextId},
             Creating' = Creating \ {r}
      PROVE  CapBounded'
  <2>1. C' <= C + 1
    <3>1. Cardinality(DOMAIN hosts \cup {NextId})
             = IF NextId \in DOMAIN hosts THEN C ELSE C + 1
      BY <1>0, FS_AddElement
    <3> QED BY <1>1, <1>6, <3>1
  <2>2. D' = D - 1
    BY <1>0, <1>6, FS_RemoveElement
  <2> QED BY <1>1, <1>2, <1>3, <2>1, <2>2 DEF CapBounded, Creating
<1> QED BY <1>4, <1>5, <1>6, StepsOnHosts

\* Requests that passed the check of the cap together can exceed it, but only
\* by one host each, and the last of them by none.
THEOREM CapHolds == Spec => []CapBounded
<1>1. Init => CapBounded
  <2> SUFFICES ASSUME Init PROVE CapBounded
    OBVIOUS
  <2>1. DOMAIN hosts = {} /\ Creating = {}
    BY DEF Init, Creating, Is, Idle
  <2>2. Cardinality(Requests) \in Nat /\ Cardinality(Requests) # 0
    BY RequestsAssumption, FS_CardinalityType, FS_EmptySet
  <2>3. Cardinality(DOMAIN hosts) = 0 /\ Cardinality(Creating) = 0
    BY <2>1, FS_EmptySet
  <2> QED BY <2>2, <2>3, BoundsAssumption DEF CapBounded, Creating
<1> QED BY <1>1, CapStep, Invariant, PTL DEF Spec
=============================================================================
