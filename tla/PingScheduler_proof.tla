------------------------ MODULE PingScheduler_proof ------------------------
(***************************************************************************)
(* Machine-checked proofs about PingScheduler, for every set of hosts,     *)
(* every threshold, every number of slots, and with or without a           *)
(* broadcaster.                                                            *)
(***************************************************************************)
EXTENDS PingScheduler, FiniteSetTheorems, TLAPS

Pinging == {t \in Tasks : pc[t] = "pinging"}

LEMMA TasksFinite == IsFiniteSet(Tasks)
  BY FiniteAssumption, FS_Product DEF Tasks

\* A task is the pair of its host and its generation.
LEMMA TaskParts ==
  ASSUME NEW t \in Tasks
  PROVE  t[1] \in Hosts /\ t[2] \in Gens /\ t = <<t[1], t[2]>>
  BY DEF Tasks

\* The generation _spawn takes belongs to no task that still exists.
LEMMA NewGenIsFree ==
  ASSUME NEW h \in Hosts, FreeGens(h) # {}
  PROVE  NewGen(h) \in Gens /\ pc[<<h, NewGen(h)>>] = "none"
  BY DEF FreeGens, NewGen

\* Spawning starts loops at their jitter sleep and touches no existing task.
LEMMA SpawnTouchesFreeOnly ==
  ASSUME TypeOK, NEW S \in SUBSET Hosts, NEW D \in SUBSET Hosts, Spawn(S, D)
  PROVE  /\ tasks' \in [Hosts -> Gens \cup {None}]
         /\ pc' \in [Tasks -> PCs]
         /\ \A t \in Tasks :
               \/ /\ pc[t] = "none" /\ pc'[t] = "jitter"
                  /\ t[1] \in S /\ tasks'[t[1]] = t[2]
               \/ pc'[t] = pc[t]
         /\ \A h \in Hosts \ (S \cup D) : tasks'[h] = tasks[h]
         /\ \A h \in S : /\ <<h, tasks'[h]>> \in Tasks
                          /\ pc[<<h, tasks'[h]>>] = "none"
                          /\ pc'[<<h, tasks'[h]>>] = "jitter"
         /\ \A h \in D \ S : tasks'[h] = None
<1>1. ASSUME NEW h \in S PROVE NewGen(h) \in Gens /\ pc[<<h, NewGen(h)>>] = "none"
  <2>1. FreeGens(h) # {}
    BY DEF Spawn
  <2> QED BY <2>1, NewGenIsFree
<1>2. tasks' = [h \in Hosts |-> IF h \in S THEN NewGen(h)
                                ELSE IF h \in D THEN None ELSE tasks[h]]
  BY DEF Spawn
<1>3. pc' = [t \in Tasks |->
                IF t[1] \in S /\ t[2] = NewGen(t[1]) THEN "jitter" ELSE pc[t]]
  BY DEF Spawn
<1>4. tasks' \in [Hosts -> Gens \cup {None}]
  BY <1>1, <1>2 DEF TypeOK
<1>5. pc' \in [Tasks -> PCs]
  BY <1>3 DEF TypeOK, PCs
<1>6. ASSUME NEW t \in Tasks
      PROVE  \/ /\ pc[t] = "none" /\ pc'[t] = "jitter"
                /\ t[1] \in S /\ tasks'[t[1]] = t[2]
             \/ pc'[t] = pc[t]
  <2>1. t[1] \in Hosts /\ t = <<t[1], t[2]>>
    BY TaskParts
  <2>2. CASE t[1] \in S /\ t[2] = NewGen(t[1])
    <3>1. pc'[t] = "jitter" BY <1>3, <2>2
    <3>2. tasks'[t[1]] = t[2] BY <1>2, <2>1, <2>2
    <3>3. pc[t] = "none" BY <1>1, <2>1, <2>2
    <3> QED BY <2>2, <3>1, <3>2, <3>3
  <2>3. CASE ~(t[1] \in S /\ t[2] = NewGen(t[1]))
    BY <1>3, <2>3
  <2> QED BY <2>2, <2>3
<1>7. /\ \A h \in Hosts \ (S \cup D) : tasks'[h] = tasks[h]
      /\ \A h \in D \ S : tasks'[h] = None
  BY <1>2
<1>8. ASSUME NEW h \in S
      PROVE  /\ <<h, tasks'[h]>> \in Tasks
             /\ pc[<<h, tasks'[h]>>] = "none" /\ pc'[<<h, tasks'[h]>>] = "jitter"
  <2>1. tasks'[h] = NewGen(h) /\ NewGen(h) \in Gens
    BY <1>1, <1>2
  <2>2. <<h, NewGen(h)>> \in Tasks
    BY <2>1 DEF Tasks
  <2> QED BY <1>1, <1>3, <2>1, <2>2
<1> QED BY <1>4, <1>5, <1>6, <1>7, <1>8

LEMMA PingingFinite == IsFiniteSet(Pinging) /\ Cardinality(Pinging) \in Nat
  BY TasksFinite, FS_Subset, FS_CardinalityType DEF Pinging

\* A step of a task outside `async with self.semaphore` that stays outside.
LEMMA StaysOutside ==
  ASSUME TypeOK, NEW t \in Tasks, NEW p \in PCs, pc' = [pc EXCEPT ![t] = p],
         pc[t] # "pinging", p # "pinging"
  PROVE  Pinging' = Pinging
  BY DEF Pinging, TypeOK

\* A task that enters it.
LEMMA Enters ==
  ASSUME TypeOK, NEW t \in Tasks, pc' = [pc EXCEPT ![t] = "pinging"],
         pc[t] # "pinging"
  PROVE  Cardinality(Pinging') = Cardinality(Pinging) + 1
<1>1. Pinging' = Pinging \cup {t} /\ t \notin Pinging
  BY DEF Pinging, TypeOK
<1> QED BY <1>1, PingingFinite, FS_AddElement

\* A task that leaves it: there is room for the slot it gives back.
LEMMA Leaves ==
  ASSUME TypeOK, SlotsConserved, NEW t \in Tasks, NEW p \in PCs,
         pc' = [pc EXCEPT ![t] = p], pc[t] = "pinging", p # "pinging"
  PROVE  /\ Cardinality(Pinging') = Cardinality(Pinging) - 1
         /\ slots + 1 \in 0..MaxConcurrent
<1>1. Pinging' = Pinging \ {t} /\ t \in Pinging
  BY DEF Pinging, TypeOK
<1>2. Cardinality(Pinging') = Cardinality(Pinging) - 1
  BY <1>1, PingingFinite, FS_RemoveElement
<1>3. Cardinality(Pinging) # 0
  BY <1>1, PingingFinite, FS_EmptySet
<1>4. slots + Cardinality(Pinging) = MaxConcurrent
  BY DEF SlotsConserved, Pinging
<1>5. slots + 1 \in 0..MaxConcurrent
  BY <1>3, <1>4, PingingFinite, MaxConcurrentAssumption DEF TypeOK
<1> QED BY <1>2, <1>5

\* Type correctness and slot conservation hold together: that a released slot
\* stays within the semaphore's capacity follows from conservation.
TypeAndSlots == TypeOK /\ SlotsConserved

LEMMA InitTypeAndSlots == Init => TypeAndSlots
<1> SUFFICES ASSUME Init PROVE TypeAndSlots
  OBVIOUS
<1> USE ThresholdAssumption, MaxConcurrentAssumption, MaxOpsAssumption
<1>1. TypeOK
  <2>1. streak \in [Hosts -> 0..(Threshold + 1)] /\ balance \in [Hosts -> Int]
    BY DEF Init
  <2>2. trail \in [Hosts -> 0..(Threshold + 1)] /\ inOutage \in [Hosts -> BOOLEAN]
    BY DEF Init
  <2>3. tasks \in [Hosts -> Gens \cup {None}] /\ pc \in [Tasks -> PCs]
    BY DEF Init, PCs
  <2>4. slots \in 0..MaxConcurrent /\ ops \in 0..MaxOps
    BY DEF Init
  <2> QED BY <2>1, <2>2, <2>3, <2>4 DEF Init, TypeOK
<1>2. {t \in Tasks : pc[t] = "pinging"} = {}
  BY DEF Init
<1>3. SlotsConserved
  BY <1>2, FS_EmptySet DEF Init, SlotsConserved
<1> QED BY <1>1, <1>3 DEF TypeAndSlots

\* The steps of one loop preserve both.
LEMMA LoopStepTypeAndSlots ==
  ASSUME TypeAndSlots, NEW t \in Tasks, LoopStep(t)
  PROVE  TypeAndSlots'
<1> USE ThresholdAssumption, MaxConcurrentAssumption, HasBroadcasterAssumption,
        MaxOpsAssumption, TaskParts, PingingFinite
<1> USE DEF TypeAndSlots, At, Goto, LoopTop, AfterJudging, OneMore
<1>0. SlotsConserved <=> slots + Cardinality(Pinging) = MaxConcurrent
  BY DEF SlotsConserved, Pinging
<1>00. SlotsConserved' <=> slots' + Cardinality(Pinging') = MaxConcurrent
  BY DEF SlotsConserved, Pinging
<1>1. CASE Begin(t)
  <2>1. TypeOK'
    BY <1>1 DEF Begin, TypeOK, ctlVars, PCs, KnownAtBegin
  <2>2. Pinging' = Pinging
    BY <1>1, StaysOutside DEF Begin, PCs
  <2> QED BY <1>0, <1>00, <1>1, <2>1, <2>2 DEF Begin
<1>2. CASE Acquire(t)
  <2>1. TypeOK'
    BY <1>2 DEF Acquire, TypeOK, ctlVars, PCs
  <2>2. Cardinality(Pinging') = Cardinality(Pinging) + 1
    BY <1>2, Enters DEF Acquire
  <2> QED BY <1>0, <1>00, <1>2, <2>1, <2>2 DEF Acquire, TypeOK
<1>3. CASE PingReturns(t)
  <2>1. PICK p \in PCs : p # "pinging" /\ pc' = [pc EXCEPT ![t] = p]
    BY <1>3 DEF PingReturns, SampleUp, OutageEnds, SampleDown, OutageStarts,
                IterationFails, PCs
  <2>2. pc[t] = "pinging" /\ slots' = slots + 1
    BY <1>3 DEF PingReturns, SampleUp, OutageEnds, SampleDown, OutageStarts,
                IterationFails, Recorded
  <2>3. /\ Cardinality(Pinging') = Cardinality(Pinging) - 1
        /\ slots' \in 0..MaxConcurrent
    BY <2>1, <2>2, Leaves
  <2>4. pc' \in [Tasks -> PCs]
    BY <2>1 DEF TypeOK
  <2>5. SampleUp(t) => TypeOK'
    BY <2>3, <2>4 DEF SampleUp, Recorded, TypeOK, ctlVars
  <2>6. ASSUME OutageEnds(t) PROVE TypeOK'
    <3>1. /\ streak' \in [Hosts -> 0..(Threshold + 1)]
          /\ trail' \in [Hosts -> 0..(Threshold + 1)]
          /\ balance' \in [Hosts -> Int]
      BY <2>6 DEF OutageEnds, Recorded, TypeOK
    <3>2. inOutage' \in [Hosts -> BOOLEAN]
      BY <2>6 DEF OutageEnds, TypeOK
    <3> QED BY <2>3, <2>4, <2>6, <3>1, <3>2
            DEF OutageEnds, Recorded, TypeOK, ctlVars
  <2>7. SampleDown(t) => TypeOK'
    BY <2>3, <2>4 DEF SampleDown, Recorded, TypeOK, ctlVars
  <2>8. ASSUME OutageStarts(t) PROVE TypeOK'
    <3>1. /\ streak' \in [Hosts -> 0..(Threshold + 1)]
          /\ trail' \in [Hosts -> 0..(Threshold + 1)]
          /\ balance' \in [Hosts -> Int]
      BY <2>8 DEF OutageStarts, Recorded, TypeOK
    <3>2. inOutage' \in [Hosts -> BOOLEAN]
      BY <2>8 DEF OutageStarts, TypeOK
    <3> QED BY <2>3, <2>4, <2>8, <3>1, <3>2
            DEF OutageStarts, Recorded, TypeOK, ctlVars
  <2>9. IterationFails(t) => TypeOK'
    BY <2>3, <2>4 DEF IterationFails, Recorded, TypeOK, ctlVars
  <2>10. TypeOK'
    BY <1>3, <2>5, <2>6, <2>7, <2>8, <2>9 DEF PingReturns
  <2> QED BY <1>0, <1>00, <2>2, <2>3, <2>10 DEF TypeOK
<1>4. CASE StartAnnounced(t)
  <2>1. TypeOK'
    BY <1>4 DEF StartAnnounced, TypeOK, ctlVars, PCs
  <2>2. Pinging' = Pinging
    BY <1>4, StaysOutside DEF StartAnnounced, PCs
  <2> QED BY <1>0, <1>00, <1>4, <2>1, <2>2 DEF StartAnnounced
<1>5. CASE EndAnnounced(t)
  <2>1. TypeOK'
    BY <1>5 DEF EndAnnounced, TypeOK, ctlVars, PCs
  <2>2. Pinging' = Pinging
    BY <1>5, StaysOutside DEF EndAnnounced, PCs
  <2> QED BY <1>0, <1>00, <1>5, <2>1, <2>2 DEF EndAnnounced
<1>6. CASE SampleAnnounced(t)
  <2>1. TypeOK'
    BY <1>6 DEF SampleAnnounced, TypeOK, ctlVars, loopVars, PCs
  <2>2. Pinging' = Pinging
    BY <1>6, StaysOutside DEF SampleAnnounced, PCs
  <2> QED BY <1>0, <1>00, <1>6, <2>1, <2>2 DEF SampleAnnounced, loopVars
<1>7. CASE SleepOver(t)
  <2>1. TypeOK'
    BY <1>7 DEF SleepOver, TypeOK, ctlVars, loopVars, PCs
  <2>2. Pinging' = Pinging
    BY <1>7, StaysOutside DEF SleepOver, PCs
  <2> QED BY <1>0, <1>00, <1>7, <2>1, <2>2 DEF SleepOver, loopVars
<1>8. CASE Unwind(t)
  <2>1. pc' = [pc EXCEPT ![t] = "none"] /\ "none" \in PCs
    BY <1>8 DEF Unwind, Unwinds, PCs
  <2>2. CASE pc[t] = "pinging"
    <3>1. slots' = slots + 1
      BY <1>8, <2>2 DEF Unwind, Unwinds, SlotsAfterUnwind
    <3>2. /\ Cardinality(Pinging') = Cardinality(Pinging) - 1
          /\ slots' \in 0..MaxConcurrent
      BY <2>1, <2>2, <3>1, Leaves
    <3>3. TypeOK'
      BY <1>8, <2>1, <3>2 DEF Unwind, Unwinds, TypeOK, ctlVars
    <3> QED BY <1>0, <1>00, <3>1, <3>2, <3>3 DEF TypeOK
  <2>3. CASE pc[t] # "pinging"
    <3>1. slots' = slots
      BY <1>8, <2>3 DEF Unwind, Unwinds, SlotsAfterUnwind
    <3>2. Pinging' = Pinging
      BY <2>1, <2>3, StaysOutside
    <3>3. TypeOK'
      BY <1>8, <2>1, <3>1 DEF Unwind, Unwinds, TypeOK, ctlVars
    <3> QED BY <1>0, <1>00, <3>1, <3>2, <3>3
  <2> QED BY <2>2, <2>3
<1> QED BY <1>1, <1>2, <1>3, <1>4, <1>5, <1>6, <1>7, <1>8 DEF LoopStep

\* So do the calls, which never touch a slot or a pinging task.
LEMMA CallTypeAndSlots ==
  ASSUME TypeAndSlots,
         Control \/ (\E h \in Hosts : DeleteHost(h))
             \/ UNCHANGED vars
  PROVE  TypeAndSlots'
<1> USE MaxOpsAssumption DEF TypeAndSlots, Call
<1>0. slots' = slots /\ (Pinging' = Pinging => SlotsConserved')
  BY DEF SlotsConserved, Pinging, Control, StartBegin, StartEnd,
         StartFails, StopBegin, StopEnd, Reconcile, DeleteHost, loopVars, vars
<1>1. ASSUME NEW S \in SUBSET Hosts, NEW D \in SUBSET Hosts, Spawn(S, D)
      PROVE  /\ pc' \in [Tasks -> PCs]
             /\ tasks' \in [Hosts -> Gens \cup {None}]
             /\ Pinging' = Pinging
  <2>1. \A t \in Tasks : pc'[t] = pc[t] \/ (pc[t] = "none" /\ pc'[t] = "jitter")
    BY <1>1, SpawnTouchesFreeOnly
  <2>2. Pinging' = Pinging
    BY <2>1 DEF Pinging
  <2> QED BY <1>1, <2>2, SpawnTouchesFreeOnly
<1>2. ASSUME NEW S \in SUBSET Hosts, Cancel(S)
      PROVE  cancelled' \in SUBSET Tasks /\ torn' \in SUBSET Hosts
  BY <1>2 DEF Cancel, CurrentOf, TypeOK
<1>4. CASE StartBegin \/ StartFails
  <2>1. TypeOK'
    <3>1. CASE StartBegin
      BY <3>1 DEF StartBegin, TypeOK, loopVars
    <3>2. CASE StartFails
      BY <3>2 DEF StartFails, TypeOK, loopVars
    <3> QED BY <1>4, <3>1, <3>2
  <2> QED BY <1>0, <1>4, <2>1 DEF StartBegin, StartFails, Pinging
<1>5. ASSUME NEW wanted \in SUBSET Hosts, StartEnd(wanted) PROVE TypeAndSlots'
  <2>1. Spawn(StartSpawns(wanted), {})
    BY <1>5 DEF StartEnd
  <2>2. StartSpawns(wanted) \in SUBSET Hosts
    BY DEF StartSpawns
  <2>3. /\ pc' \in [Tasks -> PCs]
        /\ tasks' \in [Hosts -> Gens \cup {None}]
        /\ Pinging' = Pinging
    BY <1>1, <2>1, <2>2
  <2>4. TypeOK'
    BY <1>5, <2>3 DEF StartEnd, TypeOK, loopVars
  <2> QED BY <1>0, <2>3, <2>4
<1>6. CASE StopBegin
  <2>1. TypeOK'
    <3>1. cancelled' \in SUBSET Tasks /\ torn' \in SUBSET Hosts
      <4>1. Cancel(Hosts) BY <1>6 DEF StopBegin
      <4> QED BY <4>1 DEF Cancel, CurrentOf, TypeOK
    <3>2. /\ ctl' = "stopping" /\ started' = FALSE /\ stopFlag' = TRUE
          /\ UNCHANGED <<hosts, tasks, pc, known, loopVars>>
      BY <1>6 DEF StopBegin
    <3>3. ops' \in 0..MaxOps
      BY <1>6 DEF StopBegin, TypeOK
    <3> QED BY <3>1, <3>2, <3>3 DEF TypeOK, loopVars
  <2> QED BY <1>0, <1>6, <2>1 DEF StopBegin, Pinging
<1>7. CASE StopEnd
  <2>1. TypeOK'
    BY <1>7 DEF StopEnd, FlagAfterStop, TypeOK, loopVars
  <2> QED BY <1>0, <1>7, <2>1 DEF StopEnd, Pinging
<1>8. ASSUME NEW desired \in SUBSET Hosts, Reconcile(desired)
      PROVE  TypeAndSlots'
  <2>1. PICK list \in SUBSET Hosts :
          \E changed \in SUBSET (desired \cap Tasked) :
             /\ Spawn((desired \ Tasked) \cup changed,
                      (Tasked \ desired) \cup changed)
             /\ Dropped((Tasked \ desired) \cup changed)
             /\ known' = Kept(list, desired)
    BY <1>8 DEF Reconcile, ReconcileSpawns
  <2>a. PICK changed \in SUBSET (desired \cap Tasked) :
          /\ Spawn((desired \ Tasked) \cup changed,
                   (Tasked \ desired) \cup changed)
          /\ Dropped((Tasked \ desired) \cup changed)
          /\ known' = Kept(list, desired)
    BY <2>1
  <2>2. /\ (desired \ Tasked) \cup changed \in SUBSET Hosts
        /\ (Tasked \ desired) \cup changed \in SUBSET Hosts
    BY DEF Tasked
  <2>3. /\ pc' \in [Tasks -> PCs]
        /\ tasks' \in [Hosts -> Gens \cup {None}]
        /\ Pinging' = Pinging
    BY <1>1, <2>a, <2>2
  <2>4. cancelled' \in SUBSET Tasks /\ torn' \in SUBSET Hosts
    BY <1>2, <2>a, <2>2 DEF Dropped
  <2>5. known' \in SUBSET Hosts
    BY <2>a DEF Kept, TypeOK
  <2>6. TypeOK'
    BY <1>8, <2>3, <2>4, <2>5 DEF Reconcile, TypeOK, loopVars
  <2> QED BY <1>0, <2>3, <2>6
<1>9. CASE \E h \in Hosts : DeleteHost(h)
  <2>1. TypeOK'
    BY <1>9 DEF DeleteHost, TypeOK, loopVars
  <2> QED BY <1>0, <1>9, <2>1 DEF DeleteHost, Pinging
<1>10. CASE UNCHANGED vars
  <2>1. TypeOK'
    BY <1>10 DEF TypeOK, vars, ctlVars, loopVars
  <2> QED BY <1>0, <1>10, <2>1 DEF Pinging, vars
<1> QED BY <1>4, <1>5, <1>6, <1>7, <1>8, <1>9, <1>10 DEF Control

LEMMA StepTypeAndSlots == TypeAndSlots /\ [Next]_vars => TypeAndSlots'
<1> SUFFICES ASSUME TypeAndSlots, [Next]_vars PROVE TypeAndSlots'
  OBVIOUS
<1>1. CASE \E t \in Tasks : LoopStep(t)
  BY <1>1, LoopStepTypeAndSlots
<1>2. CASE Control \/ (\E h \in Hosts : DeleteHost(h))
             \/ UNCHANGED vars
  BY <1>2, CallTypeAndSlots
<1> QED BY <1>1, <1>2 DEF Next

\* Every variable keeps its type.
THEOREM TypeCorrect == Spec => []TypeOK
<1>1. Spec => []TypeAndSlots
  BY InitTypeAndSlots, StepTypeAndSlots, PTL DEF Spec
<1>2. TypeAndSlots => TypeOK
  BY DEF TypeAndSlots
<1> QED BY <1>1, <1>2, PTL

\* The semaphore never leaks or gains a slot, whichever loops are cancelled at
\* whichever await.
THEOREM SlotsAreConserved == Spec => []SlotsConserved
<1>1. Spec => []TypeAndSlots
  BY InitTypeAndSlots, StepTypeAndSlots, PTL DEF Spec
<1>2. TypeAndSlots => SlotsConserved
  BY DEF TypeAndSlots
<1> QED BY <1>1, <1>2, PTL

-----------------------------------------------------------------------------
(* One loop per host.                                                      *)

\* A loop past its jitter sleep has an outage state to work on.
StateHeld ==
    \A t \in Tasks :
        Running(t) /\ pc[t] # "jitter" /\ t[1] \in hosts => t[1] \in known

\* No loop outlives `_started`, also while stop() is still gathering.
QuietUnlessStarted == ~started => \A t \in Tasks : ~Running(t)

CtlMatchesStarted ==
    /\ ctl \in {"starting", "failed"} => started
    /\ ctl = "stopping" => ~started

\* The stop event is set just while stop() gathers, so a loop that goes on
\* finds it clear; and only a task that exists is marked as cancelled, so a
\* spawned one is not.
FlagMatchesCtl == stopFlag <=> ctl = "stopping"
\* When stop() has returned nothing is left that a start() would skip.
StoppedIsEmpty == ~started /\ ctl # "stopping" => Tasked = {}

CancelledExist == \A t \in cancelled : pc[t] # "none"

LoopInv == TypeOK /\ OneLoopPerHost /\ StateHeld /\ QuietUnlessStarted
              /\ CtlMatchesStarted /\ FlagMatchesCtl /\ CancelledExist
              /\ StoppedIsEmpty /\ NoDeadTask

LEMMA InitLoopInv == Init /\ TypeOK => LoopInv
  BY DEF Init, LoopInv, OneLoopPerHost, StateHeld, QuietUnlessStarted,
         CtlMatchesStarted, FlagMatchesCtl, CancelledExist, StoppedIsEmpty,
         NoDeadTask, Tasked, Running

\* A step of loop t moves only t, and only forward from a running state; while
\* the stop event is clear it goes on.
LEMMA LoopStepMoves ==
  ASSUME TypeOK, NEW t \in Tasks, LoopStep(t)
  PROVE  /\ UNCHANGED ctlVars
         /\ \A u \in Tasks \ {t} : pc'[u] = pc[u]
         /\ \A u \in Tasks : Running(u)' => Running(u)
         /\ ~stopFlag => \A u \in Tasks : Running(u) => Running(u)'
         /\ \A u \in cancelled' : u \in cancelled /\ pc'[u] = pc[u]
         /\ known \subseteq known'
         /\ Running(t)' => t[1] \in known' \/ (Running(t) /\ pc[t] # "jitter")
<1> USE DEF At, Goto, Running, ctlVars, TypeOK, LoopTop, AfterJudging
<1>1. CASE Begin(t)
  BY <1>1, TaskParts DEF Begin
<1>2. CASE Acquire(t)
  BY <1>2 DEF Acquire
<1>3. CASE PingReturns(t)
  <2>1. pc[t] = "pinging" /\ t \notin cancelled /\ UNCHANGED <<ctlVars, cancelled, known>>
    BY <1>3 DEF PingReturns, SampleUp, OutageEnds, SampleDown, OutageStarts,
                IterationFails, Recorded
  <2>2. PICK p \in PCs \ {"none"} : pc' = [pc EXCEPT ![t] = p]
    BY <1>3 DEF PingReturns, SampleUp, OutageEnds, SampleDown, OutageStarts,
                IterationFails, PCs
  <2> QED BY <2>1, <2>2
<1>4. CASE StartAnnounced(t)
  BY <1>4 DEF StartAnnounced
<1>5. CASE EndAnnounced(t)
  BY <1>5 DEF EndAnnounced
<1>6. CASE SampleAnnounced(t)
  BY <1>6 DEF SampleAnnounced
<1>7. CASE SleepOver(t)
  BY <1>7 DEF SleepOver
<1>8. CASE Unwind(t)
  BY <1>8 DEF Unwind, Unwinds
<1> QED BY <1>1, <1>2, <1>3, <1>4, <1>5, <1>6, <1>7, <1>8 DEF LoopStep

\* A host with a loop that goes on, told by the task of that loop.
LiveByTask == Live = {h \in Hosts : \E t \in Tasks : t[1] = h /\ Running(t)}

LEMMA LiveIs == LiveByTask
<1>1. ASSUME NEW h \in Hosts, NEW g \in Gens, Running(<<h, g>>)
      PROVE  \E t \in Tasks : t[1] = h /\ Running(t)
  <2>1. <<h, g>> \in Tasks
    BY DEF Tasks
  <2> QED BY <1>1, <2>1
<1>2. ASSUME NEW t \in Tasks, Running(t)
      PROVE  \E g \in Gens : Running(<<t[1], g>>)
  <2>1. t[2] \in Gens /\ t = <<t[1], t[2]>>
    BY TaskParts
  <2> QED BY <1>2, <2>1
<1> QED BY <1>1, <1>2 DEF LiveByTask, Live

LEMMA LiveIsNext ==
  Live' = {h \in Hosts : \E t \in Tasks : t[1] = h /\ Running(t)'}
<1>1. LiveByTask'
  BY LiveIs, PTL
<1> QED BY <1>1 DEF LiveByTask

\* No loop starts or stops to go on by itself: before stop() the event is
\* clear, and from then on no loop goes on.
LEMMA LoopStepLive ==
  ASSUME LoopInv, NEW t \in Tasks, LoopStep(t)
  PROVE  Live' = Live
<1>1. \A u \in Tasks : Running(u)' <=> Running(u)
  <2>1. \A u \in Tasks : Running(u)' => Running(u)
    BY LoopStepMoves DEF LoopInv
  <2>2. CASE stopFlag
    BY <2>1, <2>2 DEF LoopInv, FlagMatchesCtl, CtlMatchesStarted,
                      QuietUnlessStarted
  <2>3. CASE ~stopFlag
    BY <2>1, <2>3, LoopStepMoves DEF LoopInv
  <2> QED BY <2>2, <2>3
<1> QED BY <1>1, LiveIs, LiveIsNext DEF LiveByTask

LEMMA LoopStepLoopInv ==
  ASSUME LoopInv, TypeOK', NEW t \in Tasks, LoopStep(t)
  PROVE  LoopInv'
<1> USE DEF LoopInv
<1>1. UNCHANGED <<hosts, ctl, started, stopFlag, tasks>>
  BY LoopStepMoves DEF ctlVars
<1>2. OneLoopPerHost'
  BY <1>1, LoopStepMoves DEF OneLoopPerHost
<1>3. QuietUnlessStarted' /\ CtlMatchesStarted'
  BY <1>1, LoopStepMoves DEF QuietUnlessStarted, CtlMatchesStarted
<1>4. ASSUME NEW u \in Tasks, Running(u)', pc'[u] # "jitter", u[1] \in hosts'
      PROVE  u[1] \in known'
  <2>1. CASE u = t
    BY <1>1, <1>4, <2>1, LoopStepMoves DEF StateHeld
  <2>2. CASE u # t
    BY <1>1, <1>4, <2>2, LoopStepMoves DEF StateHeld
  <2> QED BY <2>1, <2>2
<1>5. FlagMatchesCtl' /\ CancelledExist'
  BY <1>1, LoopStepMoves DEF FlagMatchesCtl, CancelledExist
<1>6. NoDeadTask' /\ StoppedIsEmpty'
  BY <1>1, LoopStepLive DEF NoDeadTask, StoppedIsEmpty, Tasked
<1> QED BY <1>2, <1>3, <1>4, <1>5, <1>6 DEF StateHeld

\* After Cancel(S) no task that was running before is running for a host of S.
LEMMA CancelStops ==
  ASSUME LoopInv, NEW S \in SUBSET Hosts, Cancel(S)
  PROVE  /\ cancelled \subseteq cancelled'
         /\ \A t \in Tasks : Running(t) /\ t[1] \in S => t \in cancelled'
         /\ \A t \in Tasks : Running(t) /\ t[1] \notin S => t \notin cancelled'
         /\ \A t \in Tasks : At(t, "startEvt") \/ At(t, "endEvt")
               => t \notin cancelled' \/ t[1] \in torn'
         /\ torn \subseteq torn'
<1>1. \A t \in Tasks : Running(t) => tasks[t[1]] = t[2] /\ pc[t] # "none"
  BY DEF LoopInv, OneLoopPerHost, Running
<1>2. \A t \in Tasks : t[1] \in Hosts
  BY TaskParts
<1> QED BY <1>1, <1>2 DEF Cancel, CurrentOf, Running, At

\* A reconcile drops the tasks of D and spawns one for each host of S, so that
\* just the desired hosts have one.
LEMMA ReconcileParts ==
  ASSUME TypeOK, NEW desired \in SUBSET Hosts, Reconcile(desired)
  PROVE  \E S \in SUBSET Hosts, D \in SUBSET Hosts :
            /\ Spawn(S, D) /\ Cancel(D)
            /\ S \cap Tasked \subseteq D /\ D \subseteq Tasked
            /\ (Tasked \ D) \cup S = desired
            /\ known \cap hosts \subseteq known' /\ known' \subseteq known
<1>1. PICK list \in SUBSET Hosts :
        \E changed \in SUBSET (desired \cap Tasked) :
           /\ hosts \subseteq list
           /\ Spawn((desired \ Tasked) \cup changed,
                    (Tasked \ desired) \cup changed)
           /\ Dropped((Tasked \ desired) \cup changed)
           /\ known' = Kept(list, desired)
  BY DEF Reconcile, ReconcileSpawns
<1>2. PICK changed \in SUBSET (desired \cap Tasked) :
           /\ hosts \subseteq list
           /\ Spawn((desired \ Tasked) \cup changed,
                    (Tasked \ desired) \cup changed)
           /\ Dropped((Tasked \ desired) \cup changed)
           /\ known' = Kept(list, desired)
  BY <1>1
<1> DEFINE S == (desired \ Tasked) \cup changed
           D == (Tasked \ desired) \cup changed
<1>3. /\ S \in SUBSET Hosts /\ D \in SUBSET Hosts
      /\ S \cap Tasked \subseteq D /\ D \subseteq Tasked
      /\ (Tasked \ D) \cup S = desired
  BY DEF Tasked
<1>4. known \cap hosts \subseteq known' /\ known' \subseteq known
  BY <1>2 DEF Kept
<1>5. Spawn(S, D) /\ Cancel(D)
  BY <1>2 DEF Dropped
<1> QED BY <1>3, <1>4, <1>5

\* start() does the same with nothing to drop.
LEMMA StartParts ==
  ASSUME TypeOK, NEW wanted \in SUBSET Hosts, StartEnd(wanted)
  PROVE  \E S \in SUBSET Hosts, D \in SUBSET Hosts :
            /\ Spawn(S, D) /\ Cancel(D)
            /\ S \cap Tasked \subseteq D /\ D \subseteq Tasked
            /\ (Tasked \ D) \cup S = Tasked \cup wanted
            /\ known' = known
<1> DEFINE S == wanted \ Tasked
           D == {}
<1>1. Spawn(S, D) /\ UNCHANGED <<cancelled, known, torn>>
  BY DEF StartEnd, StartSpawns
<1>2. CurrentOf(D) = {}
  BY DEF CurrentOf
<1>3. torn \cup {h \in Hosts : \E t \in {} :
                     t[1] = h /\ pc[t] \in {"startEvt", "endEvt"}} = torn
  OBVIOUS
<1>4. Cancel(D)
  BY <1>1, <1>2, <1>3 DEF Cancel
<1> QED BY <1>1, <1>4

\* Dropping the tasks of D and spawning those of S leaves _tasks and the loops
\* that go on in step: the spawned generations are free, hence not cancelled,
\* and the tasks that are kept stood for loops that go on.
LEMMA Respawn ==
  ASSUME LoopInv, started, NEW S \in SUBSET Hosts, NEW D \in SUBSET Hosts,
         Spawn(S, D), Cancel(D), S \cap Tasked \subseteq D, D \subseteq Tasked
  PROVE  /\ OneLoopPerHost' /\ CancelledExist'
         /\ Tasked' = (Tasked \ D) \cup S
         /\ Live' = (Tasked \ D) \cup S
<1> USE TaskParts, NoneAssumption DEF LoopInv
<1>1. /\ tasks' \in [Hosts -> Gens \cup {None}]
      /\ \A t \in Tasks :
            \/ /\ pc[t] = "none" /\ pc'[t] = "jitter"
               /\ t[1] \in S /\ tasks'[t[1]] = t[2]
            \/ pc'[t] = pc[t]
      /\ \A h \in Hosts \ (S \cup D) : tasks'[h] = tasks[h]
      /\ \A h \in S : /\ <<h, tasks'[h]>> \in Tasks
                       /\ pc[<<h, tasks'[h]>>] = "none"
                       /\ pc'[<<h, tasks'[h]>>] = "jitter"
      /\ \A h \in D \ S : tasks'[h] = None
  BY SpawnTouchesFreeOnly
<1>2. /\ cancelled \subseteq cancelled'
      /\ \A t \in Tasks : Running(t) /\ t[1] \in D => t \in cancelled'
      /\ \A t \in Tasks : Running(t) /\ t[1] \notin D => t \notin cancelled'
  BY CancelStops
<1>3. \A t \in cancelled' : t \in Tasks /\ pc[t] # "none"
  BY DEF Cancel, CurrentOf, CancelledExist, TypeOK
<1>4. CancelledExist'
  BY <1>1, <1>3 DEF CancelledExist
<1>5. OneLoopPerHost'
  <2>1. \A t \in Tasks : Running(t) /\ t[1] \in S => t[1] \in D
    BY DEF OneLoopPerHost, Tasked
  <2> QED BY <1>1, <1>2, <2>1 DEF OneLoopPerHost, Running
<1>6. Tasked' = (Tasked \ D) \cup S
  <2>1. \A h \in S : tasks'[h] # None
    BY <1>1 DEF Tasks
  <2> QED BY <1>1, <2>1 DEF Tasked
<1>7. Live' = {h \in Hosts : \E t \in Tasks : t[1] = h /\ Running(t)'}
  BY LiveIsNext
<1>8. ASSUME NEW h \in S PROVE h \in Live'
  <2>1. PICK t \in Tasks :
            t = <<h, tasks'[h]>> /\ pc[t] = "none" /\ pc'[t] = "jitter"
    BY <1>1
  <2>2. t[1] = h /\ Running(t)'
    BY <1>3, <2>1 DEF Running
  <2> QED BY <1>7, <2>2
<1>9. ASSUME NEW h \in Tasked \ D PROVE h \in Live'
  <2>1. PICK t \in Tasks : t[1] = h /\ Running(t)
    BY LiveIs DEF LiveByTask, NoDeadTask
  <2>2. t \notin cancelled' /\ pc'[t] = pc[t]
    BY <1>1, <1>2, <2>1 DEF Running
  <2>3. Running(t)'
    BY <2>1, <2>2 DEF Running
  <2> QED BY <1>7, <2>1, <2>3
<1>10. ASSUME NEW t \in Tasks, Running(t)' PROVE t[1] \in (Tasked \ D) \cup S
  <2>1. CASE pc[t] = "none"
    BY <1>1, <1>10, <2>1 DEF Running
  <2>2. CASE pc[t] # "none"
    <3>1. Running(t)
      BY <1>2, <1>10, <2>2 DEF Running
    <3>2. t[1] \in Tasked /\ t[1] \notin D
      BY <1>2, <1>10, <3>1 DEF OneLoopPerHost, Tasked, Running
    <3> QED BY <3>2
  <2> QED BY <2>1, <2>2
<1>11. Live' = (Tasked \ D) \cup S
  BY <1>7, <1>8, <1>9, <1>10
<1> QED BY <1>4, <1>5, <1>6, <1>11

LEMMA CallLoopInv ==
  ASSUME LoopInv, TypeOK',
         Control \/ (\E h \in Hosts : DeleteHost(h))
             \/ UNCHANGED vars
  PROVE  LoopInv'
<1> USE TaskParts, NoneAssumption DEF LoopInv
<1>1. CASE StartBegin
  <2>1. /\ UNCHANGED <<hosts, stopFlag, tasks, pc, cancelled, known>>
        /\ ctl' = "starting" /\ started' /\ ctl # "stopping"
    BY <1>1 DEF StartBegin
  <2>2. Tasked \subseteq Live
    BY <1>1 DEF StartBegin, StoppedIsEmpty, NoDeadTask, CtlMatchesStarted
  <2>3. NoDeadTask'
    BY <2>1, <2>2 DEF NoDeadTask, Tasked, Live, Running
  <2> QED BY <2>1, <2>3 DEF OneLoopPerHost, StateHeld, QuietUnlessStarted,
         CtlMatchesStarted, FlagMatchesCtl, CancelledExist, StoppedIsEmpty, Running
<1>2. CASE StartFails \/ (\E h \in Hosts : DeleteHost(h)) \/ UNCHANGED vars
  <2>1. /\ UNCHANGED <<started, stopFlag, tasks, pc, cancelled, known>>
        /\ hosts' \subseteq hosts
        /\ ctl' = ctl \/ (ctl = "starting" /\ ctl' = "failed")
    BY <1>2 DEF StartFails, DeleteHost, vars, ctlVars
  <2>2. NoDeadTask'
    BY <2>1 DEF NoDeadTask, Tasked, Live, Running
  <2> QED BY <2>1, <2>2 DEF OneLoopPerHost, StateHeld, QuietUnlessStarted,
         CtlMatchesStarted, FlagMatchesCtl, CancelledExist, StoppedIsEmpty,
         Tasked, Running
<1>3. CASE StopBegin
  <2>1. Cancel(Hosts) /\ Hosts \in SUBSET Hosts
    BY <1>3 DEF StopBegin
  <2>2. /\ cancelled \subseteq cancelled'
        /\ \A t \in Tasks : Running(t) /\ t[1] \in Hosts => t \in cancelled'
    BY <2>1, CancelStops
  <2>3. pc' = pc /\ ~started' /\ ctl' = "stopping" /\ stopFlag'
    BY <1>3 DEF StopBegin
  <2>4. \A t \in Tasks : ~Running(t)'
    BY <2>2, <2>3 DEF Running
  <2>5. CancelledExist'
    BY <2>1, <2>3 DEF Cancel, CancelledExist
  <2> QED BY <2>3, <2>4, <2>5
          DEF OneLoopPerHost, StateHeld, QuietUnlessStarted,
              CtlMatchesStarted, FlagMatchesCtl, StoppedIsEmpty, NoDeadTask
<1>4. CASE StopEnd
  <2>1. (\A t \in Tasks : ~Running(t)) /\ ~started
    BY <1>4 DEF StopEnd, QuietUnlessStarted, CtlMatchesStarted
  <2>2. UNCHANGED <<pc, cancelled, started>> /\ ctl' = "idle" /\ ~stopFlag'
          /\ tasks' = [h \in Hosts |-> None]
    BY <1>4 DEF StopEnd, FlagAfterStop
  <2> QED BY <2>1, <2>2 DEF OneLoopPerHost, StateHeld, QuietUnlessStarted,
              CtlMatchesStarted, FlagMatchesCtl, CancelledExist,
              StoppedIsEmpty, Tasked, NoDeadTask, Running
\* The two calls that spawn.
<1>5. ASSUME started, started', stopFlag' = stopFlag, hosts' = hosts,
             ctl' = ctl \/ (ctl = "starting" /\ ctl' = "idle"),
             NEW S \in SUBSET Hosts, NEW D \in SUBSET Hosts,
             Spawn(S, D), Cancel(D), S \cap Tasked \subseteq D, D \subseteq Tasked,
             known \cap hosts \subseteq known'
      PROVE  LoopInv'
  <2>1. /\ OneLoopPerHost' /\ CancelledExist'
        /\ NoDeadTask'
    BY <1>5, Respawn DEF NoDeadTask
  <2>2. ASSUME NEW t \in Tasks, Running(t)', pc'[t] # "jitter", t[1] \in hosts
        PROVE  t[1] \in known'
    <3>1. pc'[t] = pc[t]
      BY <1>5, <2>2, SpawnTouchesFreeOnly
    <3>2. cancelled \subseteq cancelled'
      BY <1>5, CancelStops
    <3>3. Running(t)
      BY <2>2, <3>1, <3>2 DEF Running
    <3> QED BY <1>5, <2>2, <3>1, <3>3 DEF StateHeld
  <2>3. StateHeld'
    BY <1>5, <2>2 DEF StateHeld
  <2> QED BY <1>5, <2>1, <2>3 DEF QuietUnlessStarted, CtlMatchesStarted,
                                  FlagMatchesCtl, StoppedIsEmpty
<1>6. ASSUME NEW wanted \in SUBSET Hosts, StartEnd(wanted) PROVE LoopInv'
  <2>1. /\ started /\ started' /\ UNCHANGED <<stopFlag, hosts>>
        /\ ctl = "starting" /\ ctl' = "idle"
    BY <1>6 DEF StartEnd, CtlMatchesStarted
  <2> QED BY <1>5, <1>6, <2>1, StartParts
<1>7. ASSUME NEW desired \in SUBSET Hosts, Reconcile(desired) PROVE LoopInv'
  <2>1. started /\ started' /\ UNCHANGED <<stopFlag, hosts, ctl>>
    BY <1>7 DEF Reconcile
  <2> QED BY <1>5, <1>7, <2>1, ReconcileParts
<1> QED BY <1>1, <1>2, <1>3, <1>4, <1>6, <1>7 DEF Control

LEMMA StepLoopInv == LoopInv /\ TypeOK' /\ [Next]_vars => LoopInv'
<1> SUFFICES ASSUME LoopInv, TypeOK', [Next]_vars PROVE LoopInv'
  OBVIOUS
<1>1. CASE \E t \in Tasks : LoopStep(t)
  BY <1>1, LoopStepLoopInv
<1>2. CASE Control \/ (\E h \in Hosts : DeleteHost(h))
             \/ UNCHANGED vars
  BY <1>2, CallLoopInv
<1> QED BY <1>1, <1>2 DEF Next

THEOREM AlwaysLoopInv == Spec => []LoopInv
  BY InitTypeAndSlots, InitLoopInv, StepLoopInv, TypeCorrect, PTL
     DEF Spec, TypeAndSlots

\* Whatever is restarted, stopped or started concurrently, a host never has
\* two loops that have not been cancelled.
THEOREM LoopsAreUnique == Spec => []OneLoopPerHost
  BY AlwaysLoopInv, PTL DEF LoopInv

\* _tasks tells which loops go on: one for each host it has an entry for while
\* the scheduler is started, none from the first step of stop().
THEOREM TasksTellLoops == Spec => []LoopsMatchTasks
<1>1. LoopInv => StoppedIsQuiet
  <2>1. (\A t \in Tasks : ~Running(t)) => Live = {}
    BY LiveIs DEF LiveByTask
  <2> QED BY <2>1 DEF LoopInv, QuietUnlessStarted, StoppedIsQuiet
<1>2. LoopInv => LoopsMatchTasks
  BY <1>1 DEF LoopInv, LoopsMatchTasks
<1> QED BY <1>2, AlwaysLoopInv, PTL

\* The loops after a step are those the call that made it asked for.
LEMMA StepAsAsked ==
  ASSUME LoopInv, LoopInv', [Next]_vars
  PROVE  /\ \A S \in SUBSET Hosts : /\ Reconcile(S) => Live' = S
                                    /\ StartEnd(S) => Live' = Live \cup S
         /\ StopBegin => Live' = {}
         /\ \/ \E S \in SUBSET Hosts : Reconcile(S) \/ StartEnd(S)
            \/ StopBegin
            \/ Live' = Live
<1>1. ASSUME NEW S \in SUBSET Hosts, Reconcile(S) PROVE Live' = S
  <2>1. started /\ TypeOK
    BY <1>1 DEF Reconcile, LoopInv
  <2> QED BY <1>1, <2>1, ReconcileParts, Respawn
<1>2. ASSUME NEW S \in SUBSET Hosts, StartEnd(S) PROVE Live' = Live \cup S
  <2>1. started /\ TypeOK
    BY <1>2 DEF StartEnd, LoopInv, CtlMatchesStarted
  <2>2. Live' = Tasked \cup S
    BY <1>2, <2>1, StartParts, Respawn
  <2>3. Live \subseteq Tasked
    BY LiveIs, NoneAssumption, TaskParts DEF LiveByTask, LoopInv, OneLoopPerHost, Tasked
  <2> QED BY <2>1, <2>2, <2>3 DEF LoopInv, NoDeadTask
<1>3. ASSUME ~started' PROVE Live' = {}
  <2>1. \A t \in Tasks : ~Running(t)'
    BY <1>3 DEF LoopInv, QuietUnlessStarted
  <2>2. Live' = {h \in Hosts : \E t \in Tasks : t[1] = h /\ Running(t)'}
    BY LiveIsNext
  <2> QED BY <2>1, <2>2
<1>4. StopBegin => Live' = {}
  BY <1>3 DEF StopBegin
<1>5. ASSUME UNCHANGED <<pc, cancelled>> PROVE Live' = Live
  BY <1>5 DEF Live, Running
<1>6. StartBegin \/ StartFails \/ StopEnd
             \/ (\E h \in Hosts : DeleteHost(h)) \/ UNCHANGED vars
         => Live' = Live
  BY <1>5 DEF StartBegin, StartFails, StopEnd, DeleteHost, vars
<1> QED BY <1>1, <1>2, <1>4, <1>6, LoopStepLive DEF Next, Control

\* The hosts that are pinged are those the calls asked for, whatever the loops
\* were doing when each call came.
THEOREM LoopsFollowCalls == Spec => LoopsAreAsAsked
<1>1. LoopInv /\ LoopInv' /\ [Next]_vars =>
        [/\ \A S \in SUBSET Hosts : /\ Reconcile(S) => Live' = S
                                    /\ StartEnd(S) => Live' = Live \cup S
         /\ StopBegin => Live' = {}
         /\ \/ \E S \in SUBSET Hosts : Reconcile(S) \/ StartEnd(S)
            \/ StopBegin
            \/ Live' = Live]_vars
  BY StepAsAsked
<1> QED BY <1>1, AlwaysLoopInv, PTL DEF Spec, LoopsAreAsAsked

-----------------------------------------------------------------------------
(* stop() comes nearer its end.  Without the fairness that makes the loops    *)
(* unwind, this is what StopReturns rests on.                                 *)

\* The tasks gather() has still to wait for.
WaitedFor == {t \in CurrentOf(Hosts) : pc[t] # "none"}

\* While stop() waits, each loop it waits for was cancelled, so that it has to
\* unwind and nothing else; the first step of a loop takes it off; nobody adds
\* one, and stop() returns only when none is left.
StopNears ==
    [][ctl = "stopping" =>
          /\ WaitedFor \subseteq cancelled
          /\ WaitedFor' \subseteq WaitedFor
          /\ \A t \in WaitedFor : LoopStep(t) => t \notin WaitedFor'
          /\ ctl' # ctl => WaitedFor = {}]_vars

LEMMA StopStep ==
  ASSUME LoopInv, ctl = "stopping", [Next]_vars
  PROVE  /\ WaitedFor \subseteq cancelled
         /\ WaitedFor' \subseteq WaitedFor
         /\ \A t \in WaitedFor : LoopStep(t) => t \notin WaitedFor'
         /\ ctl' # ctl => WaitedFor = {}
<1>1. ~started /\ \A t \in Tasks : ~Running(t)
  BY DEF LoopInv, CtlMatchesStarted, QuietUnlessStarted
<1>2. WaitedFor \subseteq cancelled
  BY <1>1 DEF WaitedFor, CurrentOf, Running
<1>3. ASSUME NEW t \in Tasks, LoopStep(t)
      PROVE  /\ Unwind(t) /\ tasks' = tasks /\ ctl' = ctl
             /\ pc' = [pc EXCEPT ![t] = "none"]
  <2>1. Unwind(t)
    BY <1>1, <1>3 DEF LoopStep, Begin, Acquire, PingReturns, SampleUp,
                      OutageEnds, SampleDown, OutageStarts, IterationFails,
                      Recorded, StartAnnounced, EndAnnounced, SampleAnnounced,
                      SleepOver, At, Running, LoopInv, TypeOK
  <2> QED BY <2>1 DEF Unwind, Goto, ctlVars
<1>4. ASSUME NEW t \in Tasks, LoopStep(t)
      PROVE  WaitedFor' \subseteq WaitedFor /\ t \notin WaitedFor'
  <2>1. pc'[t] = "none" /\ \A u \in Tasks \ {t} : pc'[u] = pc[u]
    BY <1>3, <1>4 DEF LoopInv, TypeOK
  <2> QED BY <1>3, <1>4, <2>1 DEF WaitedFor, CurrentOf
<1>5. CASE StopEnd
  <2>1. WaitedFor = {}
    BY <1>5 DEF StopEnd, WaitedFor
  <2>2. WaitedFor' = {}
    BY <1>5, TaskParts, NoneAssumption DEF StopEnd, WaitedFor, CurrentOf
  <2> QED BY <2>1, <2>2
<1>6. ASSUME UNCHANGED <<tasks, pc, ctl>>
      PROVE  WaitedFor' = WaitedFor /\ ctl' = ctl
  BY <1>6 DEF WaitedFor, CurrentOf
<1>7. (\E h \in Hosts : DeleteHost(h)) \/ UNCHANGED vars
          => UNCHANGED <<tasks, pc, ctl>>
  BY DEF DeleteHost, vars, ctlVars
<1>8. Control => StopEnd
  BY <1>1 DEF Control, StartBegin, StartFails, StopBegin, StartEnd, Reconcile
<1>9. WaitedFor \subseteq Tasks
  BY DEF WaitedFor, CurrentOf
<1>10. WaitedFor' \subseteq WaitedFor /\ (ctl' # ctl => WaitedFor = {})
  <2>1. ASSUME NEW t \in Tasks, LoopStep(t)
        PROVE  WaitedFor' \subseteq WaitedFor /\ ctl' = ctl
    BY <2>1, <1>3, <1>4
  <2>2. CASE StopEnd
    BY <2>2, <1>5
  <2> QED BY <2>1, <2>2, <1>6, <1>7, <1>8 DEF Next
<1> QED BY <1>2, <1>4, <1>9, <1>10

\* stop() comes nearer its return with every step of a loop it waits for.
THEOREM StopIsNear == Spec => StopNears
<1>1. LoopInv /\ [Next]_vars =>
        [ctl = "stopping" =>
            /\ WaitedFor \subseteq cancelled
            /\ WaitedFor' \subseteq WaitedFor
            /\ \A t \in WaitedFor : LoopStep(t) => t \notin WaitedFor'
            /\ ctl' # ctl => WaitedFor = {}]_vars
  BY StopStep
<1> QED BY <1>1, AlwaysLoopInv, PTL DEF Spec, StopNears

-----------------------------------------------------------------------------
(* The event log is exact.                                                 *)

\* The state of outage detection for a host none of whose announcements was
\* cut short: the log is exact at every moment; the in-memory state lags
\* behind it only while a loop is suspended in an announcement.
Judged(h) ==
    /\ balance[h] = IF trail[h] >= Threshold THEN 1 ELSE 0
    /\ h \notin known => trail[h] = 0
    /\ \A g \in Gens : At(<<h, g>>, "startEvt") =>
          ~inOutage[h] /\ streak[h] = trail[h] /\ trail[h] >= Threshold
    /\ \A g \in Gens : At(<<h, g>>, "endEvt") => inOutage[h] /\ trail[h] = 0
    /\ h \in known /\ (\A g \in Gens : ~At(<<h, g>>, "startEvt")
                                         /\ ~At(<<h, g>>, "endEvt")) =>
          streak[h] = trail[h] /\ (inOutage[h] <=> trail[h] >= Threshold)

AllJudged == \A h \in hosts \ torn : Judged(h)

LEMMA InitAllJudged == Init => AllJudged
  BY ThresholdAssumption DEF Init, AllJudged, Judged, At, Tasks

\* Nothing about host h changes.
LEMMA JudgedFrame ==
  ASSUME NEW h \in Hosts, Judged(h), balance'[h] = balance[h],
         trail'[h] = trail[h], streak'[h] = streak[h],
         inOutage'[h] = inOutage[h], h \in known' <=> h \in known,
         \A g \in Gens : /\ At(<<h, g>>, "startEvt")' <=> At(<<h, g>>, "startEvt")
                         /\ At(<<h, g>>, "endEvt")' <=> At(<<h, g>>, "endEvt")
  PROVE  Judged(h)'
  BY DEF Judged

\* While loop t runs, no other loop of its host is in an announcement.
LEMMA OthersAreSilent ==
  ASSUME LoopInv, NEW t \in Tasks, Running(t), NEW g \in Gens, g # t[2],
         NEW p, p # "none"
  PROVE  ~At(<<t[1], g>>, p)
<1>1. t[1] \in Hosts /\ t[2] \in Gens /\ tasks[t[1]] = t[2]
  BY TaskParts DEF LoopInv, OneLoopPerHost
<1>2. <<t[1], g>> \in Tasks
  BY <1>1 DEF Tasks
<1> QED BY <1>1, <1>2 DEF LoopInv, OneLoopPerHost, Running, At

\* A step of loop t leaves the other hosts alone.
LEMMA OtherHostsJudged ==
  ASSUME LoopInv, NEW t \in Tasks, LoopStep(t), NEW h \in Hosts, h # t[1],
         Judged(h)
  PROVE  Judged(h)'
<1> USE TaskParts DEF LoopInv, TypeOK
<1>1. /\ balance'[h] = balance[h] /\ trail'[h] = trail[h]
      /\ streak'[h] = streak[h] /\ inOutage'[h] = inOutage[h]
      /\ h \in known' <=> h \in known
  BY DEF LoopStep, Begin, Acquire, PingReturns, SampleUp, OutageEnds,
         SampleDown, OutageStarts, IterationFails, Recorded, StartAnnounced,
         EndAnnounced, SampleAnnounced, SleepOver, Unwind, Unwinds, loopVars
<1>2. ASSUME NEW g \in Gens
      PROVE  /\ pc'[<<h, g>>] = pc[<<h, g>>]
             /\ <<h, g>> \in cancelled' <=> <<h, g>> \in cancelled
  <2>1. <<h, g>> \in Tasks /\ <<h, g>> # t
    BY DEF Tasks
  <2>2. <<h, g>> \in cancelled' <=> <<h, g>> \in cancelled
    BY <2>1 DEF LoopStep, Begin, Acquire, PingReturns, SampleUp, OutageEnds,
         SampleDown, OutageStarts, IterationFails, Recorded, StartAnnounced,
         EndAnnounced, SampleAnnounced, SleepOver, Unwind, Unwinds
  <2> QED BY <2>1, <2>2, LoopStepMoves
<1>3. \A g \in Gens : /\ At(<<h, g>>, "startEvt")' <=> At(<<h, g>>, "startEvt")
                      /\ At(<<h, g>>, "endEvt")' <=> At(<<h, g>>, "endEvt")
  BY <1>2 DEF At
<1> QED BY <1>1, <1>3, JudgedFrame

\* The step of loop t itself, one case per suspension point.
LEMMA OwnHostJudged ==
  ASSUME LoopInv, NEW t \in Tasks, LoopStep(t), t[1] \in hosts,
         Judged(t[1])
  PROVE  Judged(t[1])'
<1> DEFINE h == t[1]
           Silent == \A g \in Gens : ~At(<<h, g>>, "startEvt")
                                       /\ ~At(<<h, g>>, "endEvt")
<1>0. h \in Hosts /\ t[2] \in Gens /\ t = <<h, t[2]>>
  BY TaskParts
<1>00. \A g \in Gens : <<h, g>> \in Tasks
  BY <1>0 DEF Tasks
<1> USE ThresholdAssumption DEF LoopInv, TypeOK
<1>1. ASSUME Running(t), pc[t] \notin {"startEvt", "endEvt"} PROVE Silent
  BY <1>0, <1>1, OthersAreSilent DEF At
\* The remaining steps of a running loop keep the others of h silent.
<1>2. ASSUME Running(t), cancelled' = cancelled,
             NEW p \in PCs, pc' = [pc EXCEPT ![t] = p]
      PROVE  /\ \A g \in Gens : g # t[2] => ~At(<<h, g>>, "startEvt")'
                                              /\ ~At(<<h, g>>, "endEvt")'
             /\ \A q : At(t, q)' <=> p = q
  <2>1. \A g \in Gens : g # t[2] => ~At(<<h, g>>, "startEvt")
                                      /\ ~At(<<h, g>>, "endEvt")
    BY <1>2, OthersAreSilent
  <2>2. \A g \in Gens : g # t[2] => pc'[<<h, g>>] = pc[<<h, g>>]
    BY <1>0, <1>00, <1>2
  <2>3. pc'[t] = p /\ t \notin cancelled'
    BY <1>2 DEF Running
  <2> QED BY <1>2, <2>1, <2>2, <2>3 DEF At
<1>3. CASE Begin(t)
  <2>1. Running(t) /\ Silent
    BY <1>1, <1>3 DEF Begin, At, Running
  <2>2. pc' = [pc EXCEPT ![t] = LoopTop] /\ cancelled' = cancelled
          /\ LoopTop \in PCs \ {"startEvt", "endEvt"}
    BY <1>3 DEF Begin, Goto, LoopTop, PCs
  <2>3. Silent'
    BY <1>0, <1>2, <2>1, <2>2
  <2>4. /\ trail' = trail /\ balance' = balance /\ h \in known'
        /\ streak'[h] = IF h \in known THEN streak[h] ELSE 0
        /\ inOutage'[h] <=> h \in known /\ inOutage[h]
    BY <1>0, <1>3 DEF Begin, KnownAtBegin
  <2> QED BY <2>1, <2>3, <2>4 DEF Judged
<1>4. CASE PingReturns(t)
  <2>1. Running(t) /\ Silent /\ h \in known /\ known' = known
    BY <1>1, <1>4 DEF PingReturns, SampleUp, OutageEnds, SampleDown,
          OutageStarts, IterationFails, Recorded, At, Running, StateHeld
  <2>2. /\ streak[h] = trail[h] /\ (inOutage[h] <=> trail[h] >= Threshold)
        /\ balance[h] = IF trail[h] >= Threshold THEN 1 ELSE 0
    BY <2>1 DEF Judged
  <2>3. cancelled' = cancelled
    BY <1>4 DEF PingReturns, SampleUp, OutageEnds, SampleDown,
          OutageStarts, IterationFails, Recorded
  <2>4. CASE SampleUp(t)
    <3>1. pc' = [pc EXCEPT ![t] = AfterJudging]
            /\ AfterJudging \in PCs \ {"startEvt", "endEvt"}
      BY <2>4 DEF SampleUp, Goto, AfterJudging, PCs
    <3>2. Silent'
      BY <1>0, <1>2, <2>1, <2>3, <3>1
    <3>3. /\ trail'[h] = 0 /\ streak'[h] = 0 /\ ~inOutage'[h] /\ ~inOutage[h]
          /\ balance'[h] = balance[h]
      BY <1>0, <2>4 DEF SampleUp, Recorded
    <3> QED BY <2>1, <2>2, <3>2, <3>3 DEF Judged
  <2>5. CASE OutageEnds(t)
    <3>1. /\ trail'[h] = 0 /\ inOutage[h] /\ balance'[h] = balance[h] - 1
      BY <1>0, <2>5 DEF OutageEnds, Recorded
    <3>2. balance'[h] = IF trail'[h] >= Threshold THEN 1 ELSE 0
      BY <2>2, <3>1
    <3>3. CASE HasBroadcaster
      <4>1. pc' = [pc EXCEPT ![t] = "endEvt"] /\ "endEvt" \in PCs /\ inOutage'[h]
        BY <2>5, <3>1, <3>3 DEF OutageEnds, Goto, PCs
      <4>2. At(<<h, t[2]>>, "endEvt")'
        BY <1>0, <1>2, <2>1, <2>3, <4>1
      <4>3. ASSUME NEW g \in Gens PROVE ~At(<<h, g>>, "startEvt")'
        <5>1. ASSUME g # t[2] PROVE ~At(<<h, g>>, "startEvt")'
          BY <1>2, <2>1, <2>3, <4>1, <5>1
        <5>2. ASSUME g = t[2] PROVE ~At(<<h, g>>, "startEvt")'
          BY <4>2, <5>2 DEF At
        <5> QED BY <5>1, <5>2
      <4> QED BY <1>0, <2>1, <3>1, <3>2, <4>1, <4>2, <4>3 DEF Judged
    <3>4. CASE ~HasBroadcaster
      <4>1. /\ pc' = [pc EXCEPT ![t] = "sleep"] /\ "sleep" \in PCs
            /\ ~inOutage'[h] /\ streak'[h] = 0
        BY <1>0, <2>5, <3>4 DEF OutageEnds, Goto, PCs, AfterJudging
      <4>2. Silent'
        BY <1>0, <1>2, <2>1, <2>3, <4>1
      <4> QED BY <2>1, <3>1, <3>2, <4>1, <4>2 DEF Judged
    <3> QED BY <3>3, <3>4
  <2>6. CASE SampleDown(t)
    <3>1. pc' = [pc EXCEPT ![t] = AfterJudging]
            /\ AfterJudging \in PCs \ {"startEvt", "endEvt"}
      BY <2>6 DEF SampleDown, Goto, AfterJudging, PCs
    <3>2. Silent'
      BY <1>0, <1>2, <2>1, <2>3, <3>1
    <3>3. /\ trail'[h] = OneMore(trail[h]) /\ streak'[h] = OneMore(streak[h])
          /\ inOutage' = inOutage /\ balance' = balance
          /\ ~(OneMore(streak[h]) = Threshold /\ ~inOutage[h])
      BY <1>0, <2>6 DEF SampleDown, Recorded, OpensOutage
    <3>4. trail'[h] >= Threshold <=> trail[h] >= Threshold
      BY <1>0, <2>2, <3>3 DEF OneMore
    <3> QED BY <2>1, <2>2, <3>2, <3>3, <3>4 DEF Judged
  <2>7. CASE OutageStarts(t)
    <3>1. /\ trail'[h] = Threshold /\ streak'[h] = Threshold /\ ~inOutage[h]
          /\ balance'[h] = balance[h] + 1
      BY <1>0, <2>2, <2>7 DEF OutageStarts, Recorded, OpensOutage
    <3>2. balance'[h] = IF trail'[h] >= Threshold THEN 1 ELSE 0
      BY <1>0, <2>2, <3>1
    <3>3. CASE HasBroadcaster
      <4>1. /\ pc' = [pc EXCEPT ![t] = "startEvt"] /\ "startEvt" \in PCs
            /\ ~inOutage'[h]
        BY <2>7, <3>1, <3>3 DEF OutageStarts, Goto, PCs
      <4>2. At(<<h, t[2]>>, "startEvt")'
        BY <1>0, <1>2, <2>1, <2>3, <4>1
      <4>3. ASSUME NEW g \in Gens PROVE ~At(<<h, g>>, "endEvt")'
        <5>1. ASSUME g # t[2] PROVE ~At(<<h, g>>, "endEvt")'
          BY <1>2, <2>1, <2>3, <4>1, <5>1
        <5>2. ASSUME g = t[2] PROVE ~At(<<h, g>>, "endEvt")'
          BY <4>2, <5>2 DEF At
        <5> QED BY <5>1, <5>2
      <4>4. streak'[h] = trail'[h] /\ trail'[h] >= Threshold
        BY <3>1
      <4> QED BY <1>0, <2>1, <3>2, <4>1, <4>2, <4>3, <4>4 DEF Judged
    <3>4. CASE ~HasBroadcaster
      <4>1. /\ pc' = [pc EXCEPT ![t] = "sleep"] /\ "sleep" \in PCs
            /\ inOutage'[h]
        BY <1>0, <2>7, <3>4 DEF OutageStarts, Goto, PCs, AfterJudging
      <4>2. Silent'
        BY <1>0, <1>2, <2>1, <2>3, <4>1
      <4> QED BY <2>1, <3>1, <3>2, <4>1, <4>2 DEF Judged
    <3> QED BY <3>3, <3>4
  <2>8. CASE IterationFails(t)
    <3>1. pc' = [pc EXCEPT ![t] = "sleep"] /\ "sleep" \in PCs
      BY <2>8 DEF IterationFails, Goto, PCs
    <3>2. Silent'
      BY <1>0, <1>2, <2>1, <2>3, <3>1
    <3>3. /\ trail'[h] = trail[h] /\ streak' = streak /\ inOutage' = inOutage
          /\ balance' = balance
      BY <1>0, <2>8 DEF IterationFails, Recorded
    <3> QED BY <2>1, <2>2, <3>2, <3>3 DEF Judged
  <2> QED BY <1>4, <2>4, <2>5, <2>6, <2>7, <2>8 DEF PingReturns
<1>5. CASE StartAnnounced(t)
  <2>1. Running(t) /\ At(t, "startEvt") /\ h \in known /\ known' = known
    BY <1>5 DEF StartAnnounced, At, Running, StateHeld
  <2>2. pc' = [pc EXCEPT ![t] = "sampleEvt"] /\ "sampleEvt" \in PCs
          /\ cancelled' = cancelled
    BY <1>5 DEF StartAnnounced, Goto, PCs
  <2>3. Silent'
    BY <1>0, <1>2, <2>1, <2>2
  <2>4. streak[h] = trail[h] /\ trail[h] >= Threshold
    BY <1>0, <2>1 DEF Judged
  <2>5. /\ inOutage'[h] /\ streak' = streak /\ trail' = trail /\ balance' = balance
    BY <1>0, <1>5 DEF StartAnnounced
  <2> QED BY <2>1, <2>3, <2>4, <2>5 DEF Judged
<1>6. CASE EndAnnounced(t)
  <2>1. Running(t) /\ At(t, "endEvt") /\ h \in known /\ known' = known
    BY <1>6 DEF EndAnnounced, At, Running, StateHeld
  <2>2. pc' = [pc EXCEPT ![t] = "sampleEvt"] /\ "sampleEvt" \in PCs
          /\ cancelled' = cancelled
    BY <1>6 DEF EndAnnounced, Goto, PCs
  <2>3. Silent'
    BY <1>0, <1>2, <2>1, <2>2
  <2>4. trail[h] = 0
    BY <1>0, <2>1 DEF Judged
  <2>5. /\ ~inOutage'[h] /\ streak'[h] = 0 /\ trail' = trail /\ balance' = balance
    BY <1>0, <1>6 DEF EndAnnounced
  <2> QED BY <2>1, <2>3, <2>4, <2>5 DEF Judged
<1>7. CASE Acquire(t) \/ SampleAnnounced(t) \/ SleepOver(t)
  <2>1. Running(t) /\ Silent /\ cancelled' = cancelled
    BY <1>1, <1>7 DEF Acquire, SampleAnnounced, SleepOver, At, Running
  <2>2. PICK p \in PCs \ {"startEvt", "endEvt"} : pc' = [pc EXCEPT ![t] = p]
    BY <1>7 DEF Acquire, SampleAnnounced, SleepOver, Goto, LoopTop, PCs
  <2>3. Silent'
    BY <1>0, <1>2, <2>1, <2>2
  <2>4. UNCHANGED <<known, streak, inOutage, trail, balance>>
    BY <1>7 DEF Acquire, SampleAnnounced, SleepOver, loopVars
  <2> QED BY <2>1, <2>3, <2>4, JudgedFrame, <1>0
<1>8. CASE Unwind(t)
  <2>1. t \in cancelled /\ cancelled' = cancelled \ {t} /\ pc' = [pc EXCEPT ![t] = "none"]
    BY <1>8 DEF Unwind, Unwinds, Goto
  <2>2. ASSUME NEW g \in Gens, NEW p \in {"startEvt", "endEvt"}
        PROVE  At(<<h, g>>, p)' <=> At(<<h, g>>, p)
    BY <1>0, <1>00, <2>1 DEF At
  <2>3. UNCHANGED <<known, streak, inOutage, trail, balance>>
    BY <1>8 DEF Unwind, Unwinds
  <2> QED BY <2>2, <2>3, JudgedFrame, <1>0
<1> QED BY <1>3, <1>4, <1>5, <1>6, <1>7, <1>8 DEF LoopStep

LEMMA LoopStepAllJudged ==
  ASSUME LoopInv, AllJudged, NEW t \in Tasks, LoopStep(t)
  PROVE  AllJudged'
<1>1. hosts' = hosts /\ hosts \subseteq Hosts
  BY LoopStepMoves DEF LoopInv, TypeOK, ctlVars
<1>2. torn' = torn
  BY DEF LoopStep, Begin, Acquire, PingReturns, SampleUp, OutageEnds,
         SampleDown, OutageStarts, IterationFails, Recorded, StartAnnounced,
         EndAnnounced, SampleAnnounced, SleepOver, Unwind, Unwinds
<1>3. ASSUME NEW h \in hosts \ torn PROVE Judged(h)'
  <2>1. Judged(h)
    BY DEF AllJudged
  <2>2. CASE h = t[1]
    BY <1>1, <2>1, <2>2, OwnHostJudged
  <2>3. CASE h # t[1]
    BY <1>1, <2>1, <2>3, OtherHostsJudged
  <2> QED BY <2>2, <2>3
<1> QED BY <1>1, <1>2, <1>3 DEF AllJudged

\* A call cancels loops in an announcement only by tearing it, and spawns
\* loops that are not in one.
LEMMA CallAllJudged ==
  ASSUME LoopInv, AllJudged,
         Control \/ (\E h \in Hosts : DeleteHost(h))
             \/ UNCHANGED vars
  PROVE  AllJudged'
<1>1. UNCHANGED <<streak, inOutage, trail, balance>> /\ hosts' \subseteq hosts
        /\ hosts \subseteq Hosts
  BY DEF Control, StartBegin, StartEnd, StartFails, StopBegin,
         StopEnd, Reconcile, DeleteHost, vars, ctlVars, loopVars, LoopInv, TypeOK
<1>2. ASSUME torn \subseteq torn',
             \A h \in hosts : h \in known' <=> h \in known,
             \A h \in hosts \ torn' : \A g \in Gens :
                /\ At(<<h, g>>, "startEvt")' <=> At(<<h, g>>, "startEvt")
                /\ At(<<h, g>>, "endEvt")' <=> At(<<h, g>>, "endEvt")
      PROVE  AllJudged'
  <2>1. SUFFICES ASSUME NEW h \in hosts' \ torn' PROVE Judged(h)'
    BY DEF AllJudged
  <2>2. Judged(h) /\ h \in Hosts
    BY <1>1, <1>2 DEF AllJudged
  <2> QED BY <1>1, <1>2, <2>2, JudgedFrame
<1>3. \A h \in hosts : \A g \in Gens : <<h, g>> \in Tasks
  BY <1>1 DEF Tasks
\* Spawning alone.
<1>4. ASSUME NEW S \in SUBSET Hosts, NEW D \in SUBSET Hosts, Spawn(S, D)
      PROVE  \A t \in Tasks : \/ pc'[t] = pc[t]
                              \/ pc[t] = "none" /\ pc'[t] = "jitter"
  BY <1>4, SpawnTouchesFreeOnly DEF LoopInv
\* Cancelling, possibly with spawning.
<1>5. ASSUME NEW D \in SUBSET Hosts, Cancel(D),
             \A t \in Tasks : \/ pc'[t] = pc[t]
                              \/ pc[t] = "none" /\ pc'[t] = "jitter"
      PROVE  /\ torn \subseteq torn'
             /\ \A h \in hosts \ torn' : \A g \in Gens :
                  /\ At(<<h, g>>, "startEvt")' <=> At(<<h, g>>, "startEvt")
                  /\ At(<<h, g>>, "endEvt")' <=> At(<<h, g>>, "endEvt")
  <2>1. /\ torn \subseteq torn' /\ cancelled \subseteq cancelled'
        /\ \A t \in Tasks : At(t, "startEvt") \/ At(t, "endEvt")
               => t \notin cancelled' \/ t[1] \in torn'
    BY <1>5, CancelStops
  <2>2. ASSUME NEW h \in hosts \ torn', NEW g \in Gens,
               NEW p \in {"startEvt", "endEvt"}
        PROVE  At(<<h, g>>, p)' <=> At(<<h, g>>, p)
    BY <1>3, <1>5, <2>1, <2>2 DEF At
  <2> QED BY <2>1, <2>2
<1>6. CASE StartBegin \/ StartFails \/ StopEnd
             \/ (\E h \in Hosts : DeleteHost(h)) \/ UNCHANGED vars
  <2>1. UNCHANGED <<pc, cancelled, known, torn>>
    BY <1>6 DEF StartBegin, StartFails, StopEnd, DeleteHost, vars
  <2> QED BY <1>2, <2>1 DEF At
<1>7. ASSUME NEW wanted \in SUBSET Hosts, StartEnd(wanted) PROVE AllJudged'
  <2>1. Spawn(StartSpawns(wanted), {})
    BY <1>7 DEF StartEnd
  <2>2. PICK S \in SUBSET Hosts, D \in SUBSET Hosts :
            S = StartSpawns(wanted) /\ D = {} /\ Spawn(S, D)
    BY <2>1 DEF StartSpawns
  <2>3. \A t \in Tasks : \/ pc'[t] = pc[t]
                         \/ pc[t] = "none" /\ pc'[t] = "jitter"
    BY <1>4, <2>2
  <2>4. UNCHANGED <<cancelled, known, torn>>
    BY <1>7 DEF StartEnd
  <2>5. ASSUME NEW h \in hosts, NEW g \in Gens, NEW p \in {"startEvt", "endEvt"}
        PROVE  At(<<h, g>>, p)' <=> At(<<h, g>>, p)
    BY <1>3, <2>3, <2>4 DEF At
  <2> QED BY <1>2, <2>4, <2>5
<1>8. CASE StopBegin
  <2>1. Cancel(Hosts) /\ pc' = pc /\ known' = known
    BY <1>8 DEF StopBegin
  <2>2. PICK D \in SUBSET Hosts : Cancel(D)
    BY <2>1
  <2> QED BY <1>2, <1>5, <2>1, <2>2
<1>9. ASSUME NEW desired \in SUBSET Hosts, Reconcile(desired) PROVE AllJudged'
  <2>1. PICK S \in SUBSET Hosts, D \in SUBSET Hosts :
            /\ Spawn(S, D) /\ Cancel(D)
            /\ known \cap hosts \subseteq known' /\ known' \subseteq known
    BY <1>9, ReconcileParts DEF LoopInv
  <2>2. \A t \in Tasks : \/ pc'[t] = pc[t]
                         \/ pc[t] = "none" /\ pc'[t] = "jitter"
    BY <1>4, <2>1
  <2>3. \A h \in hosts : h \in known' <=> h \in known
    BY <2>1
  <2> QED BY <1>2, <1>5, <2>1, <2>2, <2>3
<1> QED BY <1>6, <1>7, <1>8, <1>9 DEF Control

LEMMA StepAllJudged == LoopInv /\ AllJudged /\ [Next]_vars => AllJudged'
<1> SUFFICES ASSUME LoopInv, AllJudged, [Next]_vars PROVE AllJudged'
  OBVIOUS
<1>1. CASE \E t \in Tasks : LoopStep(t)
  BY <1>1, LoopStepAllJudged
<1>2. CASE Control \/ (\E h \in Hosts : DeleteHost(h))
             \/ UNCHANGED vars
  BY <1>2, CallAllJudged
<1> QED BY <1>1, <1>2 DEF Next

\* For every host whose announcements were never cut short, the stored events
\* say exactly what the stored samples say: an outage is open iff the last
\* Threshold samples failed, across any number of restarts.
THEOREM OutageLogIsExact == Spec => []OutageLogExact
<1>1. AllJudged => OutageLogExact
  BY DEF AllJudged, Judged, OutageLogExact
<1>2. Spec => []AllJudged
  BY InitAllJudged, StepAllJudged, AlwaysLoopInv, PTL DEF Spec
<1> QED BY <1>1, <1>2, PTL
-----------------------------------------------------------------------------
(* Without a broadcaster the scheduler implements the log of outages.      *)

\* Nobody is ever suspended in an announcement, so none is cut short.
Unannounced ==
    /\ torn = {}
    /\ \A t \in Tasks : pc[t] \notin {"startEvt", "endEvt"}

LEMMA InitUnannounced == Init => Unannounced
  BY DEF Init, Unannounced

LEMMA StepUnannounced ==
  ASSUME ~HasBroadcaster, LoopInv, Unannounced, [Next]_vars
  PROVE  Unannounced'
<1> USE DEF LoopInv, TypeOK, Unannounced
<1>1. ASSUME NEW t \in Tasks, LoopStep(t) PROVE Unannounced'
  <2>1. torn' = torn
    BY <1>1 DEF LoopStep, Begin, Acquire, PingReturns, SampleUp, OutageEnds,
         SampleDown, OutageStarts, IterationFails, Recorded, StartAnnounced,
         EndAnnounced, SampleAnnounced, SleepOver, Unwind, Unwinds
  <2>2. pc'[t] \notin {"startEvt", "endEvt"}
    BY <1>1 DEF LoopStep, Begin, Acquire, PingReturns, SampleUp, OutageEnds,
         SampleDown, OutageStarts, IterationFails, StartAnnounced,
         EndAnnounced, SampleAnnounced, SleepOver, Unwind, Goto, LoopTop,
         AfterJudging
  <2> QED BY <1>1, <2>1, <2>2, LoopStepMoves
<1>2. CASE StartBegin \/ StartFails \/ StopEnd
             \/ (\E h \in Hosts : DeleteHost(h)) \/ UNCHANGED vars
  BY <1>2 DEF StartBegin, StartFails, StopEnd, DeleteHost, vars
<1>3. ASSUME NEW S \in SUBSET Hosts, NEW D \in SUBSET Hosts, Spawn(S, D)
      PROVE  \A t \in Tasks : pc'[t] \notin {"startEvt", "endEvt"}
  BY <1>3, SpawnTouchesFreeOnly
<1>4. ASSUME NEW D, Cancel(D) PROVE torn' = {}
  BY <1>4 DEF Cancel, CurrentOf
<1>5. ASSUME NEW wanted \in SUBSET Hosts, StartEnd(wanted) PROVE Unannounced'
  <2>1. Spawn(StartSpawns(wanted), {})
    BY <1>5 DEF StartEnd
  <2>2. StartSpawns(wanted) \in SUBSET Hosts /\ {} \in SUBSET Hosts
    BY DEF StartSpawns
  <2> QED BY <1>3, <1>5, <2>1, <2>2 DEF StartEnd
<1>6. CASE StopBegin
  BY <1>4, <1>6 DEF StopBegin
<1>7. ASSUME NEW desired \in SUBSET Hosts, Reconcile(desired) PROVE Unannounced'
  BY <1>3, <1>4, <1>7, ReconcileParts
<1> QED BY <1>1, <1>2, <1>5, <1>6, <1>7 DEF Next, Control

\* A loop records one sample of host h; the log is as if h had been told.
LEMMA RecordedMaps ==
  ASSUME LoopInv, NEW h \in hosts, hosts' = hosts,
         NEW n, trail' = [trail EXCEPT ![h] = n],
         NEW m, balance' = [balance EXCEPT ![h] = m]
  PROVE  /\ [k \in hosts |-> trail[k]]'
               = [[k \in hosts |-> trail[k]] EXCEPT ![h] = n]
         /\ [k \in hosts |-> balance[k]]'
               = [[k \in hosts |-> balance[k]] EXCEPT ![h] = m]
  BY DEF LoopInv, TypeOK

LEMMA PingMaps ==
  ASSUME ~HasBroadcaster, LoopInv, AllJudged, Unannounced,
         NEW t \in Tasks, PingReturns(t)
  PROVE  Log!Next \/ UNCHANGED Log!vars
<1> DEFINE h == t[1]
           T == [k \in hosts |-> trail[k]]
           B == [k \in hosts |-> balance[k]]
<1> USE ThresholdAssumption
<1>1. /\ hosts' = hosts /\ At(t, "pinging") /\ h \in Hosts /\ hosts \subseteq Hosts
      /\ t[2] \in Gens /\ t = <<h, t[2]>>
  BY TaskParts DEF PingReturns, SampleUp, OutageEnds, SampleDown, OutageStarts,
         IterationFails, Recorded, ctlVars, LoopInv, TypeOK
<1>2. CASE h \notin hosts
  <2>1. \A k \in hosts : trail'[k] = trail[k] /\ balance'[k] = balance[k]
    BY <1>1, <1>2 DEF PingReturns, SampleUp, OutageEnds, SampleDown,
           OutageStarts, IterationFails, Recorded, LoopInv, TypeOK
  <2>2. T' = T /\ B' = B
    BY <1>1, <2>1
  <2> QED BY <1>1, <2>2 DEF Log!vars
<1>3. CASE h \in hosts
  <2>1. /\ h \in known
        /\ trail[h] \in 0..(Threshold + 1)
        /\ streak[h] = trail[h] /\ (inOutage[h] <=> trail[h] >= Threshold)
        /\ balance[h] = IF trail[h] >= Threshold THEN 1 ELSE 0
    <3>1. h \in known
      BY <1>1, <1>3 DEF LoopInv, StateHeld, Running, At
    <3>2. \A g \in Gens : ~At(<<h, g>>, "startEvt") /\ ~At(<<h, g>>, "endEvt")
      BY <1>1 DEF Unannounced, At, Tasks
    <3> QED BY <1>1, <1>3, <3>1, <3>2
            DEF AllJudged, Judged, Unannounced, LoopInv, TypeOK
  <2>2. T[h] = trail[h] /\ B[h] = balance[h]
    BY <1>3
  <2>3. CASE SampleUp(t)
    <3>1. trail' = [trail EXCEPT ![h] = 0]
            /\ balance' = [balance EXCEPT ![h] = 0]
      BY <1>1, <2>1, <2>3 DEF SampleUp, Recorded, LoopInv, TypeOK
    <3>2. T' = [T EXCEPT ![h] = 0] /\ B' = [B EXCEPT ![h] = 0]
      BY <1>1, <1>3, <3>1, RecordedMaps
    <3>3. 0 = IF B[h] = 1 THEN 0 ELSE B[h]
      BY <2>1, <2>2
    <3>4. Log!Up(h)
      BY <1>1, <3>2, <3>3 DEF Log!Up
    <3> QED BY <1>3, <3>4 DEF Log!Next
  <2>4. CASE OutageEnds(t)
    <3>1. trail' = [trail EXCEPT ![h] = 0]
            /\ balance' = [balance EXCEPT ![h] = 0]
      BY <1>1, <2>1, <2>4 DEF OutageEnds, Recorded, LoopInv, TypeOK
    <3>2. T' = [T EXCEPT ![h] = 0] /\ B' = [B EXCEPT ![h] = 0]
      BY <1>1, <1>3, <3>1, RecordedMaps
    <3>3. 0 = IF B[h] = 1 THEN 0 ELSE B[h]
      BY <2>1, <2>2
    <3>4. Log!Up(h)
      BY <1>1, <3>2, <3>3 DEF Log!Up
    <3> QED BY <1>3, <3>4 DEF Log!Next
  <2>5. CASE SampleDown(t) \/ OutageStarts(t)
    <3> DEFINE n == OneMore(trail[h])
               m == IF n >= Threshold THEN 1 ELSE balance[h]
    <3>1. trail' = [trail EXCEPT ![h] = n]
      BY <2>5 DEF SampleDown, OutageStarts, Recorded
    <3>2. balance' = [balance EXCEPT ![h] = m]
      <4>1. CASE SampleDown(t)
        <5>1. m = balance[h]
          BY <2>1, <4>1 DEF SampleDown, OpensOutage, OneMore
        <5> QED BY <1>1, <4>1, <5>1 DEF SampleDown, LoopInv, TypeOK
      <4>2. CASE OutageStarts(t)
        <5>1. m = 1 /\ balance[h] = 0
          BY <2>1, <4>2 DEF OutageStarts, OpensOutage, OneMore
        <5>2. balance' = [balance EXCEPT ![h] = balance[h] + 1]
          BY <4>2 DEF OutageStarts
        <5>3. balance[h] + 1 = m
          BY <5>1
        <5> HIDE DEF m
        <5> QED BY <5>2, <5>3
      <4> QED BY <2>5, <4>1, <4>2
    <3>3. T' = [T EXCEPT ![h] = n] /\ B' = [B EXCEPT ![h] = m]
      BY <1>1, <1>3, <3>1, <3>2, RecordedMaps
    <3>4. n = IF T[h] > Threshold THEN T[h] ELSE T[h] + 1
      BY <2>2 DEF OneMore
    <3>5. T'[h] = n
      BY <1>3, <3>3
    <3>6. m = IF T'[h] >= Threshold THEN 1 ELSE B[h]
      BY <2>2, <3>5
    <3>7. Log!Down(h)
      BY <1>1, <3>3, <3>4, <3>6 DEF Log!Down
    <3> QED BY <1>3, <3>7 DEF Log!Next
  <2>6. CASE IterationFails(t)
    <3>1. trail' = trail /\ balance' = balance
      BY <1>1, <2>6 DEF IterationFails, Recorded, LoopInv, TypeOK
    <3> QED BY <1>1, <3>1 DEF Log!vars
  <2> QED BY <2>3, <2>4, <2>5, <2>6 DEF PingReturns
<1> QED BY <1>2, <1>3

\* Every step of the scheduler records a sample in the log, deletes a host
\* from it, or leaves it alone.
LEMMA StepMaps ==
  ASSUME ~HasBroadcaster, LoopInv, AllJudged, Unannounced, [Next]_vars
  PROVE  Log!Next \/ UNCHANGED Log!vars
<1>1. ASSUME UNCHANGED <<hosts, trail, balance>> PROVE UNCHANGED Log!vars
  BY <1>1 DEF Log!vars
<1>2. ASSUME NEW t \in Tasks, LoopStep(t), ~PingReturns(t)
      PROVE  UNCHANGED <<hosts, trail, balance>>
  <2>1. ~StartAnnounced(t) /\ ~EndAnnounced(t)
    BY DEF Unannounced, StartAnnounced, EndAnnounced, At
  <2> QED BY <1>2, <2>1 DEF LoopStep, Begin, Acquire, SampleAnnounced,
             SleepOver, Unwind, ctlVars, loopVars
<1>3. CASE Control \/ UNCHANGED vars
  BY <1>1, <1>3 DEF Control, StartBegin, StartEnd, StartFails, StopBegin,
         StopEnd, Reconcile, vars, ctlVars, loopVars
<1>4. ASSUME NEW h \in Hosts, DeleteHost(h) PROVE Log!Next
  <2>1. h \in hosts /\ hosts' = hosts \ {h} /\ trail' = trail /\ balance' = balance
    BY <1>4 DEF DeleteHost, loopVars
  <2>2. /\ [k \in hosts |-> trail[k]]' = [k \in hosts' |-> [j \in hosts |-> trail[j]][k]]
        /\ [k \in hosts |-> balance[k]]' = [k \in hosts' |-> [j \in hosts |-> balance[j]][k]]
    BY <2>1
  <2>3. Log!Delete(h)
    BY <2>1, <2>2 DEF Log!Delete
  <2> QED BY <2>1, <2>3 DEF Log!Next
<1> QED BY <1>1, <1>2, <1>3, <1>4, PingMaps DEF Next

\* Without a broadcaster the scheduler keeps the promise of OutageLog, for any
\* hosts, threshold and number of slots: whatever is started, stopped,
\* restarted, disabled or deleted in between, each sample is judged the moment
\* it is recorded.
THEOREM LogIsImplemented == ~HasBroadcaster => (Spec => ImplementsOutageLog)
<1> SUFFICES ASSUME ~HasBroadcaster PROVE Spec => ImplementsOutageLog
  OBVIOUS
<1>1. Init => Log!Init
  BY DEF Init, Log!Init
<1>2. Spec => [](LoopInv /\ AllJudged /\ Unannounced)
  <2>1. LoopInv /\ Unannounced /\ [Next]_vars => Unannounced'
    BY StepUnannounced
  <2> QED BY <2>1, InitUnannounced, InitAllJudged, StepAllJudged,
             AlwaysLoopInv, PTL DEF Spec
<1>3. LoopInv /\ AllJudged /\ Unannounced /\ [Next]_vars
        => [Log!Next]_(Log!vars)
  BY StepMaps
<1> QED BY <1>1, <1>2, <1>3, PTL DEF Spec, ImplementsOutageLog, Log!Spec
=============================================================================
