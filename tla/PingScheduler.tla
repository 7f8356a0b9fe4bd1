--------------------------- MODULE PingScheduler ---------------------------
(***************************************************************************)
(* The ping scheduler of src/netping/pinger.py: one asyncio task per       *)
(* monitored host, a semaphore shared by all of them, outage detection,    *)
(* and start/stop/reconcile, which create and cancel the tasks.            *)
(*                                                                         *)
(* asyncio runs one callback at a time, so a step is the code between two  *)
(* suspension points; pc names the await at which a task is suspended.     *)
(* task.cancel() only marks a task: its CancelledError is raised when the  *)
(* task is next resumed, and other callbacks may run in between.           *)
(* Store.enqueue_sample and Store.enqueue_event never suspend (their lock  *)
(* is never held across an await), so they are part of the step that calls *)
(* them.                                                                   *)
(***************************************************************************)
EXTENDS Integers, FiniteSets

CONSTANTS
    Hosts,           \* every host id that may ever exist
    Gens,            \* tasks of one host that may coexist, some of them cancelled
    None,            \* "no task": not a member of Gens
    Threshold,       \* OUTAGE_THRESHOLD_FAILS
    MaxConcurrent,   \* slots of the semaphore
    HasBroadcaster,  \* TRUE when a broadcaster is registered, as in app.py
    MaxOps           \* bound: start, stop, reconcile and delete calls

ASSUME NoneAssumption == None \notin Gens
ASSUME ThresholdAssumption == Threshold \in Nat \ {0}
ASSUME MaxConcurrentAssumption == MaxConcurrent \in Nat \ {0}
ASSUME HasBroadcasterAssumption == HasBroadcaster \in BOOLEAN
ASSUME MaxOpsAssumption == MaxOps \in Nat
ASSUME FiniteAssumption == IsFiniteSet(Hosts) /\ IsFiniteSet(Gens)

VARIABLES
    hosts,      \* host ids present in the database
    ctl,        \* the lifecycle call in progress: "idle", "starting", "stopping";
                \* "failed" from a start() that raised until the next one
    started,    \* _started
    stopFlag,   \* the _stop event is set
    tasks,      \* _tasks: host -> its current task's generation, or None
    pc,         \* host \X generation -> where that task is suspended
    cancelled,  \* tasks whose cancel() was called and that have not unwound
    slots,      \* free slots of the semaphore
    known,      \* hosts with an entry in _outage_state
    streak,     \* _OutageState.fail_streak, stopped one above Threshold
    inOutage,   \* _OutageState.in_outage
    trail,      \* recorded samples: failures since the last success
    balance,    \* recorded events: outage_start minus outage_end
    torn,       \* hosts with a task cancelled in the middle of an announcement
    ops         \* lifecycle calls and deletions so far

loopVars == <<slots, streak, inOutage, trail, balance>>
ctlVars == <<hosts, ctl, started, stopFlag, tasks, ops>>
vars == <<ctlVars, pc, cancelled, known, torn, loopVars>>

Tasks == Hosts \X Gens

PCs == {"none", "jitter", "acquire", "pinging", "startEvt", "endEvt",
        "sampleEvt", "sleep"}

TypeOK ==
    /\ hosts \in SUBSET Hosts
    /\ ctl \in {"idle", "starting", "stopping", "failed"}
    /\ started \in BOOLEAN
    /\ stopFlag \in BOOLEAN
    /\ tasks \in [Hosts -> Gens \cup {None}]
    /\ pc \in [Tasks -> PCs]
    /\ cancelled \in SUBSET Tasks
    /\ slots \in 0..MaxConcurrent
    /\ known \in SUBSET Hosts
    /\ streak \in [Hosts -> 0..(Threshold + 1)]
    /\ inOutage \in [Hosts -> BOOLEAN]
    /\ trail \in [Hosts -> 0..(Threshold + 1)]
    /\ balance \in [Hosts -> Int]
    /\ torn \in SUBSET Hosts
    /\ ops \in 0..MaxOps

Init ==
    /\ hosts = Hosts
    /\ ctl = "idle"
    /\ started = FALSE
    /\ stopFlag = FALSE
    /\ tasks = [h \in Hosts |-> None]
    /\ pc = [t \in Tasks |-> "none"]
    /\ cancelled = {}
    /\ slots = MaxConcurrent
    /\ known = {}
    /\ streak = [h \in Hosts |-> 0]
    /\ inOutage = [h \in Hosts |-> FALSE]
    /\ trail = [h \in Hosts |-> 0]
    /\ balance = [h \in Hosts |-> 0]
    /\ torn = {}
    /\ ops = 0

-----------------------------------------------------------------------------
(* One iteration of _host_loop.                                            *)

Running(t) == pc[t] # "none" /\ t \notin cancelled

\* Task t, not cancelled, is resumed from the await named p.
At(t, p) == pc[t] = p /\ t \notin cancelled

Goto(t, p) == pc' = [pc EXCEPT ![t] = p]

\* `while not self._stop.is_set()`: the next iteration, or the task's end.
LoopTop == IF stopFlag THEN "none" ELSE "acquire"

\* The await after the outage logic: the sample broadcast, when there is one.
AfterJudging == IF HasBroadcaster THEN "sampleEvt" ELSE "sleep"

OneMore(n) == IF n > Threshold THEN n ELSE n + 1

\* Mutant: every restart of a loop starts from a fresh outage state.
KnownAtBeginFresh(h) == FALSE
\* setdefault: an entry that survived an earlier task of the host is reused.
KnownAtBegin(h) == h \in known

\* The jitter sleep ends; the loop finds or creates the host's outage state.
Begin(t) ==
    LET h == t[1] IN
    /\ At(t, "jitter")
    /\ Goto(t, LoopTop)
    /\ known' = known \cup {h}
    /\ streak' = [streak EXCEPT ![h] = IF KnownAtBegin(h) THEN @ ELSE 0]
    /\ inOutage' = [inOutage EXCEPT ![h] = KnownAtBegin(h) /\ @]
    /\ UNCHANGED <<ctlVars, cancelled, torn, slots, trail, balance>>

\* `async with self.semaphore`, then do_ping starts the subprocess.
Acquire(t) ==
    /\ At(t, "acquire")
    /\ slots > 0
    /\ slots' = slots - 1
    /\ Goto(t, "pinging")
    /\ UNCHANGED <<ctlVars, cancelled, known, torn,
                   streak, inOutage, trail, balance>>

\* do_ping returned: the slot is released and the sample enqueued.
Recorded(t, sampleTrail) ==
    /\ At(t, "pinging")
    /\ slots' = slots + 1
    /\ trail' = [trail EXCEPT ![t[1]] = sampleTrail]
    /\ UNCHANGED <<ctlVars, cancelled, known, torn>>

\* A success while no outage is open.
SampleUp(t) ==
    LET h == t[1] IN
    /\ Recorded(t, 0)
    /\ ~inOutage[h]
    /\ streak' = [streak EXCEPT ![h] = 0]
    /\ Goto(t, AfterJudging)
    /\ UNCHANGED <<inOutage, balance>>

\* A success during an outage: outage_end is enqueued, and the state is reset
\* only after the broadcaster, if there is one, was awaited.
OutageEnds(t) ==
    LET h == t[1] IN
    /\ Recorded(t, 0)
    /\ inOutage[h]
    /\ balance' = [balance EXCEPT ![h] = @ - 1]
    /\ IF HasBroadcaster
       THEN Goto(t, "endEvt") /\ UNCHANGED <<inOutage, streak>>
       ELSE /\ Goto(t, AfterJudging)
            /\ inOutage' = [inOutage EXCEPT ![h] = FALSE]
            /\ streak' = [streak EXCEPT ![h] = 0]

\* This failure is the one that opens an outage.
OpensOutage(h) == OneMore(streak[h]) = Threshold /\ ~inOutage[h]

SampleDown(t) ==
    LET h == t[1] IN
    /\ Recorded(t, OneMore(trail[h]))
    /\ ~OpensOutage(h)
    /\ streak' = [streak EXCEPT ![h] = OneMore(@)]
    /\ Goto(t, AfterJudging)
    /\ UNCHANGED <<inOutage, balance>>

\* The Threshold-th failure in a row: outage_start is enqueued, and in_outage
\* set only after the broadcaster was awaited.
OutageStarts(t) ==
    LET h == t[1] IN
    /\ Recorded(t, OneMore(trail[h]))
    /\ OpensOutage(h)
    /\ streak' = [streak EXCEPT ![h] = OneMore(@)]
    /\ balance' = [balance EXCEPT ![h] = @ + 1]
    /\ IF HasBroadcaster
       THEN Goto(t, "startEvt") /\ UNCHANGED inOutage
       ELSE /\ Goto(t, AfterJudging)
            /\ inOutage' = [inOutage EXCEPT ![h] = TRUE]

\* `except Exception`: the iteration is abandoned before a sample exists.
IterationFails(t) ==
    /\ Recorded(t, trail[t[1]])
    /\ Goto(t, "sleep")
    /\ UNCHANGED <<streak, inOutage, balance>>

PingReturns(t) ==
    SampleUp(t) \/ OutageEnds(t) \/ SampleDown(t) \/ OutageStarts(t)
        \/ IterationFails(t)

\* The event broadcast returned, failed or timed out.
StartAnnounced(t) ==
    /\ At(t, "startEvt")
    /\ inOutage' = [inOutage EXCEPT ![t[1]] = TRUE]
    /\ Goto(t, "sampleEvt")
    /\ UNCHANGED <<ctlVars, cancelled, known, torn,
                   slots, streak, trail, balance>>

EndAnnounced(t) ==
    /\ At(t, "endEvt")
    /\ inOutage' = [inOutage EXCEPT ![t[1]] = FALSE]
    /\ streak' = [streak EXCEPT ![t[1]] = 0]
    /\ Goto(t, "sampleEvt")
    /\ UNCHANGED <<ctlVars, cancelled, known, torn,
                   slots, trail, balance>>

\* The sample broadcast returned, failed or timed out.
SampleAnnounced(t) ==
    /\ At(t, "sampleEvt")
    /\ Goto(t, "sleep")
    /\ UNCHANGED <<ctlVars, cancelled, known, torn, loopVars>>

SleepOver(t) ==
    /\ At(t, "sleep")
    /\ Goto(t, LoopTop)
    /\ UNCHANGED <<ctlVars, cancelled, known, torn, loopVars>>

\* Mutant: every cancelled task gives a slot back, waiting for one or not.
SlotsAfterUnwindAlways(t) == slots + 1
\* Mutant: a cancelled ping keeps its slot.
SlotsAfterUnwindKept(t) == slots
\* Leaving `async with self.semaphore` gives the slot back.
SlotsAfterUnwind(t) == IF pc[t] = "pinging" THEN slots + 1 ELSE slots

\* Mutant: a task waiting for a slot does not see its cancellation.
UnwindsOutsideAcquire(t) == t \in cancelled /\ pc[t] # "acquire"
Unwinds(t) == t \in cancelled

\* A cancelled task is resumed with CancelledError.  (do_ping has no handler for
\* it: a subprocess it was waiting for runs on, outside the semaphore.)
Unwind(t) ==
    /\ Unwinds(t)
    /\ cancelled' = cancelled \ {t}
    /\ Goto(t, "none")
    /\ slots' = SlotsAfterUnwind(t)
    /\ UNCHANGED <<ctlVars, known, torn, streak, inOutage, trail, balance>>

-----------------------------------------------------------------------------
(* start, stop, reconcile: the calls that create and cancel tasks.         *)

Call == ops < MaxOps /\ ops' = ops + 1

\* The current tasks of the hosts in S.
CurrentOf(S) == {t \in Tasks : t[1] \in S /\ tasks[t[1]] = t[2]}

\* Hosts with an entry in _tasks.
Tasked == {h \in Hosts : tasks[h] # None}

\* Hosts with a loop that goes on.
Live == {h \in Hosts : \E g \in Gens : Running(<<h, g>>)}

FreeGens(h) == {g \in Gens : pc[<<h, g>>] = "none"}
NewGen(h) == CHOOSE g \in FreeGens(h) : TRUE

\* _spawn for every host of S; hosts of D lose their entry first.
Spawn(S, D) ==
    /\ \A h \in S : FreeGens(h) # {}
    /\ pc' = [t \in Tasks |->
                IF t[1] \in S /\ t[2] = NewGen(t[1]) THEN "jitter" ELSE pc[t]]
    /\ tasks' = [h \in Hosts |-> IF h \in S THEN NewGen(h)
                                 ELSE IF h \in D THEN None ELSE tasks[h]]

\* task.cancel() on the current tasks of the hosts in S.
Cancel(S) ==
    LET hit == {t \in CurrentOf(S) : pc[t] # "none"} IN
    /\ cancelled' = cancelled \cup hit
    /\ torn' = torn \cup {h \in Hosts : \E t \in hit :
                             t[1] = h /\ pc[t] \in {"startEvt", "endEvt"}}

\* start(): the flag first, then two awaits on the store.
StartBegin ==
    /\ Call
    /\ ctl = "failed" \/ (ctl = "idle" /\ ~started)
    /\ ctl' = "starting"
    /\ started' = TRUE
    /\ UNCHANGED <<hosts, stopFlag, tasks, pc, cancelled, known, torn,
                   loopVars>>

\* Mutant: start() spawns over the loops a concurrent reconcile created.
StartSpawnsAll(wanted) == wanted
StartSpawns(wanted) == wanted \ Tasked

\* start() has its rows: it spawns the wanted hosts that have no task yet.
StartEnd(wanted) ==
    /\ ctl = "starting"
    /\ Spawn(StartSpawns(wanted), {})
    /\ ctl' = "idle"
    /\ UNCHANGED <<hosts, started, stopFlag, cancelled, known, torn,
                   loopVars, ops>>

\* One of those awaits raised; _started stays set.
StartFails ==
    /\ ctl = "starting"
    /\ ctl' = "failed"
    /\ UNCHANGED <<hosts, started, stopFlag, tasks, pc, cancelled, known,
                   torn, loopVars, ops>>

StopBegin ==
    /\ Call
    /\ ctl = "idle" /\ started
    /\ ctl' = "stopping"
    /\ started' = FALSE
    /\ stopFlag' = TRUE
    /\ Cancel(Hosts)
    /\ UNCHANGED <<hosts, tasks, pc, known, loopVars>>

\* Mutant: the event is not cleared, so later loops end after one round.
FlagAfterStopSet == TRUE
FlagAfterStop == FALSE

\* gather() returned: every task that was in _tasks has unwound.
StopEnd ==
    /\ ctl = "stopping"
    /\ \A t \in CurrentOf(Hosts) : pc[t] = "none"
    /\ ctl' = "idle"
    /\ tasks' = [h \in Hosts |-> None]
    /\ stopFlag' = FlagAfterStop
    /\ UNCHANGED <<hosts, started, pc, cancelled, known, torn,
                   loopVars, ops>>

\* Mutant: the outage state of a disabled host is dropped too.
KeptDesired(list, desired) == known \cap desired
\* Outage state is dropped only for hosts that are gone entirely.
Kept(list, desired) == known \cap list

\* Mutant: a restarted or removed host's task is forgotten, not cancelled.
DroppedUncancelled(S) == UNCHANGED <<cancelled, torn>>
Dropped(S) == Cancel(S)

\* Mutant: the second pass sees _tasks as it was before the first.
ReconcileSpawnsNew(desired, changed) == desired \ Tasked
ReconcileSpawns(desired, changed) == (desired \ Tasked) \cup changed

\* reconcile(hosts, disabled_groups): list is the host table as read a moment
\* ago (it may still hold deleted hosts), desired its enabled hosts of enabled
\* groups, changed those of them whose signature changed.
Reconcile(desired) ==
    /\ Call
    /\ started
    /\ \E list \in SUBSET Hosts, changed \in SUBSET (desired \cap Tasked) :
          LET drop == (Tasked \ desired) \cup changed
          IN /\ hosts \cup desired \subseteq list
             /\ Spawn(ReconcileSpawns(desired, changed), drop)
             /\ Dropped(drop)
             /\ known' = Kept(list, desired)
    /\ UNCHANGED <<hosts, ctl, started, stopFlag, loopVars>>

\* DELETE of a host row; its loop runs on until the reconcile that follows.
DeleteHost(h) ==
    /\ Call
    /\ h \in hosts
    /\ hosts' = hosts \ {h}
    /\ UNCHANGED <<ctl, started, stopFlag, tasks, pc, cancelled, known,
                   torn, loopVars>>

-----------------------------------------------------------------------------
LoopStep(t) ==
    Begin(t) \/ Acquire(t) \/ PingReturns(t) \/ StartAnnounced(t)
        \/ EndAnnounced(t) \/ SampleAnnounced(t) \/ SleepOver(t) \/ Unwind(t)

Control ==
    \/ StartBegin \/ StartFails \/ StopBegin \/ StopEnd
    \/ \E S \in SUBSET Hosts : StartEnd(S) \/ Reconcile(S)

Next ==
    \/ \E t \in Tasks : LoopStep(t)
    \/ Control
    \/ \E h \in Hosts : DeleteHost(h)

Spec == Init /\ [][Next]_vars

(* The event loop resumes every ready task, sleeps and timed waits end, and  *)
(* do_ping is bounded by its own timeout and kill.  asyncio.Semaphore wakes  *)
(* its waiters first come first served, so a task that finds a slot free     *)
(* again and again gets one: strong fairness for Acquire.                    *)
Fairness ==
    /\ \A t \in Tasks :
          /\ SF_vars(Acquire(t))
          /\ WF_vars(\/ Begin(t) \/ PingReturns(t) \/ StartAnnounced(t)
                     \/ EndAnnounced(t) \/ SampleAnnounced(t) \/ SleepOver(t)
                     \/ Unwind(t))
    /\ WF_vars(StartFails \/ StopEnd \/ \E S \in SUBSET Hosts : StartEnd(S))

FairSpec == Spec /\ Fairness

-----------------------------------------------------------------------------
(* Safety.                                                                 *)

\* A loop that has not been cancelled is the one _tasks knows for its host:
\* no restart, stop or concurrent start leaves a second loop pinging the same
\* host ("orphan a still running ping loop", pinger.py:253-254).
OneLoopPerHost ==
    \A t \in Tasks : Running(t) => tasks[t[1]] = t[2]

\* The semaphore never leaks or gains a slot, whatever is cancelled when: free
\* slots and tasks inside `async with self.semaphore` add up to its capacity.
SlotsConserved ==
    slots + Cardinality({t \in Tasks : pc[t] = "pinging"}) = MaxConcurrent

\* For a host whose announcements were never cut short by a cancellation, the
\* stored events are exact across restarts, disabling and stop/start: one
\* outage is open iff the last Threshold recorded samples failed.
OutageLogExact ==
    \A h \in hosts \ torn :
        balance[h] = IF trail[h] >= Threshold THEN 1 ELSE 0

\* From the first step of stop() on no loop is left that goes on, also when
\* reconciles ran before and during the call.
StoppedIsQuiet == ~started => Live = {}

\* While the scheduler is started no entry of _tasks stands for a loop that has
\* ended or was cancelled: start() and reconcile() take an entry for a loop and
\* would leave its host without one.
NoDeadTask == started => Tasked \subseteq Live

\* _tasks and the loops that go on are the same, one for each host.
LoopsMatchTasks == OneLoopPerHost /\ StoppedIsQuiet /\ NoDeadTask

\* The hosts pinged are those the last call asked for, whatever the loops were
\* doing when it came: a reconcile leaves just the desired hosts a loop, start()
\* adds the wanted ones, stop() ends all, and no loop ends or begins by itself.
LoopsAreAsAsked ==
    [][/\ \A S \in SUBSET Hosts : /\ Reconcile(S) => Live' = S
                                  /\ StartEnd(S) => Live' = Live \cup S
       /\ StopBegin => Live' = {}
       /\ \/ \E S \in SUBSET Hosts : Reconcile(S) \/ StartEnd(S)
          \/ StopBegin
          \/ Live' = Live]_vars

\* pinger.py:163-166: a task restart "cannot reset it and emit
\* unpaired/duplicate outage events".
NoUnpairedEvents == \A h \in hosts : balance[h] \in {0, 1}

\* Without a broadcaster the loop judges a sample in one step and implements
\* the abstract log.
Log == INSTANCE OutageLog WITH
          trail <- [h \in hosts |-> trail[h]],
          balance <- [h \in hosts |-> balance[h]]

ImplementsOutageLog == Log!Spec

(* Liveness.                                                               *)

\* Every host the scheduler runs a loop for is pinged again and again: no
\* cancellation, restart or stuck broadcast starves the others of slots.
KeepsPinging ==
    \A h \in Hosts : []<>(\/ tasks[h] = None
                          \/ \E g \in Gens : pc[<<h, g>>] = "pinging")

\* stop() returns: each cancelled loop unwinds from whichever await it is at.
StopReturns == (ctl = "stopping") ~> (ctl = "idle")

\* Neither a host that is to be pinged nor a call of stop() waits for ever.
NobodyStarves == KeepsPinging /\ StopReturns
=============================================================================
