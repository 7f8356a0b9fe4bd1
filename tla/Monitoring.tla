----------------------------- MODULE Monitoring -----------------------------
(***************************************************************************)
(* The monitoring controller of src/netping/monitoring.py together with    *)
(* what it interleaves with: the scheduler's start, stop and reconcile     *)
(* (PingScheduler, seen here as the set of hosts with a live loop), the    *)
(* CRUD requests of api.py, each of which commits its edit and then        *)
(* reconciles, the samples, and the auto-stop timer.                       *)
(*                                                                         *)
(* Two locks order these.  _lock of the controller is held across awaits   *)
(* by start, stop, auto-stop, the counting of a sample, and the last part  *)
(* of a reconcile; reconcile_lock of the application is held by a whole    *)
(* reconcile.  scheduler.start runs under the first, scheduler.reconcile   *)
(* under the second: neither excludes the other.                           *)
(***************************************************************************)
EXTENDS Integers, FiniteSets

CONSTANTS
    Hosts,     \* host ids
    Requests,  \* API requests that may be in flight together
    Limit,     \* packet_limit of a packet-limited run
    MaxEdits,  \* bound: edits of the host table
    MaxOps,    \* bound: start and stop requests
    MaxNotes,  \* bound: counting tasks of one host and run in flight
    MaxFaults  \* bound: database reads that raise

ASSUME LimitAssumption == Limit \in Nat \ {0}
ASSUME BoundsAssumption ==
    {MaxEdits, MaxOps, MaxNotes, MaxFaults} \subseteq Nat

VARIABLES
    pingable,  \* database: enabled hosts whose group is enabled
    loops,     \* scheduler: hosts with a loop that was not cancelled
    started,   \* scheduler: _started
    mon,       \* who holds _lock and where it is suspended; "free" if nobody
    snap,      \* rows read by the start() in progress
    active,    \* _active
    mode,      \* _limit_mode: "duration", "infinite", "packets"
    run,       \* _run_id
    targets,   \* _packet_target_ids
    counts,    \* _packet_counts
    notes,     \* host -> run id -> _note_sample tasks waiting for _lock
    timer,     \* _auto_stop: "none", "armed", "expired" (waiting for _lock)
    req,       \* request -> "idle", "edited", "read", "applied"
    rows,      \* request -> rows read by its reconcile
    down,      \* shutdown(): "no", "stopping", "done"
    attempts,  \* host -> samples recorded in the current run, up to Limit + 1
    half,      \* a start() raised after _started was set, none succeeded since
    behind,    \* a reconcile raised, its edit committed; none ran since
    edits, ops, faults

ctlVars == <<mon, snap, active, mode, run, targets, counts, notes, timer>>
schedVars == <<loops, started>>
reqVars == <<pingable, req, rows, edits, behind>>
faultVars == <<half, faults>>
vars == <<ctlVars, schedVars, reqVars, faultVars, down, attempts, ops>>

Runs == 0..(MaxOps + 1)
NoCounts == [h \in Hosts |-> 0]

TypeOK ==
    /\ pingable \in SUBSET Hosts
    /\ loops \in SUBSET Hosts
    /\ started \in BOOLEAN
    /\ mon \in {"free", "startTargets", "startHosts", "startSpawn",
                "stop", "limitStop", "autoStop"}
    /\ snap \in SUBSET Hosts
    /\ active \in BOOLEAN
    /\ mode \in {"duration", "infinite", "packets"}
    /\ run \in Runs
    /\ targets \in SUBSET Hosts
    /\ counts \in [Hosts -> 0..Limit]
    /\ notes \in [Hosts -> [Runs -> 0..MaxNotes]]
    /\ timer \in {"none", "armed", "expired"}
    /\ req \in [Requests -> {"idle", "edited", "read", "applied"}]
    /\ rows \in [Requests -> SUBSET Hosts]
    /\ down \in {"no", "stopping", "done"}
    /\ attempts \in [Hosts -> 0..(Limit + 1)]
    /\ half \in BOOLEAN /\ behind \in BOOLEAN
    /\ edits \in 0..MaxEdits
    /\ ops \in 0..MaxOps
    /\ faults \in 0..MaxFaults

Init ==
    /\ pingable \in SUBSET Hosts
    /\ loops = {} /\ started = FALSE
    /\ mon = "free" /\ snap = {}
    /\ active = FALSE /\ mode = "duration" /\ run = 0
    /\ targets = {} /\ counts = NoCounts
    /\ notes = [h \in Hosts |-> [r \in Runs |-> 0]]
    /\ timer = "none"
    /\ req = [r \in Requests |-> "idle"]
    /\ rows = [r \in Requests |-> {}]
    /\ down = "no"
    /\ attempts = NoCounts
    /\ half = FALSE /\ behind = FALSE
    /\ edits = 0 /\ ops = 0 /\ faults = 0

-----------------------------------------------------------------------------
(* start()                                                                 *)

Operator == down = "no" /\ ops < MaxOps /\ ops' = ops + 1

\* The lock is taken; a packet limit makes start() read its targets first.
StartPackets ==
    /\ Operator
    /\ mon = "free" /\ ~active
    /\ timer' = "none"
    /\ run' = run + 1
    /\ targets' = {} /\ counts' = NoCounts /\ mode' = "duration"
    /\ snap' = pingable
    /\ mon' = "startTargets"
    /\ attempts' = NoCounts
    /\ UNCHANGED <<active, notes, schedVars, reqVars, faultVars, down>>

\* Mutant: scheduler.start() sets _started only when it has its rows.
StartedDuringReadLate == FALSE
StartedDuringRead == TRUE

\* scheduler.start(): from here on reconcile() is no longer a no-op.
StartUnlimited(m) ==
    /\ Operator
    /\ mon = "free" /\ ~active
    /\ timer' = "none"
    /\ run' = run + 1
    /\ targets' = {} /\ counts' = NoCounts /\ mode' = m
    /\ started' = StartedDuringRead
    /\ mon' = "startHosts"
    /\ attempts' = NoCounts
    /\ UNCHANGED <<snap, active, notes, loops, reqVars, faultVars, down>>

StartTargets ==
    /\ mon = "startTargets"
    /\ targets' = snap /\ counts' = NoCounts /\ mode' = "packets"
    /\ started' = StartedDuringRead
    /\ mon' = "startHosts"
    /\ UNCHANGED <<snap, active, run, notes, timer, loops, reqVars, faultVars,
                   down, attempts, ops>>

\* list_hosts and disabled_group_names are answered.
StartHosts ==
    /\ mon = "startHosts"
    /\ snap' = pingable
    /\ mon' = "startSpawn"
    /\ UNCHANGED <<active, mode, run, targets, counts, notes, timer, schedVars,
                   reqVars, faultVars, down, attempts, ops>>

\* Mutant: the timer is armed for the wrong kind of run.
ArmedForPackets == mode = "packets"
\* start() without a limit argument is the timed run.
Armed == mode = "duration"

\* The rest of scheduler.start and of start(), up to the release of the lock.
StartSpawn ==
    /\ mon = "startSpawn"
    /\ loops' = loops \cup snap
    /\ started' = TRUE
    /\ active' = TRUE
    /\ timer' = IF Armed THEN "armed" ELSE "none"
    /\ mon' = "free"
    /\ half' = FALSE
    /\ UNCHANGED <<snap, mode, run, targets, counts, notes, reqVars, down,
                   attempts, ops, faults>>

Fault == faults < MaxFaults /\ faults' = faults + 1

\* A read raised: the lock is released and the request answers 500.  In
\* scheduler.start, _started is already set and nothing resets it.
StartFails ==
    /\ Fault
    /\ mon \in {"startTargets", "startHosts"}
    /\ half' = (half \/ mon = "startHosts")
    /\ mon' = "free"
    /\ UNCHANGED <<snap, active, mode, run, targets, counts, notes, timer,
                   schedVars, reqVars, down, attempts, ops>>

-----------------------------------------------------------------------------
(* Every way a run ends.                                                   *)

\* scheduler.stop(): the flag, then the cancellation of every loop.
SchedulerStops == started' = FALSE /\ loops' = {}

Cleared == mode' = "duration" /\ targets' = {} /\ counts' = NoCounts

\* Mutant: stop() forgets the timer.
TimerAfterStopKept == timer
TimerAfterStop == "none"

\* stop() takes the lock.
Stop ==
    /\ Operator
    /\ mon = "free"
    /\ run' = run + 1
    /\ timer' = TimerAfterStop
    /\ IF active
       THEN /\ SchedulerStops
            /\ mon' = "stop"
            /\ UNCHANGED <<mode, targets, counts>>
       ELSE /\ Cleared
            /\ UNCHANGED <<mon, schedVars>>
    /\ UNCHANGED <<snap, active, notes, reqVars, faultVars, down, attempts>>

\* Mutant: the stop at the limit waits for the lock its caller holds.
StoppingSelfLocked == {"stop", "autoStop"}
Stopping == {"stop", "limitStop", "autoStop"}

\* The loops have unwound: scheduler.stop() returns to whoever called it.
\* Auto-stop does not clear the packet limit; its run has none.
Stopped ==
    /\ mon \in Stopping
    /\ active' = FALSE
    /\ mon' = "free"
    /\ IF mon = "autoStop" THEN UNCHANGED <<mode, targets, counts>>
                           ELSE Cleared
    /\ UNCHANGED <<snap, run, notes, timer, schedVars, reqVars, faultVars,
                   down, attempts, ops>>

\* The timer's sleep is over.
TimerExpires ==
    /\ timer = "armed"
    /\ timer' = "expired"
    /\ UNCHANGED <<mon, snap, active, mode, run, targets, counts, notes,
                   schedVars, reqVars, faultVars, down, attempts, ops>>

\* _auto_stop gets the lock.
AutoStop ==
    /\ timer = "expired"
    /\ mon = "free"
    /\ timer' = "none"
    /\ IF active THEN SchedulerStops /\ mon' = "autoStop"
                 ELSE UNCHANGED <<schedVars, mon>>
    /\ UNCHANGED <<snap, active, mode, run, targets, counts, notes, reqVars,
                   faultVars, down, attempts, ops>>

\* Mutant: one host that reached the limit is enough.
AllReachedAny(T, c) == \E h \in T : c[h] >= Limit
\* Mutant: the limit must be exceeded, which a capped count never does.
AllReachedOffByOne(T, c) == T # {} /\ \A h \in T : c[h] > Limit
\* _stop_if_packet_limit_reached_locked, on the new counts c of the targets T.
AllReached(T, c) == T # {} /\ \A h \in T : c[h] >= Limit

StopIfReached(T, c) ==
    IF AllReached(T, c)
    THEN SchedulerStops /\ mon' = "limitStop"
    ELSE UNCHANGED <<schedVars, mon>>

-----------------------------------------------------------------------------
(* Samples and their counting.                                             *)

\* A loop records a sample and calls note_sample, which starts a counting task
\* stamped with the current run.
Sample(h) ==
    /\ h \in loops
    /\ notes[h][run] < MaxNotes
    /\ attempts' = [attempts EXCEPT ![h] = IF @ > Limit THEN @ ELSE @ + 1]
    /\ notes' = IF active /\ mode = "packets"
                THEN [notes EXCEPT ![h][run] = @ + 1] ELSE notes
    /\ UNCHANGED <<mon, snap, active, mode, run, targets, counts, timer,
                   schedVars, reqVars, faultVars, down, ops>>

\* Mutant: a sample of an earlier run is counted.
CountsForAnyRun(h, r) == active /\ mode = "packets" /\ h \in targets
CountsFor(h, r) ==
    r = run /\ active /\ mode = "packets" /\ h \in targets

\* Mutant: the count goes past the limit while another host is behind.
CountedUncapped(n) == n + 1
Counted(n) == IF n < Limit THEN n + 1 ELSE n

\* _note_sample gets the lock.
NoteSample(h, r) ==
    LET c == [counts EXCEPT ![h] = Counted(@)] IN
    /\ notes[h][r] > 0
    /\ mon = "free"
    /\ notes' = [notes EXCEPT ![h][r] = @ - 1]
    /\ IF CountsFor(h, r)
       THEN counts' = c /\ StopIfReached(targets, c)
       ELSE UNCHANGED <<counts, schedVars, mon>>
    /\ UNCHANGED <<snap, active, mode, run, targets, timer, reqVars, faultVars,
                   down, attempts, ops>>

-----------------------------------------------------------------------------
(* A request: the edit is committed, then _reconcile runs.                 *)

ReconcileLocked == \E r \in Requests : req[r] \in {"read", "applied"}

\* The handler committed a change of one host, or of its group.
Edit(r, h) ==
    /\ down = "no"
    /\ edits < MaxEdits /\ edits' = edits + 1
    /\ req[r] = "idle"
    /\ req' = [req EXCEPT ![r] = "edited"]
    /\ pingable' = (pingable \cup {h}) \ (pingable \cap {h})
    /\ UNCHANGED <<rows, behind, ctlVars, schedVars, faultVars, down, attempts,
                   ops>>

\* Mutant: reconcile works on rows read before it had the lock.
ReadsFreshUnlocked == TRUE
ReadsFresh == ~ReconcileLocked

\* reconcile_lock is taken and the rows are read.
ReconcileReads(r) ==
    /\ req[r] = "edited"
    /\ ReadsFresh
    /\ rows' = [rows EXCEPT ![r] = pingable]
    /\ req' = [req EXCEPT ![r] = "read"]
    /\ behind' = FALSE
    /\ UNCHANGED <<pingable, edits, ctlVars, schedVars, faultVars, down,
                   attempts, ops>>

\* Reading the rows raised: the edit stays committed, the request answers 500.
ReconcileFails(r) ==
    /\ Fault
    /\ req[r] = "edited"
    /\ ReadsFresh
    /\ req' = [req EXCEPT ![r] = "idle"]
    /\ behind' = TRUE
    /\ UNCHANGED <<pingable, rows, edits, half, ctlVars, schedVars, down,
                   attempts, ops>>

\* Mutant: the loops of hosts that are gone are not cancelled.
ReconciledLoopsAdded(r) == IF started THEN loops \cup rows[r] ELSE loops
\* Mutant: reconcile() spawns for a scheduler that is not started.
ReconciledLoopsAlways(r) == rows[r]
ReconciledLoops(r) == IF started THEN rows[r] ELSE loops

\* scheduler.reconcile(): cancels and spawns; a no-op unless started.
ReconcileLoops(r) ==
    /\ req[r] = "read"
    /\ loops' = ReconciledLoops(r)
    /\ req' = [req EXCEPT ![r] = "applied"]
    /\ UNCHANGED <<pingable, rows, edits, behind, ctlVars, started, faultVars,
                   down, attempts, ops>>

\* reconcile_packet_targets() gets the controller's lock; a run whose
\* remaining targets have all reached the limit ends here.  The request
\* returns when the lock is free again, releasing reconcile_lock.
ReconcileTargets(r) ==
    LET c == [h \in Hosts |-> IF h \in rows[r] THEN counts[h] ELSE 0] IN
    /\ req[r] = "applied"
    /\ mon = "free"
    /\ req' = [req EXCEPT ![r] = "idle"]
    /\ IF active /\ mode = "packets"
       THEN /\ targets' = rows[r]
            /\ counts' = c
            /\ StopIfReached(rows[r], c)
       ELSE UNCHANGED <<targets, counts, schedVars, mon>>
    /\ UNCHANGED <<pingable, rows, edits, behind, snap, active, mode, run,
                   notes, timer,
                   faultVars, down, attempts, ops>>

-----------------------------------------------------------------------------
(* shutdown() does not take the lock.  The server has finished its requests  *)
(* by then; counting tasks and auto-stop may be anywhere.                    *)

\* Mutant: shutdown() leaves a timed run to the timer it has just cancelled.
ShutdownStopsLazy ==
    IF active /\ timer # "armed" THEN SchedulerStops ELSE UNCHANGED schedVars
ShutdownStops == IF active THEN SchedulerStops ELSE UNCHANGED schedVars

ShutdownBegin ==
    /\ down = "no"
    /\ \A r \in Requests : req[r] = "idle"
    /\ mon \in {"free", "limitStop", "autoStop"}
    /\ run' = run + 1
    /\ timer' = "none"
    /\ mon' = IF mon = "autoStop" THEN "free" ELSE mon
    /\ down' = "stopping"
    /\ ShutdownStops
    /\ UNCHANGED <<snap, active, mode, targets, counts, notes, reqVars,
                   faultVars, attempts, ops>>

\* The counting tasks are cancelled and awaited, one in mid-stop included.
ShutdownEnd ==
    /\ down = "stopping"
    /\ down' = "done"
    /\ active' = FALSE
    /\ mon' = "free"
    /\ notes' = [h \in Hosts |-> [r \in Runs |-> 0]]
    /\ Cleared
    /\ UNCHANGED <<snap, run, timer, schedVars, reqVars, faultVars, attempts,
                   ops>>

-----------------------------------------------------------------------------
Starting == {"startTargets", "startHosts", "startSpawn"}
StartStep == StartTargets \/ StartHosts \/ StartSpawn \/ StartFails

Next ==
    \/ StartPackets \/ StartUnlimited("duration") \/ StartUnlimited("infinite")
    \/ StartStep
    \/ Stop \/ Stopped
    \/ TimerExpires \/ AutoStop
    \/ \E h \in Hosts : Sample(h)
    \/ \E h \in Hosts, r \in Runs : NoteSample(h, r)
    \/ \E r \in Requests : \/ \E h \in Hosts : Edit(r, h)
                           \/ ReconcileReads(r) \/ ReconcileFails(r)
                           \/ ReconcileLoops(r)
                           \/ ReconcileTargets(r)
    \/ ShutdownBegin \/ ShutdownEnd

Spec == Init /\ [][Next]_vars

(* Database reads, sleeps and gathers end; both locks are asyncio.Locks,    *)
(* which serve their waiters in order: strong fairness for taking them.     *)
Fairness ==
    /\ WF_vars(StartStep) /\ WF_vars(Stopped) /\ WF_vars(TimerExpires)
    /\ SF_vars(AutoStop)
    /\ \A h \in Hosts : WF_vars(Sample(h))
    /\ \A h \in Hosts : SF_vars(\E r \in Runs : NoteSample(h, r))
    /\ \A r \in Requests : /\ SF_vars(ReconcileReads(r) \/ ReconcileFails(r))
                           /\ WF_vars(ReconcileLoops(r))
                           /\ SF_vars(ReconcileTargets(r))
    /\ WF_vars(ShutdownEnd)

FairSpec == Spec /\ Fairness

-----------------------------------------------------------------------------
(* Safety.                                                                 *)

\* Whenever the controller's lock is free, what the UI is told (_active) and
\* whether the scheduler runs are the same, and a stopped controller has no
\* loop left, whatever reconciles ran during start() and stop().  A start()
\* that raised half-way is the one exception, until the next one succeeds.
ActiveMatchesScheduler ==
    mon = "free" /\ down = "no" =>
        /\ active => started
        /\ ~active /\ ~half => ~started /\ loops = {}

\* Once shutdown() has returned, and the store is closed (app.py:119-120), no
\* loop records a sample that nobody would flush, wherever an auto-stop, a
\* stop at the limit or a counting task was when shutdown() overtook it.
QuietAfterShutdown == down = "done" /\ ~half => ~started /\ loops = {}

\* In both cases: no loop runs behind the back of a controller at rest.
NoLoopBehindItsBack == ActiveMatchesScheduler /\ QuietAfterShutdown

\* Samples counted towards the packet limit were recorded in this run: a
\* counting task that was waiting for the lock while the run was stopped and
\* started again counts for nothing.
CountsAreThisRun == \A h \in Hosts : counts[h] <= attempts[h]

\* The limit ends a run only after every host still targeted was pinged Limit
\* times in it.
LimitStopIsDue ==
    [][mon' = "limitStop" /\ mon # "limitStop" =>
          targets' # {} /\ \A h \in targets' : attempts[h] >= Limit]_vars

\* A timer is pending only for the run that armed it: neither a stopped
\* controller nor a packet-limited or unlimited run can be auto-stopped.
TimerBelongsToRun ==
    mon = "free" /\ timer # "none" => active /\ mode = "duration"

\* A stop and a start in between hand nothing on: neither counts nor timers.
NothingOutlivesItsRun == CountsAreThisRun /\ TimerBelongsToRun

\* Where the run is: while the lock is held, in what the holder is doing.
Phase ==
    IF mon \in Starting THEN "starting"
    ELSE IF half THEN "failed"
    ELSE IF down # "no" THEN "down"
    ELSE CASE mon = "stop"      -> "asked"
           [] mon = "limitStop" -> "limit"
           [] mon = "autoStop"  -> "time"
           [] mon = "free"      -> IF active THEN "on" ELSE "off"
RunKind == IF active /\ down = "no" THEN mode ELSE "none"
RunTargets == IF RunKind = "packets" THEN targets ELSE {}

\* Locks, counting tasks, timers, reconciles and failing reads hide a run that
\* pings nobody once it has ended, and that ends by itself for the reason of its
\* own kind: at the limit when every target was pinged that often in this very
\* run, by the timer when it is a timed one.
Promise == INSTANCE MonitoringRun WITH
              phase <- Phase,
              kind <- RunKind,
              targets <- RunTargets,
              pinged <- attempts

ImplementsRun == Promise!Spec

Quiescent ==
    /\ mon = "free" /\ down = "no" /\ ~behind
    /\ \A r \in Requests : req[r] = "idle"

\* When nothing is in flight and no reconcile failed, the hosts that a
\* packet-limited run counts are the pingable ones, whatever order requests
\* and start() ran in.
TargetsConverge ==
    Quiescent /\ active /\ mode = "packets" => targets = pingable

\* When nothing is in flight and no reconcile failed, every pingable host of a
\* running scheduler has a loop: an edit that ran during start() is not
\* forgotten.
NoHostForgotten == Quiescent /\ active => pingable \subseteq loops

\* A host that is pinged although nobody wants it pinged any more is one whose
\* row start() read before the edit: no later reconcile brings one back or
\* leaves one over.
StraysWereRead == Quiescent /\ active => loops \subseteq pingable \cup snap

\* What is counted and what is pinged come to agree with what is stored, though
\* the two are reconciled one after the other and under different locks.
RunConverges == TargetsConverge /\ NoHostForgotten /\ StraysWereRead

\* README.md, monitoring modes: "Disabled hosts and paused groups are excluded
\* from the active run."
DisabledHostsExcluded == Quiescent /\ active => loops \subseteq pingable

(* Liveness.                                                               *)

\* Every request that committed an edit returns: no cycle of the two locks.
RequestsReturn == \A r \in Requests : (req[r] # "idle") ~> (req[r] = "idle")

\* A packet-limited run ends by itself unless nothing is left to count.  A
\* reconcile that failed may leave a target without a loop: start() read its
\* targets before the edit and its hosts after it.
PacketRunEnds ==
    (active /\ mode = "packets") ~> (~active \/ targets = {} \/ behind)

\* A timed run ends by itself.
TimedRunEnds == (active /\ mode = "duration") ~> ~active

\* A run that is limited, in packets or in time, ends by itself.
LimitedRunsEnd == PacketRunEnds /\ TimedRunEnds
=============================================================================
