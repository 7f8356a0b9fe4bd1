-------------------------- MODULE Monitoring_proof --------------------------
(***************************************************************************)
(* Monitoring: the types, and the safety properties of the controller, for *)
(* any sets of hosts and requests, any packet limit and any bounds.        *)
(***************************************************************************)
EXTENDS Monitoring, TLAPS

-----------------------------------------------------------------------------
(* Types.  The run number stays within Runs because every operation, and    *)
(* the shutdown once, increments it.                                        *)

RunsCounted == run = IF down = "no" THEN ops ELSE ops + 1

Typed == TypeOK /\ RunsCounted

LEMMA RunsAreNumbers ==
    /\ Limit \in Nat \ {0} /\ MaxEdits \in Nat /\ MaxOps \in Nat
    /\ MaxNotes \in Nat /\ MaxFaults \in Nat
BY LimitAssumption, BoundsAssumption

LEMMA NoCountsTyped ==
    /\ NoCounts \in [Hosts -> 0..Limit]
    /\ NoCounts \in [Hosts -> 0..(Limit + 1)]
BY RunsAreNumbers DEF NoCounts

LEMMA NoNotesTyped ==
    [h \in Hosts |-> [r \in Runs |-> 0]] \in [Hosts -> [Runs -> 0..MaxNotes]]
<1>1. [r \in Runs |-> 0] \in [Runs -> 0..MaxNotes]
  BY RunsAreNumbers
<1> QED BY <1>1

LEMMA TypedInit == Init => Typed
<1>1. 0 \in Runs
  BY RunsAreNumbers DEF Runs
<1>2. /\ [r \in Requests |-> "idle"]
            \in [Requests -> {"idle", "edited", "read", "applied"}]
      /\ [r \in Requests |-> {}] \in [Requests -> SUBSET Hosts]
  OBVIOUS
<1>3. 0 \in 0..MaxEdits /\ 0 \in 0..MaxOps /\ 0 \in 0..MaxFaults
  BY RunsAreNumbers
<1> SUFFICES ASSUME Init PROVE Typed
  OBVIOUS
<1>4. notes \in [Hosts -> [Runs -> 0..MaxNotes]]
  BY NoNotesTyped DEF Init
<1>5. counts \in [Hosts -> 0..Limit] /\ attempts \in [Hosts -> 0..(Limit + 1)]
  BY NoCountsTyped DEF Init
<1>6. RunsCounted
  BY DEF Init, RunsCounted
<1> QED BY <1>1, <1>2, <1>3, <1>4, <1>5, <1>6 DEF Init, Typed, TypeOK

\* An operation has a run number to give.
LEMMA RunIncrements ==
    ASSUME Typed, Operator
    PROVE  /\ run + 1 \in Runs /\ ops' \in 0..MaxOps
           /\ run + 1 = ops' /\ down = "no"
BY RunsAreNumbers DEF Typed, TypeOK, RunsCounted, Runs, Operator

LEMMA TypedNext ==
    ASSUME Typed, [Next]_vars
    PROVE  Typed'
<1> USE RunsAreNumbers, NoCountsTyped
<1> USE DEF Typed, TypeOK, RunsCounted
<1>1. CASE StartPackets
  BY <1>1, RunIncrements DEF StartPackets, schedVars, reqVars, faultVars
<1>2. ASSUME NEW m \in {"duration", "infinite"}, StartUnlimited(m)
      PROVE  Typed'
  BY <1>2, RunIncrements
     DEF StartUnlimited, StartedDuringRead, reqVars, faultVars
<1>3. CASE StartTargets
  BY <1>3 DEF StartTargets, StartedDuringRead, reqVars, faultVars
<1>4. CASE StartHosts
  BY <1>4 DEF StartHosts, schedVars, reqVars, faultVars
<1>5. CASE StartSpawn
  BY <1>5 DEF StartSpawn, Armed, reqVars
<1>6. CASE StartFails
  BY <1>6 DEF StartFails, Fault, schedVars, reqVars
<1>7. CASE Stop
  BY <1>7, RunIncrements
     DEF Stop, SchedulerStops, Cleared, TimerAfterStop, schedVars, reqVars,
         faultVars
<1>8. CASE Stopped
  BY <1>8 DEF Stopped, Cleared, schedVars, reqVars, faultVars
<1>9. CASE TimerExpires
  BY <1>9 DEF TimerExpires, schedVars, reqVars, faultVars
<1>10. CASE AutoStop
  BY <1>10 DEF AutoStop, SchedulerStops, schedVars, reqVars, faultVars
<1>11. ASSUME NEW h \in Hosts, Sample(h)
       PROVE  Typed'
  <2>1. attempts' \in [Hosts -> 0..(Limit + 1)]
    BY <1>11 DEF Sample
  <2>2. notes' \in [Hosts -> [Runs -> 0..MaxNotes]]
    BY <1>11 DEF Sample
  <2> QED BY <1>11, <2>1, <2>2 DEF Sample, schedVars, reqVars, faultVars
<1>12. ASSUME NEW h \in Hosts, NEW r \in Runs, NoteSample(h, r)
       PROVE  Typed'
  <2>1. notes' \in [Hosts -> [Runs -> 0..MaxNotes]]
    BY <1>12 DEF NoteSample
  <2>2. counts' \in [Hosts -> 0..Limit]
    BY <1>12 DEF NoteSample, Counted
  <2> QED BY <1>12, <2>1, <2>2
          DEF NoteSample, StopIfReached, SchedulerStops, schedVars, reqVars,
              faultVars
<1>13. ASSUME NEW r \in Requests, NEW h \in Hosts, Edit(r, h)
       PROVE  Typed'
  BY <1>13 DEF Edit, ctlVars, schedVars, faultVars
<1>14. ASSUME NEW r \in Requests, ReconcileReads(r)
       PROVE  Typed'
  <2>1. rows' \in [Requests -> SUBSET Hosts] /\ behind' \in BOOLEAN
    BY <1>14 DEF ReconcileReads
  <2>2. req' \in [Requests -> {"idle", "edited", "read", "applied"}]
    BY <1>14 DEF ReconcileReads
  <2>3. UNCHANGED <<pingable, edits, mon, snap, active, mode, run, targets, counts,
                    notes, timer, loops, started, half, faults, down, attempts, ops>>
    BY <1>14 DEF ReconcileReads, ctlVars, schedVars, faultVars
  <2> QED BY <2>1, <2>2, <2>3
<1>15. ASSUME NEW r \in Requests, ReconcileFails(r)
       PROVE  Typed'
  BY <1>15 DEF ReconcileFails, Fault, ctlVars, schedVars
<1>16. ASSUME NEW r \in Requests, ReconcileLoops(r)
       PROVE  Typed'
  BY <1>16 DEF ReconcileLoops, ReconciledLoops, ctlVars, faultVars
<1>17. ASSUME NEW r \in Requests, ReconcileTargets(r)
       PROVE  Typed'
  <2>1. [h \in Hosts |-> IF h \in rows[r] THEN counts[h] ELSE 0]
            \in [Hosts -> 0..Limit]
    OBVIOUS
  <2>2. counts' \in [Hosts -> 0..Limit]
    BY <1>17, <2>1 DEF ReconcileTargets
  <2>3. targets' \in SUBSET Hosts /\ loops' \in SUBSET Hosts
    BY <1>17 DEF ReconcileTargets, StopIfReached, SchedulerStops, schedVars
  <2> QED BY <1>17, <2>2, <2>3
          DEF ReconcileTargets, StopIfReached, SchedulerStops, schedVars,
              faultVars
<1>18. CASE ShutdownBegin
  <2>1. run + 1 \in Runs
    BY <1>18 DEF ShutdownBegin, Runs
  <2> QED BY <1>18, <2>1
          DEF ShutdownBegin, ShutdownStops, SchedulerStops, schedVars,
              reqVars, faultVars
<1>19. CASE ShutdownEnd
  BY <1>19, NoNotesTyped DEF ShutdownEnd, Cleared, schedVars, reqVars, faultVars
<1>20. CASE UNCHANGED vars
  BY <1>20 DEF vars, ctlVars, schedVars, reqVars, faultVars
<1> QED BY <1>1, <1>2, <1>3, <1>4, <1>5, <1>6, <1>7, <1>8, <1>9, <1>10, <1>11,
           <1>12, <1>13, <1>14, <1>15, <1>16, <1>17, <1>18, <1>19, <1>20
        DEF Next, StartStep

LEMMA AlwaysTyped == Spec => []Typed
<1>1. Typed /\ [Next]_vars => Typed'
  BY TypedNext
<1> QED BY TypedInit, <1>1, PTL DEF Spec

\* The controller, the scheduler and the requests keep their types; the run
\* number (_run_id) never leaves its range.
THEOREM TypeCorrect == Spec => []TypeOK
<1>1. Typed => TypeOK
  BY DEF Typed
<1> QED BY AlwaysTyped, <1>1, PTL

-----------------------------------------------------------------------------
(* The controller and the scheduler.  What holds while the lock is free is   *)
(* not inductive: it follows from what holds while start(), stop() or a      *)
(* shutdown is under way.                                                    *)

\* A start in progress has not announced itself and nothing can shut down.
StartHolds == mon \in Starting => ~active /\ down = "no"

\* Scheduler.reconcile() spawns from the moment start() has set _started.
StartedHolds ==
    /\ mon \in {"startHosts", "startSpawn"} => started
    /\ mon = "free" /\ down = "no" /\ active => started

\* A stop in progress has emptied the scheduler, and so has a shutdown.
StopHolds ==
    /\ mon \in Stopping => active /\ ~started /\ loops = {}
    /\ down # "no" /\ ~half => ~started /\ loops = {}
    /\ mon \in {"free", "startTargets"} /\ ~active /\ ~half =>
           ~started /\ loops = {}
    /\ ~started => loops = {}

\* The timer is there only while the run that armed it is.
TimerHolds ==
    /\ timer # "none" => mon = "free" /\ active /\ mode = "duration"
    /\ down # "no" => timer = "none"

\* A start that raised is not forgotten before the next one has succeeded.
HalfHolds == half => ~active

CtlInv == StartHolds /\ StartedHolds /\ StopHolds /\ TimerHolds /\ HalfHolds

LEMMA CtlInit == Init => CtlInv
BY DEF Init, CtlInv, StartHolds, StartedHolds, StopHolds, TimerHolds, HalfHolds,
       Starting, Stopping

LEMMA CtlNext ==
    ASSUME TypeOK, CtlInv, [Next]_vars
    PROVE  CtlInv'
<1> USE DEF CtlInv, StartHolds, StartedHolds, StopHolds, TimerHolds, HalfHolds,
            Starting, Stopping
<1>1. CASE StartPackets
  BY <1>1 DEF StartPackets, Operator, schedVars, reqVars, faultVars
<1>2. ASSUME NEW m \in {"duration", "infinite"}, StartUnlimited(m)
      PROVE  CtlInv'
  BY <1>2 DEF StartUnlimited, Operator, StartedDuringRead, reqVars, faultVars
<1>3. CASE StartTargets
  BY <1>3 DEF StartTargets, StartedDuringRead, reqVars, faultVars
<1>4. CASE StartHosts
  BY <1>4 DEF StartHosts, schedVars, reqVars, faultVars
<1>5. CASE StartSpawn
  BY <1>5 DEF StartSpawn, Armed, reqVars
<1>6. CASE StartFails
  BY <1>6 DEF StartFails, Fault, schedVars, reqVars
<1>7. CASE Stop
  BY <1>7 DEF Stop, Operator, SchedulerStops, Cleared, TimerAfterStop,
              schedVars, reqVars, faultVars
<1>8. CASE Stopped
  BY <1>8 DEF Stopped, Cleared, schedVars, reqVars, faultVars
<1>9. CASE TimerExpires
  BY <1>9 DEF TimerExpires, schedVars, reqVars, faultVars
<1>10. CASE AutoStop
  BY <1>10 DEF AutoStop, SchedulerStops, schedVars, reqVars, faultVars
<1>11. ASSUME NEW h \in Hosts, Sample(h)
       PROVE  CtlInv'
  BY <1>11 DEF Sample, schedVars, reqVars, faultVars
<1>12. ASSUME NEW h \in Hosts, NEW r \in Runs, NoteSample(h, r)
       PROVE  CtlInv'
  BY <1>12 DEF NoteSample, CountsFor, StopIfReached, SchedulerStops, schedVars,
               reqVars, faultVars
<1>13. ASSUME NEW r \in Requests, NEW h \in Hosts, Edit(r, h)
       PROVE  CtlInv'
  BY <1>13 DEF Edit, ctlVars, schedVars, faultVars
<1>14. ASSUME NEW r \in Requests, ReconcileReads(r)
       PROVE  CtlInv'
  BY <1>14 DEF ReconcileReads, ctlVars, schedVars, faultVars
<1>15. ASSUME NEW r \in Requests, ReconcileFails(r)
       PROVE  CtlInv'
  BY <1>15 DEF ReconcileFails, ctlVars, schedVars
<1>16. ASSUME NEW r \in Requests, ReconcileLoops(r)
       PROVE  CtlInv'
  BY <1>16 DEF ReconcileLoops, ReconciledLoops, ctlVars, faultVars
<1>17. ASSUME NEW r \in Requests, ReconcileTargets(r)
       PROVE  CtlInv'
  BY <1>17 DEF ReconcileTargets, StopIfReached, SchedulerStops, schedVars,
               faultVars
<1>18. CASE ShutdownBegin
  BY <1>18 DEF ShutdownBegin, ShutdownStops, SchedulerStops, schedVars, reqVars,
               faultVars
<1>19. CASE ShutdownEnd
  BY <1>19 DEF ShutdownEnd, TypeOK, Cleared, schedVars, reqVars, faultVars
<1>20. CASE UNCHANGED vars
  BY <1>20 DEF vars, ctlVars, schedVars, reqVars, faultVars
<1> QED BY <1>1, <1>2, <1>3, <1>4, <1>5, <1>6, <1>7, <1>8, <1>9, <1>10, <1>11,
           <1>12, <1>13, <1>14, <1>15, <1>16, <1>17, <1>18, <1>19, <1>20
        DEF Next, StartStep

LEMMA AlwaysCtl == Spec => []CtlInv
<1>1. TypeOK /\ CtlInv /\ [Next]_vars => CtlInv'
  BY CtlNext
<1> QED BY CtlInit, <1>1, TypeCorrect, PTL DEF Spec

\* Whenever the controller's lock is free, what the UI is told and whether the
\* scheduler runs are the same, and after shutdown() no loop is left.
THEOREM NoLoopHidden == Spec => []NoLoopBehindItsBack
<1>1. TypeOK /\ CtlInv => NoLoopBehindItsBack
  BY DEF CtlInv, StartedHolds, StopHolds, NoLoopBehindItsBack,
         ActiveMatchesScheduler, QuietAfterShutdown
<1> QED BY TypeCorrect, AlwaysCtl, <1>1, PTL

-----------------------------------------------------------------------------
(* Counts.  A sample that was recorded in this run is counted, or waits to   *)
(* be, or counts for nothing; none is stamped with a run still to come.      *)

NotesOfPast == \A h \in Hosts, r \in Runs : r > run => notes[h][r] = 0

\* attempts stops at Limit + 1, and so does what is claimed of it.
CountsCovered ==
    \A h \in Hosts : \/ attempts[h] > Limit
                     \/ counts[h] + notes[h][run] <= attempts[h]

CountInv == NotesOfPast /\ CountsCovered

LEMMA CountInit == Typed /\ Init => CountInv
<1> SUFFICES ASSUME Typed, Init PROVE CountInv
  OBVIOUS
<1>1. \A h \in Hosts, r \in Runs : notes[h][r] = 0
  BY DEF Init
<1>2. \A h \in Hosts : counts[h] = 0 /\ attempts[h] = 0
  BY DEF Init, NoCounts
<1>3. run \in Runs
  BY DEF Typed, TypeOK
<1> QED BY <1>1, <1>2, <1>3 DEF CountInv, NotesOfPast, CountsCovered

\* A new run has no counting task of its own yet.
LEMMA NewRunIsClean ==
    ASSUME Typed, Typed', CountInv, run' = run + 1, notes' = notes,
           \/ counts' = NoCounts /\ attempts' = NoCounts
           \/ counts' \in {counts, NoCounts} /\ attempts' = attempts
    PROVE  CountInv'
<1> USE RunsAreNumbers DEF Typed, TypeOK
<1>1. run \in Nat /\ run' \in Runs /\ Runs \subseteq Nat
  BY DEF Runs
<1>2. NotesOfPast'
  BY <1>1 DEF CountInv, NotesOfPast
<1>3. \A h \in Hosts : notes[h][run + 1] = 0
  BY <1>1 DEF CountInv, NotesOfPast
<1>4. ASSUME NEW h \in Hosts
      PROVE  \/ attempts'[h] > Limit
             \/ counts'[h] + notes'[h][run'] <= attempts'[h]
  <2>1. NoCounts[h] = 0
    BY DEF NoCounts
  <2>2. notes'[h][run'] = 0
    BY <1>3
  <2>3. counts[h] \in Nat /\ attempts[h] \in Nat /\ notes[h][run] \in Nat
    BY <1>1
  <2>4. attempts[h] > Limit \/ counts[h] + notes[h][run] <= attempts[h]
    BY DEF CountInv, CountsCovered
  <2> QED BY <2>1, <2>2, <2>3, <2>4
<1> QED BY <1>2, <1>4 DEF CountInv, CountsCovered

\* Fewer counts and fewer counting tasks are covered by the same attempts.
LEMMA FewerAreCovered ==
    ASSUME Typed, Typed', CountInv, run' = run, attempts' = attempts,
           \A h \in Hosts : \A r \in Runs : notes'[h][r] <= notes[h][r],
           \A h \in Hosts : counts'[h] <= counts[h]
    PROVE  CountInv'
<1> USE RunsAreNumbers DEF Typed, TypeOK
<1>1. run \in Runs
  OBVIOUS
<1>2. ASSUME NEW h \in Hosts, NEW r \in Runs
      PROVE  notes[h][r] \in Nat /\ notes'[h][r] \in Nat
  OBVIOUS
<1>3. NotesOfPast'
  BY <1>2 DEF CountInv, NotesOfPast
<1>4. ASSUME NEW h \in Hosts
      PROVE  \/ attempts'[h] > Limit
             \/ counts'[h] + notes'[h][run'] <= attempts'[h]
  <2>1. /\ counts[h] \in Nat /\ counts'[h] \in Nat /\ attempts[h] \in Nat
        /\ notes[h][run] \in Nat /\ notes'[h][run] \in Nat
    BY <1>1
  <2>2. attempts[h] > Limit \/ counts[h] + notes[h][run] <= attempts[h]
    BY DEF CountInv, CountsCovered
  <2>3. counts'[h] <= counts[h] /\ notes'[h][run] <= notes[h][run]
    BY <1>1
  <2> QED BY <2>1, <2>2, <2>3
<1> QED BY <1>3, <1>4 DEF CountInv, CountsCovered

\* A sample adds at most the counting task it starts.
LEMMA SampleCovered ==
    ASSUME Typed, Typed', CountInv, NEW h \in Hosts, Sample(h)
    PROVE  CountInv'
<1> USE RunsAreNumbers DEF Typed, TypeOK
<1>1. run \in Runs /\ run' = run /\ counts' = counts /\ run \in Nat
  BY DEF Sample, Runs
<1>2. ASSUME NEW i \in Hosts, NEW r \in Runs
      PROVE  /\ notes[i][r] \in Nat
             /\ \/ notes'[i][r] = notes[i][r]
                \/ i = h /\ r = run /\ notes'[i][r] = notes[i][r] + 1
  <2>1. CASE notes' = notes
    BY <2>1
  <2>2. CASE notes' = [notes EXCEPT ![h][run] = @ + 1]
    BY <1>1, <2>2
  <2> QED BY <2>1, <2>2 DEF Sample
<1>3. NotesOfPast'
  <2>1. ASSUME NEW i \in Hosts, NEW r \in Runs, r > run
        PROVE  notes'[i][r] = 0
    <3>1. r # run
      BY <1>1, <2>1 DEF Runs
    <3> QED BY <1>2, <2>1, <3>1 DEF CountInv, NotesOfPast
  <2> QED BY <1>1, <2>1 DEF NotesOfPast
<1>4. ASSUME NEW i \in Hosts
      PROVE  \/ attempts'[i] > Limit
             \/ counts'[i] + notes'[i][run'] <= attempts'[i]
  <2>1. counts[i] \in Nat /\ attempts[i] \in Nat /\ notes[i][run] \in Nat
    BY <1>1
  <2>2. attempts[i] > Limit \/ counts[i] + notes[i][run] <= attempts[i]
    BY DEF CountInv, CountsCovered
  <2>3. \/ i # h /\ attempts'[i] = attempts[i]
        \/ i = h /\ attempts'[i] = IF attempts[i] > Limit THEN attempts[i]
                                   ELSE attempts[i] + 1
    BY DEF Sample
  <2>4. \/ notes'[i][run] = notes[i][run]
        \/ i = h /\ notes'[i][run] = notes[i][run] + 1
    BY <1>1, <1>2
  <2> QED BY <1>1, <2>1, <2>2, <2>3, <2>4
<1> QED BY <1>3, <1>4 DEF CountInv, CountsCovered

\* A counting task that counts moves one sample from waiting to counted.
LEMMA CountedCovered ==
    ASSUME Typed, Typed', CountInv, NEW h \in Hosts, NEW r \in Runs,
           NoteSample(h, r)
    PROVE  CountInv'
<1> USE RunsAreNumbers DEF Typed, TypeOK
<1>1. run \in Runs /\ run' = run /\ attempts' = attempts
  BY DEF NoteSample
<1>2. ASSUME NEW i \in Hosts, NEW q \in Runs
      PROVE  /\ notes[i][q] \in Nat
             /\ notes'[i][q] = IF i = h /\ q = r THEN notes[i][q] - 1
                                                 ELSE notes[i][q]
  BY DEF NoteSample
<1>3. notes[h][r] > 0
  BY DEF NoteSample
<1>4. CASE ~CountsFor(h, r)
  <2>1. counts' = counts
    BY <1>4 DEF NoteSample
  <2>2. \A i \in Hosts : \A q \in Runs : notes'[i][q] <= notes[i][q]
    BY <1>2
  <2>3. \A i \in Hosts : counts'[i] <= counts[i]
    BY <2>1
  <2> QED BY <1>1, <2>2, <2>3, FewerAreCovered
<1>5. CASE CountsFor(h, r)
  <2>1. r = run /\ counts' = [counts EXCEPT ![h] = Counted(@)]
    BY <1>5 DEF NoteSample, CountsFor
  <2>2. NotesOfPast'
    <3>1. ASSUME NEW i \in Hosts, NEW q \in Runs, q > run
          PROVE  notes'[i][q] = 0
      <4>1. q # r
        BY <2>1, <3>1, <1>1 DEF Runs
      <4> QED BY <1>2, <3>1, <4>1 DEF CountInv, NotesOfPast
    <3> QED BY <1>1, <3>1 DEF NotesOfPast
  <2>3. ASSUME NEW i \in Hosts
        PROVE  \/ attempts'[i] > Limit
               \/ counts'[i] + notes'[i][run'] <= attempts'[i]
    <3>1. /\ counts[i] \in Nat /\ attempts[i] \in Nat /\ notes[i][run] \in Nat
      BY <1>1
    <3>2. attempts[i] > Limit \/ counts[i] + notes[i][run] <= attempts[i]
      BY DEF CountInv, CountsCovered
    <3>3. \/ i = h /\ counts'[i] <= counts[i] + 1
          \/ i # h /\ counts'[i] = counts[i]
      BY <2>1 DEF Counted
    <3>4. notes'[i][run] = IF i = h THEN notes[i][run] - 1 ELSE notes[i][run]
      BY <1>1, <1>2, <2>1
    <3>5. counts'[i] \in Nat
      OBVIOUS
    <3> QED BY <1>1, <3>1, <3>2, <3>3, <3>4, <3>5
  <2> QED BY <2>2, <2>3 DEF CountInv, CountsCovered
<1> QED BY <1>4, <1>5

LEMMA CountNext ==
    ASSUME Typed, Typed', CountInv, [Next]_vars
    PROVE  CountInv'
<1> DEFINE SameCounts == /\ run' = run /\ attempts' = attempts
                         /\ notes' = notes /\ counts' = counts
<1>1. /\ \A h \in Hosts : counts[h] \in Nat
      /\ \A h \in Hosts : \A r \in Runs : notes[h][r] \in Nat
  BY RunsAreNumbers DEF Typed, TypeOK
<1>2. CASE SameCounts
  BY <1>2 DEF CountInv, NotesOfPast, CountsCovered
<1>3. CASE StartPackets \/ \E m \in {"duration", "infinite"} : StartUnlimited(m)
  BY <1>3, NewRunIsClean DEF StartPackets, StartUnlimited
<1>4. CASE Stop \/ ShutdownBegin
  BY <1>4, NewRunIsClean DEF Stop, Cleared, ShutdownBegin
<1>5. CASE StartTargets \/ Stopped \/ ShutdownEnd
  <2>1. \A h \in Hosts : NoCounts[h] = 0
    BY DEF NoCounts
  <2>2. counts' \in {counts, NoCounts} /\ run' = run /\ attempts' = attempts
    BY <1>5 DEF StartTargets, Stopped, ShutdownEnd, Cleared
  <2>3. \A h \in Hosts : counts'[h] <= counts[h]
    BY <1>1, <2>1, <2>2
  <2>4. \A h \in Hosts : \A r \in Runs : notes'[h][r] <= notes[h][r]
    BY <1>1, <1>5 DEF StartTargets, Stopped, ShutdownEnd
  <2> QED BY <2>2, <2>3, <2>4, FewerAreCovered
<1>6. CASE StartHosts \/ StartSpawn \/ StartFails \/ TimerExpires \/ AutoStop
  BY <1>2, <1>6 DEF StartHosts, StartSpawn, StartFails, TimerExpires, AutoStop
<1>7. CASE \E h \in Hosts : Sample(h)
  BY <1>7, SampleCovered
<1>8. CASE \E h \in Hosts, r \in Runs : NoteSample(h, r)
  BY <1>8, CountedCovered
<1>9. ASSUME NEW r \in Requests, ReconcileTargets(r)
      PROVE  CountInv'
  <2>1. \A h \in Hosts : counts'[h] <= counts[h]
    BY <1>1, <1>9 DEF ReconcileTargets
  <2>2. run' = run /\ attempts' = attempts /\ notes' = notes
    BY <1>9 DEF ReconcileTargets
  <2> QED BY <1>1, <2>1, <2>2, FewerAreCovered
<1>10. ASSUME NEW r \in Requests,
              \/ \E h \in Hosts : Edit(r, h)
              \/ ReconcileReads(r) \/ ReconcileFails(r) \/ ReconcileLoops(r)
       PROVE  SameCounts
  BY <1>10
     DEF Edit, ReconcileReads, ReconcileFails, ReconcileLoops, ctlVars
<1>11. CASE UNCHANGED vars
  BY <1>2, <1>11 DEF vars, ctlVars
<1> HIDE DEF SameCounts
<1> QED BY <1>2, <1>3, <1>4, <1>5, <1>6, <1>7, <1>8, <1>9, <1>10, <1>11
        DEF Next, StartStep

LEMMA AlwaysCount == Spec => []CountInv
<1>1. Typed /\ Typed' /\ CountInv /\ [Next]_vars => CountInv'
  BY CountNext
<1> QED BY CountInit, <1>1, AlwaysTyped, PTL DEF Spec

LEMMA CountsJustified == ASSUME Typed, CountInv PROVE CountsAreThisRun
<1> SUFFICES ASSUME NEW h \in Hosts PROVE counts[h] <= attempts[h]
  BY DEF CountsAreThisRun
<1>1. /\ counts[h] \in 0..Limit /\ attempts[h] \in Nat /\ Limit \in Nat
      /\ notes[h][run] \in Nat
  BY RunsAreNumbers DEF Typed, TypeOK
<1> QED BY <1>1 DEF CountInv, CountsCovered

\* What is counted was recorded in this run, and a pending timer belongs to it:
\* a stop and a start in between hand neither on.
THEOREM RunsKeepApart == Spec => []NothingOutlivesItsRun
<1>1. Typed /\ CtlInv /\ CountInv => NothingOutlivesItsRun
  BY CountsJustified
     DEF CtlInv, TimerHolds, NothingOutlivesItsRun, TimerBelongsToRun
<1> QED BY AlwaysTyped, AlwaysCtl, AlwaysCount, <1>1, PTL

\* Of the steps that enter the limit stop, neither records a sample.
LEMMA LimitKeepsAttempts ==
    ASSUME [Next]_vars, mon' = "limitStop", mon # "limitStop"
    PROVE  attempts' = attempts
BY DEF Next, StartPackets, StartUnlimited, StartStep, Sample, vars, ctlVars,
       StartTargets, StartHosts, StartSpawn, StartFails, Stop, Stopped,
       TimerExpires, AutoStop, NoteSample, Edit, ReconcileReads,
       ReconcileFails, ReconcileLoops, ReconcileTargets, ShutdownBegin,
       ShutdownEnd

LEMMA LimitStep ==
    ASSUME Typed, Typed', CountInv', [Next]_vars,
           mon' = "limitStop", mon # "limitStop"
    PROVE  targets' # {} /\ \A h \in targets' : attempts'[h] >= Limit
<1>1. targets' # {} /\ \A h \in targets' : counts'[h] >= Limit
  <2>1. ASSUME NEW h \in Hosts, NEW r \in Runs, NoteSample(h, r)
        PROVE  targets' # {} /\ \A i \in targets' : counts'[i] >= Limit
    BY <2>1 DEF NoteSample, StopIfReached, AllReached
  <2>2. ASSUME NEW r \in Requests, ReconcileTargets(r)
        PROVE  targets' # {} /\ \A i \in targets' : counts'[i] >= Limit
    BY <2>2 DEF ReconcileTargets, StopIfReached, AllReached
  <2>3. ASSUME NEW h \in Hosts, Sample(h)
        PROVE  mon' = mon
    BY <2>3 DEF Sample
  <2>4. ASSUME NEW r \in Requests,
               \/ \E h \in Hosts : Edit(r, h)
               \/ ReconcileReads(r) \/ ReconcileFails(r) \/ ReconcileLoops(r)
        PROVE  mon' = mon
    BY <2>4
       DEF Edit, ReconcileReads, ReconcileFails, ReconcileLoops, ctlVars
  <2>5. CASE \/ StartPackets \/ StartStep
             \/ \E m \in {"duration", "infinite"} : StartUnlimited(m)
    BY <2>5 DEF StartPackets, StartStep, StartTargets, StartHosts, StartSpawn,
                StartFails, StartUnlimited
  <2>6. CASE Stop \/ Stopped \/ TimerExpires \/ AutoStop
    BY <2>6 DEF Stop, Stopped, TimerExpires, AutoStop
  <2>7. CASE ShutdownBegin \/ ShutdownEnd
    BY <2>7 DEF ShutdownBegin, ShutdownEnd
  <2>8. CASE UNCHANGED vars
    BY <2>8 DEF vars, ctlVars
  <2> QED BY <2>1, <2>2, <2>3, <2>4, <2>5, <2>6, <2>7, <2>8 DEF Next
<1>2. CountsAreThisRun'
  <2>1. ASSUME NEW h \in Hosts
        PROVE  counts'[h] <= attempts'[h]
    <3>1. /\ counts'[h] \in 0..Limit /\ attempts'[h] \in Nat /\ Limit \in Nat
          /\ notes'[h][run'] \in Nat
      BY RunsAreNumbers DEF Typed, TypeOK
    <3> QED BY <3>1 DEF CountInv, CountsCovered
  <2> QED BY <2>1 DEF CountsAreThisRun
<1>3. ASSUME NEW h \in targets'
      PROVE  attempts'[h] >= Limit
  <2>1. h \in Hosts /\ counts'[h] \in Nat /\ attempts'[h] \in Nat /\ Limit \in Nat
    BY <1>3, RunsAreNumbers DEF Typed, TypeOK
  <2> QED BY <1>1, <1>2, <2>1 DEF CountsAreThisRun
<1> QED BY <1>1, <1>3

\* The limit ends a run only after every host still targeted was pinged Limit
\* times in it.
THEOREM LimitStops == Spec => LimitStopIsDue
<1>1. Typed /\ Typed' /\ CountInv' /\ [Next]_vars =>
          [mon' = "limitStop" /\ mon # "limitStop" =>
               targets' # {} /\ \A h \in targets' : attempts[h] >= Limit]_vars
  <2> SUFFICES ASSUME Typed, Typed', CountInv', [Next]_vars,
                      mon' = "limitStop", mon # "limitStop"
               PROVE  targets' # {} /\ \A h \in targets' : attempts[h] >= Limit
    OBVIOUS
  <2>1. targets' # {} /\ \A h \in targets' : attempts'[h] >= Limit
    BY LimitStep
  <2>2. attempts' = attempts
    BY LimitKeepsAttempts
  <2> QED BY <2>1, <2>2
<1> QED BY AlwaysTyped, AlwaysCount, <1>1, PTL DEF Spec, LimitStopIsDue

-----------------------------------------------------------------------------
(* Convergence.  Three parties read the host table at moments of their own:   *)
(* start() for its targets, start() for its loops, and each reconcile.  What  *)
(* each of them holds is the table as it is now unless a request that edited  *)
(* it has its reconcile still to come.                                        *)

Reconciling(r) == req[r] \in {"read", "applied"}

Current == down = "no" /\ ~behind /\ \A r \in Requests : req[r] # "edited"

\* reconcile_lock lets one reconcile work at a time, on rows that are current;
\* no request is in flight once the server shuts down.
RowsHold ==
    /\ \A r, q \in Requests : Reconciling(r) /\ Reconciling(q) => r = q
    /\ Current => \A r \in Requests : Reconciling(r) => rows[r] = pingable
    /\ down # "no" => \A r \in Requests : req[r] = "idle"

\* The loops are current, or will be once start() or the reconcile has spawned;
\* a host that is pinged in vain comes from the rows start() read.
LoopsHold ==
    Current /\ (\A r \in Requests : req[r] # "read") =>
        /\ mon = "free" /\ active =>
               pingable \subseteq loops /\ loops \subseteq pingable \cup snap
        /\ mon = "startSpawn" => pingable \subseteq loops \cup snap
        /\ mon # "free" \/ ~active => loops \subseteq pingable

\* So are the targets, one wait for the lock later.
TargetsHold ==
    Current /\ (\A r \in Requests : req[r] = "idle") =>
        /\ mon = "startTargets" => snap = pingable
        /\ mon \in {"startHosts", "startSpawn"} /\ mode = "packets" =>
               targets = pingable
        /\ mon = "free" /\ active /\ mode = "packets" => targets = pingable

TableInv == RowsHold /\ LoopsHold /\ TargetsHold

LEMMA TableInit == Init => TableInv
BY DEF Init, TableInv, RowsHold, LoopsHold, TargetsHold, Current, Reconciling

\* A step that leaves the requests and the table alone keeps the rows.
LEMMA RowsKept ==
    ASSUME RowsHold, UNCHANGED reqVars, down' = down
    PROVE  RowsHold' /\ Current' = Current
BY DEF RowsHold, Current, Reconciling, reqVars

LEMMA TableControl ==
    ASSUME TypeOK, CtlInv, TableInv,
           \/ StartPackets \/ StartStep
           \/ \E m \in {"duration", "infinite"} : StartUnlimited(m)
           \/ Stop \/ Stopped \/ TimerExpires \/ AutoStop
    PROVE  TableInv'
<1>1. UNCHANGED reqVars /\ down' = down
  BY DEF StartPackets, StartStep, StartTargets, StartHosts, StartSpawn,
         StartFails, StartUnlimited, Stop, Stopped, TimerExpires, AutoStop
<1>2. RowsHold' /\ Current' = Current /\ req' = req /\ pingable' = pingable
  BY <1>1, RowsKept DEF TableInv, reqVars
<1> USE <1>2 DEF TableInv, LoopsHold, TargetsHold
<1>3. CASE StartPackets
  BY <1>3 DEF StartPackets, schedVars
<1>4. ASSUME NEW m \in {"duration", "infinite"}, StartUnlimited(m)
      PROVE  TableInv'
  BY <1>4 DEF StartUnlimited
<1>5. CASE StartTargets
  BY <1>5 DEF StartTargets
<1>6. CASE StartHosts
  BY <1>6 DEF StartHosts, schedVars
<1>7. CASE StartSpawn
  BY <1>7 DEF StartSpawn
<1>8. CASE StartFails
  BY <1>8 DEF StartFails, CtlInv, StartHolds, Starting, schedVars
<1>9. CASE Stop
  BY <1>9 DEF Stop, SchedulerStops, schedVars
<1>10. CASE Stopped
  BY <1>10 DEF Stopped, CtlInv, StopHolds, schedVars
<1>11. CASE TimerExpires
  BY <1>11 DEF TimerExpires, schedVars
<1>12. CASE AutoStop
  BY <1>12 DEF AutoStop, SchedulerStops, schedVars
<1> QED BY <1>3, <1>4, <1>5, <1>6, <1>7, <1>8, <1>9, <1>10, <1>11, <1>12
        DEF StartStep

LEMMA TableSamples ==
    ASSUME TableInv,
           \/ \E h \in Hosts : Sample(h)
           \/ \E h \in Hosts, r \in Runs : NoteSample(h, r)
    PROVE  TableInv'
<1>1. UNCHANGED reqVars /\ down' = down
  BY DEF Sample, NoteSample
<1>2. RowsHold' /\ Current' = Current /\ req' = req /\ pingable' = pingable
  BY <1>1, RowsKept DEF TableInv, reqVars
<1> USE <1>2 DEF TableInv, LoopsHold, TargetsHold
<1>3. ASSUME NEW h \in Hosts, Sample(h)
      PROVE  TableInv'
  BY <1>3 DEF Sample, schedVars
<1>4. ASSUME NEW h \in Hosts, NEW r \in Runs, NoteSample(h, r)
      PROVE  TableInv'
  BY <1>4 DEF NoteSample, StopIfReached, SchedulerStops, schedVars
<1> QED BY <1>3, <1>4

\* An edit makes its request the one that has a reconcile to come.
LEMMA TableEdits ==
    ASSUME TypeOK, TableInv, NEW r \in Requests, NEW h \in Hosts, Edit(r, h)
    PROVE  TableInv'
<1>1. ~Current'
  BY DEF Edit, Current, TypeOK
<1>2. RowsHold'
  BY <1>1 DEF Edit, TypeOK, TableInv, RowsHold, Reconciling
<1> QED BY <1>1, <1>2 DEF TableInv, LoopsHold, TargetsHold

LEMMA TableReads ==
    ASSUME TypeOK, TableInv, NEW r \in Requests, ReconcileReads(r)
    PROVE  TableInv'
<1>1. req' = [req EXCEPT ![r] = "read"] /\ rows' = [rows EXCEPT ![r] = pingable]
  BY DEF ReconcileReads
<1>2. \A q \in Requests : ~Reconciling(q)
  BY DEF ReconcileReads, ReadsFresh, ReconcileLocked, Reconciling
<1>3. req'[r] = "read" /\ rows'[r] = pingable
  BY <1>1 DEF TypeOK
<1>4. \A q \in Requests : q # r => req'[q] = req[q]
  BY <1>1 DEF TypeOK
<1>5. down = "no" /\ down' = down /\ pingable' = pingable
  BY DEF ReconcileReads, TableInv, RowsHold
<1>6. RowsHold'
  BY <1>2, <1>3, <1>4, <1>5 DEF RowsHold, Reconciling
<1> QED BY <1>3, <1>6 DEF TableInv, LoopsHold, TargetsHold

LEMMA TableFails ==
    ASSUME TypeOK, TableInv, NEW r \in Requests, ReconcileFails(r)
    PROVE  TableInv'
<1>1. ~Current' /\ down' = down
  BY DEF ReconcileFails, Current
<1>2. req' = [req EXCEPT ![r] = "idle"]
  BY DEF ReconcileFails
<1>3. RowsHold'
  BY <1>1, <1>2 DEF TypeOK, TableInv, RowsHold, Reconciling
<1> QED BY <1>1, <1>3 DEF TableInv, LoopsHold, TargetsHold

\* The scheduler's part: it spawns whenever loops are promised.
LEMMA TableLoops ==
    ASSUME TypeOK, CtlInv, TableInv, NEW r \in Requests, ReconcileLoops(r)
    PROVE  TableInv'
<1>1. /\ req[r] = "read" /\ req' = [req EXCEPT ![r] = "applied"]
      /\ rows' = rows /\ pingable' = pingable /\ behind' = behind
      /\ down' = down /\ mon' = mon /\ active' = active
  BY DEF ReconcileLoops, ctlVars
<1>2. req'[r] = "applied" /\ \A q \in Requests : q # r => req'[q] = req[q]
  BY <1>1 DEF TypeOK
<1>3. RowsHold' /\ (Current' => Current)
  BY <1>1, <1>2 DEF TableInv, RowsHold, Current, Reconciling
<1>4. TargetsHold'
  BY <1>2 DEF TargetsHold
<1>5. Current' /\ ((mon = "free" /\ active) \/ mon = "startSpawn") =>
          loops' = pingable
  <2>1. Current /\ ((mon = "free" /\ active) \/ mon = "startSpawn") =>
            started /\ rows[r] = pingable
    BY <1>1 DEF CtlInv, StartedHolds, TableInv, RowsHold, Current, Reconciling
  <2> QED BY <1>3, <2>1 DEF ReconcileLoops, ReconciledLoops
<1>6. Current' => loops' \subseteq pingable
  <2>1. Current /\ started => loops' = pingable
    BY <1>1 DEF TableInv, RowsHold, Current, Reconciling, ReconcileLoops,
                ReconciledLoops
  <2>2. ~started => loops' = {}
    BY DEF ReconcileLoops, ReconciledLoops, CtlInv, StopHolds
  <2> QED BY <1>3, <2>1, <2>2
<1>7. LoopsHold'
  BY <1>1, <1>5, <1>6 DEF LoopsHold
<1> QED BY <1>3, <1>4, <1>7 DEF TableInv

\* The controller's part, under its lock.
LEMMA TableTargets ==
    ASSUME TypeOK, TableInv, NEW r \in Requests, ReconcileTargets(r)
    PROVE  TableInv'
<1>1. /\ req[r] = "applied" /\ req' = [req EXCEPT ![r] = "idle"]
      /\ rows' = rows /\ pingable' = pingable /\ behind' = behind
      /\ down' = down /\ active' = active /\ mode' = mode /\ mon = "free"
  BY DEF ReconcileTargets
<1>2. req'[r] = "idle" /\ \A q \in Requests : q # r => req'[q] = req[q]
  BY <1>1 DEF TypeOK
<1>3. RowsHold' /\ (Current' => Current)
  BY <1>1, <1>2 DEF TableInv, RowsHold, Current, Reconciling
<1>4. /\ \/ mon' = "limitStop" /\ loops' = {}
         \/ mon' = "free" /\ loops' = loops
      /\ snap' = snap
  BY <1>1 DEF ReconcileTargets, StopIfReached, SchedulerStops, schedVars
<1>5. LoopsHold'
  BY <1>1, <1>2, <1>3, <1>4 DEF TableInv, LoopsHold
<1>6. Current' /\ active /\ mode = "packets" => targets' = pingable
  BY <1>1, <1>3 DEF ReconcileTargets, TableInv, RowsHold, Reconciling
<1>7. TargetsHold'
  BY <1>1, <1>4, <1>6 DEF TargetsHold
<1> QED BY <1>3, <1>5, <1>7 DEF TableInv

LEMMA TableNext ==
    ASSUME TypeOK, CtlInv, TableInv, [Next]_vars
    PROVE  TableInv'
<1>1. CASE ShutdownBegin
  <2>1. ~Current' /\ \A r \in Requests : req'[r] = "idle"
    BY <1>1 DEF ShutdownBegin, Current, reqVars
  <2> QED BY <2>1 DEF TableInv, RowsHold, LoopsHold, TargetsHold, Reconciling
<1>2. CASE ShutdownEnd
  <2>1. ~Current' /\ \A r \in Requests : req'[r] = "idle"
    BY <1>2 DEF ShutdownEnd, Current, reqVars, TableInv, RowsHold
  <2> QED BY <2>1 DEF TableInv, RowsHold, LoopsHold, TargetsHold, Reconciling
<1>3. CASE UNCHANGED vars
  BY <1>3 DEF vars, ctlVars, schedVars, reqVars, TableInv, RowsHold, LoopsHold,
              TargetsHold, Current, Reconciling
<1> QED BY <1>1, <1>2, <1>3, TableControl, TableSamples, TableEdits,
           TableReads, TableFails, TableLoops, TableTargets DEF Next

\* What is counted and what is pinged agree with what is stored once nothing is
\* in flight, in whatever order edits, reconciles and start() ran.
THEOREM RunsConverge == Spec => []RunConverges
<1>1. TypeOK /\ CtlInv /\ TableInv /\ [Next]_vars => TableInv'
  BY TableNext
<1>2. TableInv => RunConverges
  BY DEF TableInv, LoopsHold, TargetsHold, Current, Quiescent, RunConverges,
         TargetsConverge, NoHostForgotten, StraysWereRead
<1> QED BY TableInit, <1>1, <1>2, TypeCorrect, AlwaysCtl, PTL DEF Spec

-----------------------------------------------------------------------------
(* A run of packets comes nearer its limit.  Without the fairness that makes  *)
(* the loops sample and the counting tasks get the lock, this is what          *)
(* PacketRunEnds rests on.                                                     *)

\* A target still has samples to come: the run did not go on past its limit,
\* whichever of a count and a reconcile completed it.
NotOverdue ==
    mode = "packets" /\ mon \notin Stopping /\ targets # {} =>
        \E h \in targets : counts[h] < Limit

\* No host that stays a target is counted anew, whatever is edited, and each
\* counting task of this run brings its host one nearer the limit.
LimitNears ==
    [][/\ active => \A h \in targets \cap targets' : counts'[h] >= counts[h]
       /\ \A h \in targets :
             NoteSample(h, run) /\ active /\ mode = "packets"
                 /\ counts[h] < Limit => counts'[h] = counts[h] + 1]_vars

\* The run that the timer ends has no limit to be over.
DueInv == NotOverdue /\ (mon = "autoStop" => mode = "duration")

LEMMA DueInit == Init => DueInv
BY DEF Init, DueInv, NotOverdue

\* A count that does not end the run leaves a host to wait for.
LEMMA NotReached ==
    ASSUME NEW T \in SUBSET Hosts, NEW c \in [Hosts -> Nat], StopIfReached(T, c),
           mon = "free", T # {}
    PROVE  mon' = "limitStop" \/ (mon' = mon /\ \E h \in T : c[h] < Limit)
<1>1. Limit \in Nat /\ \A h \in T : c[h] \in Nat
  BY LimitAssumption
<1> QED BY <1>1 DEF StopIfReached, AllReached

LEMMA DueNext ==
    ASSUME TypeOK, CtlInv, DueInv, [Next]_vars
    PROVE  DueInv'
<1> USE DEF DueInv, NotOverdue, Stopping
<1>1. CASE StartPackets
  BY <1>1 DEF StartPackets
<1>2. ASSUME NEW m \in {"duration", "infinite"}, StartUnlimited(m)
      PROVE  DueInv'
  BY <1>2 DEF StartUnlimited
<1>3. CASE StartTargets
  <2>1. /\ mon' = "startHosts" /\ targets' \in SUBSET Hosts
        /\ \A h \in Hosts : counts'[h] = 0
    BY <1>3 DEF StartTargets, NoCounts, TypeOK
  <2>2. 0 < Limit
    BY LimitAssumption
  <2> QED BY <2>1, <2>2
<1>4. CASE StartHosts \/ StartSpawn \/ StartFails
  BY <1>4 DEF StartHosts, StartSpawn, StartFails
<1>5. CASE Stop
  BY <1>5 DEF Stop, Cleared
<1>6. CASE Stopped
  BY <1>6 DEF Stopped, Cleared
<1>7. CASE TimerExpires
  BY <1>7 DEF TimerExpires
<1>8. CASE AutoStop
  BY <1>8 DEF AutoStop, CtlInv, TimerHolds
<1>9. ASSUME NEW h \in Hosts, Sample(h)
      PROVE  DueInv'
  BY <1>9 DEF Sample
<1>10. ASSUME NEW h \in Hosts, NEW r \in Runs, NoteSample(h, r)
       PROVE  DueInv'
  <2>1. /\ mon = "free" /\ mode' = mode /\ targets' = targets
        /\ mon' \in {"free", "limitStop"}
    BY <1>10 DEF NoteSample, StopIfReached
  <2>2. CASE CountsFor(h, r)
    <3> DEFINE c == [counts EXCEPT ![h] = Counted(@)]
    <3>1. counts' = c /\ StopIfReached(targets, c)
      BY <1>10, <2>2 DEF NoteSample
    <3>2. counts \in [Hosts -> 0..Limit] /\ Limit \in Nat
      BY LimitAssumption DEF TypeOK
    <3>3. c \in [Hosts -> Nat]
      BY <3>2 DEF Counted
    <3>4. targets \in SUBSET Hosts
      BY DEF TypeOK
    <3> HIDE DEF c
    <3>5. targets # {} => mon' = "limitStop"
                              \/ (mon' = mon /\ \E i \in targets : c[i] < Limit)
      BY <2>1, <3>1, <3>3, <3>4, NotReached
    <3> QED BY <2>1, <3>1, <3>5
  <2>3. CASE ~CountsFor(h, r)
    BY <1>10, <2>1, <2>3 DEF NoteSample
  <2> QED BY <2>2, <2>3
<1>11. ASSUME NEW r \in Requests,
              \/ \E h \in Hosts : Edit(r, h)
              \/ ReconcileReads(r) \/ ReconcileFails(r) \/ ReconcileLoops(r)
       PROVE  DueInv'
  BY <1>11
     DEF Edit, ReconcileReads, ReconcileFails, ReconcileLoops, ctlVars
<1>12. ASSUME NEW r \in Requests, ReconcileTargets(r)
       PROVE  DueInv'
  <2>1. mon = "free" /\ mode' = mode /\ mon' \in {"free", "limitStop"}
    BY <1>12 DEF ReconcileTargets, StopIfReached
  <2>2. CASE active /\ mode = "packets"
    <3> DEFINE c == [h \in Hosts |-> IF h \in rows[r] THEN counts[h] ELSE 0]
    <3>1. /\ targets' = rows[r] /\ counts' = c
          /\ StopIfReached(rows[r], c)
      BY <1>12, <2>2 DEF ReconcileTargets
    <3>2. c \in [Hosts -> Nat] /\ rows[r] \in SUBSET Hosts
      BY LimitAssumption DEF TypeOK
    <3> HIDE DEF c
    <3>3. rows[r] # {} => mon' = "limitStop"
                              \/ (mon' = mon /\ \E h \in rows[r] : c[h] < Limit)
      BY <2>1, <3>1, <3>2, NotReached
    <3> QED BY <2>1, <3>1, <3>3
  <2>3. CASE ~(active /\ mode = "packets")
    BY <1>12, <2>1, <2>3 DEF ReconcileTargets
  <2> QED BY <2>2, <2>3
<1>13. CASE ShutdownBegin
  BY <1>13 DEF ShutdownBegin
<1>14. CASE ShutdownEnd
  BY <1>14 DEF ShutdownEnd, Cleared
<1>15. CASE UNCHANGED vars
  BY <1>15 DEF vars, ctlVars
<1> QED BY <1>1, <1>2, <1>3, <1>4, <1>5, <1>6, <1>7, <1>8, <1>9, <1>10, <1>11,
           <1>12, <1>13, <1>14, <1>15 DEF Next, StartStep

LEMMA NearerStep ==
    ASSUME TypeOK, CtlInv, [Next]_vars
    PROVE  /\ active =>
                  \A h \in targets \cap targets' : counts'[h] >= counts[h]
           /\ \A h \in targets :
                 NoteSample(h, run) /\ active /\ mode = "packets"
                     /\ counts[h] < Limit => counts'[h] = counts[h] + 1
<1>1. targets \in SUBSET Hosts /\ \A h \in Hosts : counts[h] \in Nat
  BY LimitAssumption DEF TypeOK
<1>2. ASSUME NEW h \in Hosts, NEW r \in Runs, NoteSample(h, r)
      PROVE  /\ \A i \in targets : counts'[i] >= counts[i]
             /\ CountsFor(h, r) /\ counts[h] < Limit =>
                    counts'[h] = counts[h] + 1
  <2>1. CASE CountsFor(h, r)
    <3>1. counts' = [counts EXCEPT ![h] = Counted(@)]
      BY <1>2, <2>1 DEF NoteSample
    <3>2. \A i \in Hosts : counts'[i] = IF i = h THEN Counted(counts[i])
                                                ELSE counts[i]
      BY <3>1 DEF TypeOK
    <3> QED BY <1>1, <3>2, LimitAssumption DEF Counted
  <2>2. CASE ~CountsFor(h, r)
    <3>1. counts' = counts
      BY <1>2, <2>2 DEF NoteSample
    <3> QED BY <1>1, <2>2, <3>1
  <2> QED BY <2>1, <2>2
<1>3. ASSUME NEW r \in Requests, ReconcileTargets(r)
      PROVE  \A h \in targets \cap targets' : counts'[h] >= counts[h]
  <2>1. CASE active /\ mode = "packets"
    BY <1>1, <1>3, <2>1 DEF ReconcileTargets
  <2>2. CASE ~(active /\ mode = "packets")
    BY <1>1, <1>3, <2>2 DEF ReconcileTargets
  <2> QED BY <2>1, <2>2
<1>4. ASSUME active, counts' = counts \/ targets' = {}
      PROVE  \A h \in targets \cap targets' : counts'[h] >= counts[h]
  BY <1>1, <1>4
<1>5. ASSUME active,
             \/ StartPackets \/ StartStep
             \/ \E m \in {"duration", "infinite"} : StartUnlimited(m)
             \/ Stop \/ Stopped \/ TimerExpires \/ AutoStop
             \/ ShutdownBegin \/ ShutdownEnd
      PROVE  counts' = counts \/ targets' = {}
  BY <1>5 DEF CtlInv, StartHolds, Starting, StartPackets, StartUnlimited,
              StartStep, StartTargets, StartHosts, StartSpawn, StartFails, Stop,
              Stopped, Cleared, TimerExpires, AutoStop, ShutdownBegin,
              ShutdownEnd
<1>6. ASSUME \/ \E h \in Hosts : Sample(h)
             \/ \E r \in Requests :
                   \/ \E h \in Hosts : Edit(r, h)
                   \/ ReconcileReads(r) \/ ReconcileFails(r) \/ ReconcileLoops(r)
             \/ UNCHANGED vars
      PROVE  counts' = counts
  BY <1>6 DEF Sample, Edit, ReconcileReads, ReconcileFails, ReconcileLoops, vars,
              ctlVars
<1>7. run \in Runs
  BY DEF TypeOK
<1>8. ASSUME NEW h \in targets, NoteSample(h, run), active, mode = "packets",
             counts[h] < Limit
      PROVE  counts'[h] = counts[h] + 1
  BY <1>1, <1>2, <1>7, <1>8 DEF CountsFor
<1> QED BY <1>2, <1>3, <1>4, <1>5, <1>6, <1>8 DEF Next

\* A run of packets never goes on past its limit, and every sample of it that
\* is counted brings it nearer.
THEOREM LimitIsNear == Spec => []NotOverdue /\ LimitNears
<1>1. TypeOK /\ CtlInv /\ DueInv /\ [Next]_vars => DueInv'
  BY DueNext
<1>2. DueInv => NotOverdue
  BY DEF DueInv
<1>3. TypeOK /\ CtlInv /\ [Next]_vars =>
        [/\ active => \A h \in targets \cap targets' : counts'[h] >= counts[h]
         /\ \A h \in targets :
               NoteSample(h, run) /\ active /\ mode = "packets"
                   /\ counts[h] < Limit => counts'[h] = counts[h] + 1]_vars
  BY NearerStep
<1> QED BY DueInit, <1>1, <1>2, <1>3, TypeCorrect, AlwaysCtl, PTL
        DEF Spec, LimitNears

-----------------------------------------------------------------------------
(* The controller implements MonitoringRun.                                  *)

\* Whoever pings is told of: only a run that is on or starting has loops, or a
\* start that failed.
LEMMA PingsWhenOn ==
    ASSUME TypeOK, CtlInv, loops # {}
    PROVE  Phase \in {"starting", "on", "failed"}
BY DEF TypeOK, CtlInv, StartHolds, StopHolds, HalfHolds, Phase, Starting,
       Stopping

\* The steps of start() and of the operator's stop().
LEMMA StartsMap ==
    ASSUME TypeOK, CtlInv,
           \/ StartPackets \/ StartStep
           \/ \E m \in {"duration", "infinite"} : StartUnlimited(m)
           \/ Stop
    PROVE  Promise!Next \/ UNCHANGED Promise!vars
<1> USE DEF CtlInv, StartHolds, HalfHolds, Phase, RunKind, RunTargets, Starting
<1>1. CASE \/ StartPackets
           \/ \E m \in {"duration", "infinite"} : StartUnlimited(m)
  <2>1. /\ mon = "free" /\ ~active /\ down = "no"
        /\ mon' \in {"startTargets", "startHosts"}
        /\ attempts' = NoCounts /\ UNCHANGED <<active, down>>
    BY <1>1 DEF StartPackets, StartUnlimited, Operator
  <2>2. Promise!Start
    BY <2>1 DEF Promise!Start, NoCounts
  <2> QED BY <2>2 DEF Promise!Next
<1>2. CASE StartTargets \/ StartHosts
  <2>1. /\ mon \in Starting /\ mon' \in Starting
        /\ UNCHANGED <<active, down, attempts>>
    BY <1>2 DEF StartTargets, StartHosts
  <2> QED BY <2>1 DEF Promise!vars
<1>3. CASE StartSpawn
  <2>1. /\ mon = "startSpawn" /\ mon' = "free" /\ active' /\ ~half'
        /\ down = "no" /\ UNCHANGED <<mode, targets, attempts, down>>
    BY <1>3 DEF StartSpawn
  <2>2. targets \in SUBSET Hosts /\ mode \in Promise!Kinds
    BY DEF TypeOK, Promise!Kinds
  <2>3. Promise!Begin(mode, targets)
    BY <2>1 DEF Promise!Begin
  <2> QED BY <2>2, <2>3 DEF Promise!Next
<1>4. CASE StartFails
  <2>1. /\ mon \in Starting /\ mon' = "free" /\ ~active /\ down = "no"
        /\ UNCHANGED <<active, down, attempts>>
    BY <1>4 DEF StartFails
  <2>2. Promise!StartFails
    BY <2>1 DEF Promise!StartFails
  <2> QED BY <2>2 DEF Promise!Next
<1>5. CASE Stop
  <2>1. /\ mon = "free" /\ down = "no"
        /\ UNCHANGED <<active, down, half, attempts>>
    BY <1>5 DEF Stop, Operator, faultVars
  <2>2. CASE active
    <3>1. mon' = "stop" /\ UNCHANGED <<mode, targets>>
      BY <1>5, <2>2 DEF Stop
    <3>2. Promise!StopAsked
      BY <2>1, <2>2, <3>1 DEF Promise!StopAsked
    <3> QED BY <3>2 DEF Promise!Next
  <2>3. CASE ~active
    <3>1. mon' = mon
      BY <1>5, <2>3 DEF Stop
    <3> QED BY <2>1, <2>3, <3>1 DEF Promise!vars
  <2> QED BY <2>2, <2>3
<1> QED BY <1>1, <1>2, <1>3, <1>4, <1>5 DEF StartStep

\* The ends of a run: the timer, the return of scheduler.stop(), a shutdown.
LEMMA EndsMap ==
    ASSUME TypeOK, CtlInv,
           Stopped \/ TimerExpires \/ AutoStop \/ ShutdownBegin \/ ShutdownEnd
    PROVE  Promise!Next \/ UNCHANGED Promise!vars
<1> USE DEF CtlInv, StartHolds, HalfHolds, Phase, RunKind, RunTargets, Starting
<1>1. CASE Stopped
  <2>1. /\ mon \in Stopping /\ active /\ ~half /\ mon' = "free" /\ ~active'
        /\ UNCHANGED <<half, down, attempts>>
    BY <1>1 DEF Stopped, StopHolds, faultVars
  <2>2. CASE down = "no"
    <3>1. Promise!Ended
      BY <2>1, <2>2 DEF Promise!Ended, Promise!NoRun, Stopping
    <3> QED BY <3>1 DEF Promise!Next
  <2>3. CASE down # "no"
    BY <2>1, <2>3 DEF Promise!vars, Stopping
  <2> QED BY <2>2, <2>3
<1>2. CASE TimerExpires
  BY <1>2 DEF TimerExpires, faultVars, Promise!vars
<1>3. CASE AutoStop
  <2>1. /\ mon = "free" /\ active /\ ~half /\ down = "no" /\ mode = "duration"
        /\ mon' = "autoStop"
        /\ UNCHANGED <<active, mode, targets, half, down, attempts>>
    BY <1>3 DEF AutoStop, TimerHolds, faultVars
  <2>2. Promise!TimeIsUp
    BY <2>1 DEF Promise!TimeIsUp
  <2> QED BY <2>2 DEF Promise!Next
<1>4. CASE ShutdownBegin
  <2>1. /\ down = "no" /\ down' = "stopping" /\ mon \in {"free", "limitStop", "autoStop"}
        /\ mon' \in {"free", "limitStop"} /\ UNCHANGED <<active, half, attempts>>
        /\ mon # "free" => active
    BY <1>4 DEF ShutdownBegin, StopHolds, Stopping, faultVars
  <2>2. CASE half
    BY <2>1, <2>2 DEF Promise!vars
  <2>3. CASE ~half
    <3>1. Promise!Shutdown
      BY <2>1, <2>3 DEF Promise!Shutdown, Promise!NoRun
    <3> QED BY <3>1 DEF Promise!Next
  <2> QED BY <2>2, <2>3
<1>5. CASE ShutdownEnd
  <2>1. /\ down = "stopping" /\ down' = "done" /\ mon \notin Starting /\ mon' = "free"
        /\ UNCHANGED <<half, attempts>>
    BY <1>5 DEF ShutdownEnd, faultVars
  <2> QED BY <2>1 DEF Promise!vars
<1> QED BY <1>1, <1>2, <1>3, <1>4, <1>5

\* Samples, their counting and the reconciles.
LEMMA CountsMap ==
    ASSUME Typed, Typed', CtlInv, CountInv', [Next]_vars,
           \/ \E h \in Hosts : Sample(h)
           \/ \E h \in Hosts, r \in Runs : NoteSample(h, r)
           \/ \E r \in Requests : ReconcileTargets(r)
    PROVE  Promise!Next \/ UNCHANGED Promise!vars
<1> USE DEF CtlInv, StartHolds, HalfHolds, Starting
<1>0. TypeOK /\ TypeOK'
  BY DEF Typed
<1>1. ASSUME NEW h \in Hosts, Sample(h)
      PROVE  Promise!Next
  <2>1. Phase \in {"starting", "on", "failed"}
    BY <1>0, <1>1, PingsWhenOn DEF Sample
  <2>2. UNCHANGED <<Phase, RunKind, RunTargets>>
    BY <1>1 DEF Sample, faultVars, Phase, RunKind, RunTargets
  <2>3. Promise!Ping(h)
    BY <1>1, <2>1, <2>2 DEF Sample, Promise!Ping
  <2> QED BY <2>3 DEF Promise!Next
\* A step under the lock that may end the run at its limit.
<1>2. ASSUME mon = "free", UNCHANGED <<active, mode, half, down, attempts>>,
             RunKind = "packets", mon' \in {"free", "limitStop"}
      PROVE  Promise!Next
  <2>1. /\ active /\ down = "no" /\ ~half /\ Phase = "on"
        /\ RunKind' = "packets" /\ RunTargets' = targets'
        /\ targets' \in SUBSET Hosts
    BY <1>0, <1>2 DEF TypeOK, RunKind, RunTargets, Phase
  <2>2. CASE mon' = "limitStop"
    <3>1. targets' # {} /\ \A h \in targets' : attempts[h] >= Limit
      BY <1>2, <2>2, LimitStep
    <3>2. Phase' = "limit"
      BY <1>2, <2>1, <2>2 DEF Phase
    <3>3. Promise!LimitReached(targets')
      BY <1>2, <2>1, <3>1, <3>2 DEF Promise!LimitReached
    <3> QED BY <2>1, <3>3 DEF Promise!Next
  <2>3. CASE mon' = "free"
    <3>1. Phase' = "on"
      BY <1>2, <2>1, <2>3 DEF Phase
    <3>2. Promise!Retarget(targets')
      BY <1>2, <2>1, <3>1 DEF Promise!Retarget
    <3> QED BY <2>1, <3>2 DEF Promise!Next
  <2> QED BY <1>2, <2>2, <2>3
\* One that may not: there is no such run, or the server shuts down.
<1>3. ASSUME mon = "free", UNCHANGED <<active, mode, half, down, attempts>>,
             RunKind # "packets", mon' \in {"free", "limitStop"},
             mon' = "limitStop" => active /\ mode = "packets"
      PROVE  UNCHANGED Promise!vars
  BY <1>3 DEF Phase, RunKind, RunTargets, Promise!vars
<1>4. ASSUME NEW h \in Hosts, NEW r \in Runs, NoteSample(h, r)
      PROVE  Promise!Next \/ UNCHANGED Promise!vars
  <2>1. /\ mon = "free" /\ UNCHANGED <<active, mode, half, down, attempts>>
        /\ mon' \in {"free", "limitStop"}
        /\ mon' = "limitStop" => active /\ mode = "packets"
    BY <1>4 DEF NoteSample, CountsFor, StopIfReached, faultVars
  <2> QED BY <1>2, <1>3, <2>1
<1>5. ASSUME NEW r \in Requests, ReconcileTargets(r)
      PROVE  Promise!Next \/ UNCHANGED Promise!vars
  <2>1. /\ mon = "free" /\ UNCHANGED <<active, mode, half, down, attempts>>
        /\ mon' \in {"free", "limitStop"}
        /\ mon' = "limitStop" => active /\ mode = "packets"
    BY <1>5 DEF ReconcileTargets, StopIfReached, faultVars
  <2> QED BY <1>2, <1>3, <2>1
<1> QED BY <1>1, <1>4, <1>5

LEMMA RunStep ==
    ASSUME Typed, Typed', CtlInv, CountInv', [Next]_vars
    PROVE  Promise!Next \/ UNCHANGED Promise!vars
<1>1. TypeOK
  BY DEF Typed
<1>2. ASSUME NEW r \in Requests,
             \/ \E h \in Hosts : Edit(r, h)
             \/ ReconcileReads(r) \/ ReconcileFails(r) \/ ReconcileLoops(r)
      PROVE  UNCHANGED Promise!vars
  <2>1. UNCHANGED <<mon, half, down, active, mode, targets, attempts>>
    BY <1>2 DEF Edit, ReconcileReads, ReconcileFails, ReconcileLoops, ctlVars,
                faultVars
  <2> QED BY <2>1 DEF Phase, RunKind, RunTargets, Promise!vars
<1>3. CASE UNCHANGED vars
  BY <1>3 DEF vars, ctlVars, faultVars, Phase, RunKind, RunTargets, Promise!vars
<1>4. CASE \/ \E h \in Hosts : Sample(h)
           \/ \E h \in Hosts, r \in Runs : NoteSample(h, r)
           \/ \E r \in Requests : ReconcileTargets(r)
  BY <1>4, CountsMap
<1> QED BY <1>1, <1>2, <1>3, <1>4, StartsMap, EndsMap DEF Next

\* Whatever requests, samples, timers and failing reads do in between, a run
\* keeps the promise of MonitoringRun: nobody is pinged once it has ended, and
\* it ends by itself only for the reason of its kind and only when that is due.
THEOREM RunIsImplemented == Spec => ImplementsRun
<1>1. Init => Promise!Init
  BY DEF Init, Promise!Init, Phase, RunKind, RunTargets, Starting, NoCounts
<1>2. Typed /\ Typed' /\ CtlInv /\ CountInv' /\ [Next]_vars
        => [Promise!Next]_(Promise!vars)
  BY RunStep
<1> QED BY <1>1, <1>2, AlwaysTyped, AlwaysCtl, AlwaysCount, PTL
        DEF Spec, ImplementsRun, Promise!Spec
=============================================================================
