---------------------------- MODULE MonitoringRun ----------------------------
(***************************************************************************)
(* What the monitoring controller promises about a run, with no locks, no  *)
(* counting tasks and no timers: hosts are pinged only while a run is on   *)
(* or about to be; a run ends by itself for the reason of its kind, a run  *)
(* of packets when every target had its share in this very run, a timed    *)
(* one when its time is over; and otherwise because it was asked to or the *)
(* server shuts down.                                                      *)
(***************************************************************************)
EXTENDS Naturals

CONSTANTS
    Hosts,
    Limit   \* packets each target is to be sent in a run of packets

Kinds == {"duration", "infinite", "packets"}

VARIABLES
    phase,    \* "off", "starting", "on"; "asked", "limit", "time" while a run
              \* ends for that reason; "failed" start; "down" for good
    kind,     \* of the run that is on or ending, otherwise "none"
    targets,  \* whom a run of packets waits for
    pinged    \* host -> pings since the last start, up to one above Limit

vars == <<phase, kind, targets, pinged>>

NoRun == kind' = "none" /\ targets' = {}

Init ==
    /\ phase = "off" /\ kind = "none" /\ targets = {}
    /\ pinged = [h \in Hosts |-> 0]

Start ==
    /\ phase \in {"off", "failed"}
    /\ phase' = "starting"
    /\ pinged' = [h \in Hosts |-> 0]
    /\ UNCHANGED <<kind, targets>>

\* Reading the hosts may fail; then some may be pinged until the next start.
StartFails ==
    /\ phase = "starting"
    /\ phase' \in {"off", "failed"}
    /\ UNCHANGED <<kind, targets, pinged>>

Begin(k, T) ==
    /\ phase = "starting"
    /\ phase' = "on"
    /\ kind' = k
    /\ targets' = IF k = "packets" THEN T ELSE {}
    /\ UNCHANGED pinged

Ping(h) ==
    /\ phase \in {"starting", "on", "failed"}
    /\ pinged' = [pinged EXCEPT ![h] = IF @ > Limit THEN @ ELSE @ + 1]
    /\ UNCHANGED <<phase, kind, targets>>

\* Hosts are added, removed, enabled or disabled.
Retarget(T) ==
    /\ phase = "on" /\ kind = "packets"
    /\ targets' = T
    /\ UNCHANGED <<phase, kind, pinged>>

\* The last target has had its share, or those that had not are targets no more.
LimitReached(T) ==
    /\ phase = "on" /\ kind = "packets"
    /\ T # {} /\ \A h \in T : pinged[h] >= Limit
    /\ phase' = "limit"
    /\ targets' = T
    /\ UNCHANGED <<kind, pinged>>

TimeIsUp ==
    /\ phase = "on" /\ kind = "duration"
    /\ phase' = "time"
    /\ UNCHANGED <<kind, targets, pinged>>

StopAsked ==
    /\ phase = "on"
    /\ phase' = "asked"
    /\ UNCHANGED <<kind, targets, pinged>>

Ended ==
    /\ phase \in {"asked", "limit", "time"}
    /\ phase' = "off" /\ NoRun
    /\ UNCHANGED pinged

Shutdown ==
    /\ phase \in {"off", "on", "limit", "time"}
    /\ phase' = "down" /\ NoRun
    /\ UNCHANGED pinged

Next ==
    \/ Start \/ StartFails
    \/ \E T \in SUBSET Hosts :
          \/ \E k \in Kinds : Begin(k, T)
          \/ Retarget(T) \/ LimitReached(T)
    \/ \E h \in Hosts : Ping(h)
    \/ TimeIsUp \/ StopAsked \/ Ended \/ Shutdown

Spec == Init /\ [][Next]_vars
=============================================================================
