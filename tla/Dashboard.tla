------------------------------ MODULE Dashboard -----------------------------
(***************************************************************************)
(* What the page shows of a run: the START/STOP panel of monitoring.js,    *)
(* which learns of the server's state from the answers of its own requests *)
(* and from messages, and the tile of one host, which store.js derives     *)
(* from a window of samples, beside the outage detection of pinger.py that *)
(* judges the same samples.                                                *)
(*                                                                         *)
(* A monitoring state is [active, n]; n counts the server's changes and is *)
(* not visible to the page: it tells the properties which state is newer.  *)
(***************************************************************************)
EXTENDS Naturals, SequencesExt

CONSTANTS
    Threshold,   \* OUTAGE_THRESHOLD_FAILS and OFFLINE_FAIL_STREAK
    Window,      \* MAX_SAMPLES_PER_HOST
    MaxChanges,  \* bound: changes of the server's state
    MaxFlight    \* bound: messages in flight

ASSUME WindowAssumption ==
    Threshold \in Nat \ {0} /\ Window \in Nat /\ Threshold <= Window
ASSUME BoundsAssumption == MaxChanges \in Nat /\ MaxFlight \in Nat \ {0}

VARIABLES
    run,     \* monitoring state of the server
    tell,    \* its lock is held for a broadcast of that state
    streak, outage,  \* _OutageState of the host
    conn,    \* page: "boot", "down", "open"
    joined,  \* the hub knows the connection
    again,   \* the page has been connected before
    chan,    \* messages sent to the page and not yet handled
    get,     \* "none", "asked", "answered": a GET in flight
    got,     \* the state in its answer
    click,   \* "none", "start", "stop": the toggle request in flight
    served,  \* the server has served it
    reply,   \* the state in its answer
    panel,   \* `state` of monitoring.js
    locked,  \* the success percentage is frozen
    buf,     \* Store.samples of the host
    seen,    \* newest state the page was told
    ran,     \* the panel has shown a run since the page was loaded
    gap,     \* a state went by while the page could not hear it
    blind    \* a sample went by since the last success the page was sent

serverVars == <<run, tell, streak, outage>>
linkVars == <<conn, joined, again>>
getVars == <<get, got>>
clickVars == <<click, served, reply>>
askVars == <<getVars, clickVars>>
panelVars == <<panel, locked, seen, ran, gap>>
tileVars == <<buf, blind>>
vars == <<serverVars, linkVars, chan, askVars, panelVars, tileVars>>

Results == {"online", "slow", "fail"}
States == [active : BOOLEAN, n : 0..MaxChanges]
Messages ==
    [type : {"state"}, state : States] \cup [type : {"sample"}, res : Results]

TypeOK ==
    /\ run \in States /\ tell \in BOOLEAN
    /\ streak \in 0..(Threshold + 1) /\ outage \in BOOLEAN
    /\ conn \in {"boot", "down", "open"}
    /\ joined \in BOOLEAN /\ again \in BOOLEAN
    /\ chan \in Seq(Messages) /\ Len(chan) <= MaxFlight
    /\ get \in {"none", "asked", "answered"} /\ got \in States
    /\ click \in {"none", "start", "stop"}
    /\ served \in BOOLEAN /\ reply \in States
    /\ panel \in States
    /\ locked \in BOOLEAN /\ ran \in BOOLEAN
    /\ buf \in Seq(Results) /\ Len(buf) <= Window
    /\ seen \in 0..MaxChanges
    /\ gap \in BOOLEAN /\ blind \in BOOLEAN

Paused == [active |-> FALSE, n |-> 0]

Init ==
    /\ run = Paused /\ tell = FALSE
    /\ streak = 0 /\ outage = FALSE
    /\ conn = "boot" /\ joined = FALSE /\ again = FALSE
    /\ chan = <<>>
    /\ get = "asked" /\ got = Paused
    /\ click = "none" /\ served = FALSE /\ reply = Paused
    /\ panel = Paused /\ locked = FALSE
    /\ buf = <<>>
    /\ seen = 0 /\ ran = FALSE /\ gap = FALSE /\ blind = FALSE

-----------------------------------------------------------------------------
(* The server.                                                             *)

\* A state that is broadcast while the page is not joined is heard only if an
\* answer still to come will carry it.
Unheard == ~joined /\ get # "asked" /\ (conn = "open" \/ ~again)

Becomes(a) ==
    /\ run.n < MaxChanges
    /\ run' = [active |-> a, n |-> run.n + 1]
    /\ tell' = TRUE

\* Somebody else starts or stops the run, or it ends by itself.
OtherToggles ==
    /\ ~tell
    /\ Becomes(~run.active)
    /\ UNCHANGED <<streak, outage, linkVars, chan, askVars, panelVars,
                   tileVars>>

\* The page's own request: start() while active answers at once, stop()
\* broadcasts in any case.
Serve ==
    /\ click # "none" /\ ~served /\ ~tell
    /\ IF run.active = (click = "start")
       THEN UNCHANGED run /\ tell' = (click = "stop")
       ELSE Becomes(click = "start")
    /\ served' = TRUE /\ reply' = run'
    /\ UNCHANGED <<streak, outage, linkVars, chan, getVars, click, panelVars,
                   tileVars>>

Tell ==
    /\ tell
    /\ tell' = FALSE
    /\ IF joined THEN /\ Len(chan) < MaxFlight
                      /\ chan' = Append(chan, [type |-> "state", state |-> run])
                 ELSE UNCHANGED chan
    /\ gap' = (gap \/ Unheard)
    /\ UNCHANGED <<run, streak, outage, linkVars, askVars, panel, locked, seen,
                   ran, tileVars>>

\* A loop judges a ping and sends the sample.  Bound: the streak is not counted
\* past Threshold + 1.
Ping(res) ==
    /\ run.active
    /\ IF res = "fail"
       THEN /\ streak' = IF streak > Threshold THEN streak ELSE streak + 1
            /\ outage' = (outage \/ streak' = Threshold)
       ELSE streak' = 0 /\ outage' = FALSE
    /\ IF joined THEN /\ Len(chan) < MaxFlight
                      /\ chan' = Append(chan, [type |-> "sample", res |-> res])
                      /\ UNCHANGED blind
                 ELSE UNCHANGED chan /\ blind' = TRUE
    /\ UNCHANGED <<run, tell, linkVars, askVars, panelVars, buf>>

JoinHub ==
    /\ conn = "open" /\ ~joined
    /\ joined' = TRUE
    /\ UNCHANGED <<serverVars, conn, again, chan, askVars, panelVars, tileVars>>

-----------------------------------------------------------------------------
(* The panel.                                                              *)

GetEnds == get' = "none" /\ got' = Paused
ClickEnds == click' = "none" /\ served' = FALSE /\ reply' = Paused

Shows(s) ==
    /\ panel' = s
    /\ seen' = IF s.n > seen THEN s.n ELSE seen
    /\ ran' = (ran \/ s.active)

\* The events monitoring-started and monitoring-stopped, and what dashboard.js
\* makes of them.
Emits(was, is) == locked' = IF was = is THEN locked ELSE was

\* Mutant: the toggle leaves the events to the message that will follow.
ToggleEmitsNothing(was, is) == UNCHANGED locked
ToggleEmits(was, is) == Emits(was, is)

\* init and resync are answered by GET /api/monitoring.
Answers ==
    /\ get = "asked"
    /\ get' = "answered" /\ got' = run
    /\ UNCHANGED <<serverVars, linkVars, chan, clickVars, panelVars, tileVars>>

\* init sets the state without an event; the page connects when it is done.
Bootstraps ==
    /\ conn = "boot" /\ get = "answered"
    /\ Shows(got)
    /\ GetEnds /\ conn' = "down"
    /\ UNCHANGED <<serverVars, joined, again, chan, clickVars, locked, gap,
                   tileVars>>

\* resync hands the answer to onWsState.
Resyncs ==
    /\ conn # "boot" /\ get = "answered"
    /\ Shows(got) /\ Emits(panel.active, got.active)
    /\ GetEnds
    /\ UNCHANGED <<serverVars, linkVars, chan, clickVars, gap, tileVars>>

\* Both log a failure and go on.
GetFails ==
    /\ get # "none"
    /\ GetEnds /\ gap' = TRUE
    /\ conn' = IF conn = "boot" THEN "down" ELSE conn
    /\ UNCHANGED <<serverVars, joined, again, chan, clickVars, panel, locked,
                   seen, ran, tileVars>>

\* onToggle disables the button until the answer is there.
Click ==
    /\ conn # "boot" /\ click = "none"
    /\ click' = IF panel.active THEN "stop" ELSE "start"
    /\ UNCHANGED <<serverVars, linkVars, chan, getVars, served, reply, panelVars,
                   tileVars>>

\* The answer leaves the server when the broadcast is done; it may be handled
\* before or after the message.
ReplyArrives ==
    /\ served /\ ~tell
    /\ Shows(reply) /\ ToggleEmits(click = "stop", reply.active)
    /\ ClickEnds
    /\ UNCHANGED <<serverVars, linkVars, chan, getVars, gap, tileVars>>

\* The request fails, before or after the server served it.
ClickFails ==
    /\ click # "none" /\ ~tell
    /\ ClickEnds
    /\ UNCHANGED <<serverVars, linkVars, chan, getVars, panelVars, tileVars>>

-----------------------------------------------------------------------------
(* The tile.                                                               *)

\* Mutant: nothing is ever shifted out.
PushedUnbounded(s) == Append(buf, s)
\* addSample.
Pushed(s) == IF Len(buf) = Window THEN Append(Tail(buf), s) ELSE Append(buf, s)

Succeeded(res) == res # "fail"

\* Failures at the end of the window.
Trailing(b) == Len(b) - SelectLastInSeq(b, Succeeded)

\* Mutant: one failure too many.
IsOfflineLate(b) == Trailing(b) > Threshold
IsOffline(b) == Trailing(b) >= Threshold

\* Mutant: the first success of the window counts.
LatestSuccessFirst(b) == b[SelectInSeq(b, Succeeded)]
LatestSuccess(b) == b[SelectLastInSeq(b, Succeeded)]

\* deriveStatus.
Status(b) ==
    IF IsOffline(b) THEN "offline"
    ELSE IF \E i \in DOMAIN b : Succeeded(b[i]) THEN LatestSuccess(b)
    ELSE "idle"

-----------------------------------------------------------------------------
(* Messages, and the connection.                                           *)

\* onWsMessage.
Deliver ==
    LET msg == Head(chan) IN
    /\ conn = "open" /\ chan # <<>>
    /\ chan' = Tail(chan)
    /\ \/ /\ msg.type = "sample"
          /\ buf' = Pushed(msg.res)
          /\ blind' = (blind /\ ~Succeeded(msg.res))
          /\ UNCHANGED panelVars
       \/ /\ msg.type = "state"
          /\ Shows(msg.state) /\ Emits(panel.active, msg.state.active)
          /\ UNCHANGED <<gap, tileVars>>
    /\ UNCHANGED <<serverVars, linkVars, askVars>>

\* Mutant: the page never asks again.
ResyncsAtNever == FALSE
\* onWsState: every connection but the first.
ResyncsAt == again

\* Bound: one GET at a time.
Open ==
    /\ conn = "down" /\ get = "none"
    /\ conn' = "open" /\ again' = TRUE
    /\ get' = IF ResyncsAt THEN "asked" ELSE "none"
    /\ got' = Paused
    /\ gap' = (gap /\ ~again)
    /\ UNCHANGED <<serverVars, joined, chan, clickVars, panel, locked, seen, ran,
                   tileVars>>

Disconnect ==
    /\ conn = "open"
    /\ conn' = "down" /\ joined' = FALSE
    /\ chan' = <<>>
    /\ blind' = (blind \/ chan # <<>>)
    /\ UNCHANGED <<serverVars, again, askVars, panelVars, buf>>

\* The page is loaded again.
Reload ==
    /\ click = "none"
    /\ conn' = "boot" /\ joined' = FALSE /\ again' = FALSE
    /\ chan' = <<>>
    /\ get' = "asked" /\ got' = Paused
    /\ panel' = Paused /\ locked' = FALSE /\ buf' = <<>>
    /\ seen' = 0 /\ ran' = FALSE /\ gap' = FALSE /\ blind' = TRUE
    /\ UNCHANGED <<serverVars, clickVars>>

\* The server is restarted: it boots paused, with no outage state, and what was
\* asked of it fails.
Restart ==
    /\ run.n < MaxChanges
    /\ run' = [active |-> FALSE, n |-> run.n + 1] /\ tell' = FALSE
    /\ streak' = 0 /\ outage' = FALSE
    /\ conn' = "down" /\ gap' = (gap \/ ~again)
    /\ joined' = FALSE /\ chan' = <<>> /\ blind' = TRUE
    /\ GetEnds /\ ClickEnds
    /\ UNCHANGED <<again, panel, locked, seen, ran, buf>>

Server == OtherToggles \/ Serve \/ Tell \/ (\E s \in Results : Ping(s)) \/ JoinHub
Panel ==
    Answers \/ Bootstraps \/ Resyncs \/ GetFails \/ Click \/ ReplyArrives
        \/ ClickFails

Next == Server \/ Panel \/ Deliver \/ Open \/ Disconnect \/ Reload \/ Restart

Spec == Init /\ [][Next]_vars

-----------------------------------------------------------------------------
Quiescent ==
    /\ joined /\ ~tell /\ chan = <<>>
    /\ get = "none" /\ click = "none"

\* A connected page has been told of the newest state of the server, whatever
\* happened while it was loading or disconnected, unless the state went by
\* between the answer to a GET and the page's entry into the hub, or a GET
\* failed.
PanelHearsAll == Quiescent /\ ~gap => seen = run.n

\* The success percentage is frozen exactly while the panel shows the end of a
\* run, in whichever order the answer to a click and the messages arrive.
ResultFrozen == locked <=> (ran /\ ~panel.active)

\* Unless a sample was lost since the last success, the tile is offline exactly
\* while the server has an outage open for the host.
OfflineMeansOutage ==
    joined /\ chan = <<>> /\ ~blind => (Status(buf) = "offline" <=> outage)

\* The window, however short, yields the status the whole history would.
Tile == INSTANCE HostStatus WITH
          streak <- IF IsOffline(buf) THEN Threshold ELSE Trailing(buf),
          status <- Status(buf)

ImplementsHostStatus == Tile!Spec
=============================================================================
