--------------------------- MODULE Dashboard_proof --------------------------
(***************************************************************************)
(* Dashboard, for every threshold, window and bound: the types, the frozen *)
(* result and the panel's news; and the tile of a host, whose window,      *)
(* however short, yields the status of the whole history and agrees with   *)
(* the server's outage.                                                    *)
(***************************************************************************)
EXTENDS Dashboard, SequenceTheorems, WellFoundedInduction, TLAPS

LEMMA PausedTyped == Paused \in States
BY BoundsAssumption DEF Paused, States

LEMMA NextStateTyped ==
    ASSUME TypeOK, NEW a \in BOOLEAN, run.n < MaxChanges
    PROVE  [active |-> a, n |-> run.n + 1] \in States
BY BoundsAssumption DEF TypeOK, States

\* Sending and handling a message, and the window, keep the sequences typed.
LEMMA SendTyped ==
    ASSUME TypeOK, NEW m \in Messages, Len(chan) < MaxFlight
    PROVE  /\ Append(chan, m) \in Seq(Messages)
           /\ Len(Append(chan, m)) <= MaxFlight
BY BoundsAssumption DEF TypeOK

LEMMA HandleTyped ==
    ASSUME TypeOK, chan # <<>>
    PROVE  /\ Head(chan) \in Messages
           /\ Tail(chan) \in Seq(Messages) /\ Len(Tail(chan)) <= MaxFlight
BY BoundsAssumption DEF TypeOK

LEMMA PushedTyped ==
    ASSUME TypeOK, NEW s \in Results
    PROVE  Pushed(s) \in Seq(Results) /\ Len(Pushed(s)) <= Window
<1>1. Window \in Nat \ {0}
  BY WindowAssumption
<1>2. buf \in Seq(Results) /\ Len(buf) \in Nat /\ Len(buf) <= Window
  BY DEF TypeOK
<1>3. CASE Len(buf) = Window
  <2>1. buf # <<>>
    BY <1>1, <1>3
  <2>2. Tail(buf) \in Seq(Results) /\ Len(Tail(buf)) = Len(buf) - 1
    BY <1>2, <2>1
  <2> QED BY <1>1, <1>2, <1>3, <2>2 DEF Pushed
<1>4. CASE Len(buf) # Window
  BY <1>1, <1>2, <1>4 DEF Pushed
<1> QED BY <1>3, <1>4

LEMMA EmptiesTyped ==
    /\ <<>> \in Seq(Messages) /\ Len(<<>>) <= MaxFlight
    /\ <<>> \in Seq(Results) /\ Len(<<>>) <= Window
<1>1. MaxFlight \in Nat /\ Window \in Nat
  BY BoundsAssumption, WindowAssumption
<1>2. Len(<<>>) = 0
  OBVIOUS
<1> QED BY <1>1, <1>2

\* A state message carries a state, a sample message a result.
LEMMA MessageParts ==
    ASSUME NEW m \in Messages
    PROVE  /\ m.type = "state" => m.state \in States
           /\ m.type = "sample" => m.res \in Results
BY DEF Messages

LEMMA StateMessage ==
    ASSUME NEW s \in States
    PROVE  [type |-> "state", state |-> s] \in Messages
BY DEF Messages

LEMMA SampleMessage ==
    ASSUME NEW s \in Results
    PROVE  [type |-> "sample", res |-> s] \in Messages
BY DEF Messages

LEMMA ShowsTyped ==
    ASSUME TypeOK, NEW s \in States, Shows(s)
    PROVE  panel' \in States /\ seen' \in 0..MaxChanges /\ ran' \in BOOLEAN
BY BoundsAssumption DEF TypeOK, Shows, States

LEMMA EmitsTyped ==
    ASSUME TypeOK, NEW was \in BOOLEAN, NEW is, Emits(was, is)
    PROVE  locked' \in BOOLEAN
BY DEF TypeOK, Emits
-----------------------------------------------------------------------------
LEMMA TypeInit == Init => TypeOK
<1> SUFFICES ASSUME Init PROVE TypeOK
  OBVIOUS
<1>1. /\ 0 \in 0..MaxChanges /\ 0 \in 0..(Threshold + 1)
  BY BoundsAssumption, WindowAssumption
<1> QED BY <1>1, PausedTyped, EmptiesTyped DEF Init, TypeOK

LEMMA TypeServer ==
    ASSUME TypeOK, Server
    PROVE  TypeOK'
<1> USE DEF serverVars, linkVars, getVars, clickVars, askVars, panelVars, tileVars
<1>1. CASE OtherToggles
  <2>1. run' \in States
    BY <1>1, NextStateTyped DEF OtherToggles, Becomes, TypeOK, States
  <2> QED BY <1>1, <2>1 DEF OtherToggles, Becomes, TypeOK
<1>2. CASE Serve
  <2>1. run' \in States /\ tell' \in BOOLEAN
    BY <1>2, NextStateTyped DEF Serve, Becomes, TypeOK
  <2> QED BY <1>2, <2>1 DEF Serve, TypeOK
<1>3. CASE Tell
  <2>1. chan' \in Seq(Messages) /\ Len(chan') <= MaxFlight
    BY <1>3, SendTyped, StateMessage DEF Tell, TypeOK
  <2>2. gap' \in BOOLEAN /\ tell' \in BOOLEAN
    BY <1>3 DEF Tell
  <2>3. UNCHANGED <<run, streak, outage, linkVars, askVars, panel, locked, seen,
                    ran, tileVars>>
    BY <1>3 DEF Tell
  <2> QED BY <2>1, <2>2, <2>3 DEF TypeOK
<1>4. ASSUME NEW s \in Results, Ping(s) PROVE TypeOK'
  <2>1. streak' \in 0..(Threshold + 1)
    <3>1. CASE s = "fail"
      BY <1>4, <3>1, WindowAssumption DEF Ping, TypeOK
    <3>2. CASE s # "fail"
      BY <1>4, <3>2, WindowAssumption DEF Ping
    <3> QED BY <3>1, <3>2
  <2>4. outage' \in BOOLEAN
    BY <1>4 DEF Ping, TypeOK
  <2>2. chan' \in Seq(Messages) /\ Len(chan') <= MaxFlight
    BY <1>4, SendTyped, SampleMessage DEF Ping, TypeOK
  <2>3. blind' \in BOOLEAN
    BY <1>4 DEF Ping, TypeOK
  <2>5. UNCHANGED <<run, tell, linkVars, askVars, panelVars, buf>>
    BY <1>4 DEF Ping
  <2> QED BY <2>1, <2>2, <2>3, <2>4, <2>5 DEF TypeOK
<1>5. CASE JoinHub
  BY <1>5 DEF JoinHub, TypeOK
<1> QED BY <1>1, <1>2, <1>3, <1>4, <1>5 DEF Server

LEMMA TypePanel ==
    ASSUME TypeOK, Panel
    PROVE  TypeOK'
<1> USE PausedTyped DEF serverVars, linkVars, getVars, clickVars, askVars,
                        panelVars, tileVars, GetEnds, ClickEnds
<1>1. CASE Answers
  BY <1>1 DEF Answers, TypeOK
<1>2. CASE Bootstraps
  <2>1. panel' \in States /\ seen' \in 0..MaxChanges /\ ran' \in BOOLEAN
    BY <1>2, ShowsTyped DEF Bootstraps, TypeOK
  <2> QED BY <1>2, <2>1 DEF Bootstraps, TypeOK
<1>3. CASE Resyncs
  <2>1. panel' \in States /\ seen' \in 0..MaxChanges /\ ran' \in BOOLEAN
    BY <1>3, ShowsTyped DEF Resyncs, TypeOK
  <2>2. locked' \in BOOLEAN
    BY <1>3, EmitsTyped DEF Resyncs, TypeOK, States
  <2> QED BY <1>3, <2>1, <2>2 DEF Resyncs, TypeOK
<1>4. CASE GetFails
  BY <1>4 DEF GetFails, TypeOK
<1>5. CASE Click
  BY <1>5 DEF Click, TypeOK
<1>6. CASE ReplyArrives
  <2>1. panel' \in States /\ seen' \in 0..MaxChanges /\ ran' \in BOOLEAN
    BY <1>6, ShowsTyped DEF ReplyArrives, TypeOK
  <2>2. locked' \in BOOLEAN
    BY <1>6, EmitsTyped DEF ReplyArrives, ToggleEmits
  <2> QED BY <1>6, <2>1, <2>2 DEF ReplyArrives, TypeOK
<1>7. CASE ClickFails
  BY <1>7 DEF ClickFails, TypeOK
<1> QED BY <1>1, <1>2, <1>3, <1>4, <1>5, <1>6, <1>7 DEF Panel

LEMMA TypeDeliver ==
    ASSUME TypeOK, Deliver
    PROVE  TypeOK'
<1> USE DEF serverVars, linkVars, getVars, clickVars, askVars, panelVars, tileVars
<1>1. /\ Head(chan) \in Messages
      /\ chan' \in Seq(Messages) /\ Len(chan') <= MaxFlight
  BY HandleTyped DEF Deliver
<1>2. CASE Head(chan).type = "sample"
  <2>1. buf' \in Seq(Results) /\ Len(buf') <= Window
    BY <1>1, <1>2, MessageParts, PushedTyped DEF Deliver
  <2>2. blind' \in BOOLEAN
    BY <1>2 DEF Deliver, TypeOK
  <2> QED BY <1>1, <1>2, <2>1, <2>2 DEF Deliver, TypeOK
<1>3. CASE Head(chan).type = "state"
  <2>1. Head(chan).state \in States
    BY <1>1, <1>3, MessageParts
  <2>2. panel' \in States /\ seen' \in 0..MaxChanges /\ ran' \in BOOLEAN
    BY <1>3, <2>1, ShowsTyped DEF Deliver
  <2>3. locked' \in BOOLEAN
    BY <1>3, EmitsTyped DEF Deliver, TypeOK, States
  <2> QED BY <1>1, <1>3, <2>2, <2>3 DEF Deliver, TypeOK
<1> QED BY <1>2, <1>3 DEF Deliver

LEMMA TypeLink ==
    ASSUME TypeOK, Open \/ Disconnect \/ Reload \/ Restart
    PROVE  TypeOK'
<1> USE PausedTyped, BoundsAssumption
    DEF serverVars, linkVars, getVars, clickVars, askVars, panelVars, tileVars,
        GetEnds, ClickEnds
<1>1. CASE Open
  BY <1>1 DEF Open, TypeOK, ResyncsAt
<1>2. CASE Disconnect
  <2>1. blind' \in BOOLEAN
    BY <1>2 DEF Disconnect
  <2>2. /\ conn' = "down" /\ joined' = FALSE /\ chan' = <<>>
        /\ UNCHANGED <<serverVars, again, askVars, panelVars, buf>>
    BY <1>2 DEF Disconnect
  <2>3. chan' \in Seq(Messages) /\ Len(chan') <= MaxFlight
    BY <2>2, EmptiesTyped
  <2>4. /\ UNCHANGED <<run, tell, streak, outage, again, get, got, click, served>>
        /\ UNCHANGED <<reply, panel, locked, seen, ran, gap, buf>>
    BY <2>2
  <2> QED BY ONLY TypeOK, <2>1, <2>2, <2>3, <2>4 DEF TypeOK
<1>3. CASE Reload
  <2>1. seen' \in 0..MaxChanges
    BY <1>3 DEF Reload
  <2>2. /\ chan' \in Seq(Messages) /\ Len(chan') <= MaxFlight
        /\ buf' \in Seq(Results) /\ Len(buf') <= Window
    BY <1>3, EmptiesTyped DEF Reload
  <2>3. /\ conn' = "boot" /\ joined' = FALSE /\ again' = FALSE
        /\ get' = "asked" /\ got' = Paused /\ panel' = Paused
        /\ locked' = FALSE /\ ran' = FALSE /\ gap' = FALSE /\ blind' = TRUE
        /\ UNCHANGED <<serverVars, clickVars>>
    BY <1>3 DEF Reload
  <2> QED BY <2>1, <2>2, <2>3 DEF TypeOK
<1>4. CASE Restart
  <2>1. run' \in States
    BY <1>4, NextStateTyped DEF Restart
  <2>2. streak' \in 0..(Threshold + 1)
    BY <1>4, WindowAssumption DEF Restart
  <2>3. gap' \in BOOLEAN
    BY <1>4 DEF Restart
  <2>4. /\ tell' = FALSE /\ outage' = FALSE /\ conn' = "down"
        /\ joined' = FALSE /\ chan' = <<>> /\ blind' = TRUE
        /\ get' = "none" /\ got' = Paused
        /\ click' = "none" /\ served' = FALSE /\ reply' = Paused
        /\ UNCHANGED <<again, panel, locked, seen, ran, buf>>
    BY <1>4 DEF Restart
  <2> QED BY <2>1, <2>2, <2>3, <2>4, EmptiesTyped DEF TypeOK
<1> QED BY <1>1, <1>2, <1>3, <1>4

LEMMA TypeStep == TypeOK /\ [Next]_vars => TypeOK'
<1> SUFFICES ASSUME TypeOK, [Next]_vars PROVE TypeOK'
  OBVIOUS
<1>1. CASE UNCHANGED vars
  BY <1>1 DEF vars, serverVars, linkVars, getVars, clickVars, askVars, panelVars,
              tileVars, TypeOK
<1> QED BY <1>1, TypeServer, TypePanel, TypeDeliver, TypeLink DEF Next

\* The page's and the server's state keep their types; in particular the window
\* never outgrows MAX_SAMPLES_PER_HOST.
THEOREM TypeCorrect == Spec => []TypeOK
BY TypeInit, TypeStep, PTL DEF Spec
-----------------------------------------------------------------------------
(* ResultFrozen.  It is inductive together with what a click and a page    *)
(* that is still loading know.                                             *)

FInv ==
    /\ ResultFrozen
    /\ panel.active => ran
    /\ click = "stop" => ran
    /\ served => click # "none" /\ reply.active = (click = "start")
    /\ conn = "boot" => click = "none" /\ ~ran /\ ~locked /\ ~panel.active

\* The page shows a state and emits the event for the change it makes: the
\* result is frozen exactly if a run has ended.
LEMMA ShowEmits ==
    ASSUME TypeOK, FInv, NEW s \in States, Shows(s),
           Emits(panel.active, s.active)
    PROVE  ResultFrozen' /\ (panel'.active => ran') /\ (ran => ran')
<1>1. /\ panel.active \in BOOLEAN /\ s.active \in BOOLEAN
      /\ locked \in BOOLEAN /\ ran \in BOOLEAN
  BY DEF TypeOK, States
<1>2. panel' = s /\ ran' = (ran \/ s.active)
  BY DEF Shows
<1>3. locked' = IF panel.active = s.active THEN locked ELSE panel.active
  BY DEF Emits
<1>4. CASE panel.active = s.active
  BY <1>1, <1>2, <1>3, <1>4 DEF FInv, ResultFrozen
<1>5. CASE panel.active /\ ~s.active
  BY <1>1, <1>2, <1>3, <1>5 DEF FInv, ResultFrozen
<1>6. CASE ~panel.active /\ s.active
  BY <1>1, <1>2, <1>3, <1>6 DEF FInv, ResultFrozen
<1> QED BY <1>1, <1>4, <1>5, <1>6

LEMMA FrozenInit == Init => FInv
BY DEF Init, FInv, ResultFrozen, Paused

LEMMA FrozenServer ==
    ASSUME TypeOK, FInv, Server
    PROVE  FInv'
<1> USE DEF serverVars, linkVars, getVars, clickVars, askVars, panelVars, tileVars
<1>1. CASE OtherToggles
  BY <1>1 DEF OtherToggles, FInv, ResultFrozen
<1>2. CASE Serve
  <2>1. /\ click # "none" /\ reply' = run' /\ UNCHANGED <<click, conn, panelVars>>
    BY <1>2 DEF Serve
  <2>2. run'.active = (click = "start")
    <3>1. CASE run.active = (click = "start")
      BY <1>2, <3>1 DEF Serve
    <3>2. CASE run.active # (click = "start")
      BY <1>2, <3>2 DEF Serve, Becomes
    <3> QED BY <3>1, <3>2
  <2> QED BY <2>1, <2>2 DEF FInv, ResultFrozen
<1>3. CASE Tell
  BY <1>3 DEF Tell, FInv, ResultFrozen
<1>4. ASSUME NEW s \in Results, Ping(s) PROVE FInv'
  BY <1>4 DEF Ping, FInv, ResultFrozen
<1>5. CASE JoinHub
  BY <1>5 DEF JoinHub, FInv, ResultFrozen
<1> QED BY <1>1, <1>2, <1>3, <1>4, <1>5 DEF Server

LEMMA FrozenPanel ==
    ASSUME TypeOK, FInv, Panel
    PROVE  FInv'
<1> USE DEF serverVars, linkVars, getVars, clickVars, askVars, panelVars,
            tileVars, GetEnds, ClickEnds
<1>1. CASE Answers
  BY <1>1 DEF Answers, FInv, ResultFrozen
<1>2. CASE Bootstraps
  <2>1. /\ conn' = "down" /\ panel' = got /\ ran' = (ran \/ got.active)
        /\ UNCHANGED <<locked, clickVars>>
    BY <1>2 DEF Bootstraps, Shows
  <2>2. ~ran /\ ~locked /\ click = "none"
    BY <1>2 DEF Bootstraps, FInv
  <2> QED BY <2>1, <2>2 DEF FInv, ResultFrozen
<1>3. CASE Resyncs
  <2>1. got \in States /\ UNCHANGED <<conn, click, served, reply>> /\ conn # "boot"
    BY <1>3 DEF Resyncs, TypeOK
  <2>2. ResultFrozen' /\ (panel'.active => ran') /\ (ran => ran')
    BY <1>3, <2>1, ShowEmits DEF Resyncs
  <2> QED BY <2>1, <2>2 DEF FInv
<1>4. CASE GetFails
  BY <1>4 DEF GetFails, FInv, ResultFrozen
<1>5. CASE Click
  <2>1. ~served
    BY <1>5 DEF Click, FInv
  <2> QED BY <1>5, <2>1 DEF Click, FInv, ResultFrozen
<1>6. CASE ReplyArrives
  <2>1. /\ panel' = reply /\ ran' = (ran \/ reply.active)
        /\ locked' = IF (click = "stop") = reply.active THEN locked
                     ELSE click = "stop"
        /\ click' = "none" /\ served' = FALSE /\ conn' = conn
    BY <1>6 DEF ReplyArrives, Shows, ToggleEmits, Emits
  <2>2. /\ click \in {"start", "stop"} /\ reply.active = (click = "start")
        /\ click = "stop" => ran
        /\ conn # "boot"
    BY <1>6 DEF ReplyArrives, FInv, TypeOK
  <2> QED BY <2>1, <2>2 DEF FInv, ResultFrozen
<1>7. CASE ClickFails
  BY <1>7 DEF ClickFails, FInv, ResultFrozen
<1> QED BY <1>1, <1>2, <1>3, <1>4, <1>5, <1>6, <1>7 DEF Panel

LEMMA FrozenRest ==
    ASSUME TypeOK, FInv, Deliver \/ Open \/ Disconnect \/ Reload \/ Restart
    PROVE  FInv'
<1> USE DEF serverVars, linkVars, getVars, clickVars, askVars, panelVars,
            tileVars, GetEnds, ClickEnds
<1>1. CASE Deliver
  <2>1. conn # "boot" /\ UNCHANGED <<conn, click, served, reply>>
    BY <1>1 DEF Deliver
  <2>2. CASE UNCHANGED panelVars
    BY <2>1, <2>2 DEF FInv, ResultFrozen
  <2>3. CASE /\ Head(chan).type = "state" /\ Shows(Head(chan).state)
             /\ Emits(panel.active, Head(chan).state.active)
    <3>1. Head(chan).state \in States
      BY <1>1, <2>3, HandleTyped, MessageParts DEF Deliver
    <3>2. ResultFrozen' /\ (panel'.active => ran') /\ (ran => ran')
      BY <2>3, <3>1, ShowEmits
    <3> QED BY <2>1, <3>2 DEF FInv
  <2> QED BY <1>1, <2>2, <2>3 DEF Deliver
<1>2. CASE Open
  BY <1>2 DEF Open, FInv, ResultFrozen
<1>3. CASE Disconnect
  BY <1>3 DEF Disconnect, FInv, ResultFrozen
<1>4. CASE Reload
  BY <1>4 DEF Reload, FInv, ResultFrozen, Paused
<1>5. CASE Restart
  BY <1>5 DEF Restart, FInv, ResultFrozen
<1> QED BY <1>1, <1>2, <1>3, <1>4, <1>5

LEMMA FrozenStep == TypeOK /\ FInv /\ [Next]_vars => FInv'
<1> SUFFICES ASSUME TypeOK, FInv, [Next]_vars PROVE FInv'
  OBVIOUS
<1>1. CASE UNCHANGED vars
  BY <1>1 DEF vars, serverVars, linkVars, getVars, clickVars, askVars, panelVars,
              tileVars, FInv, ResultFrozen
<1> QED BY <1>1, FrozenServer, FrozenPanel, FrozenRest DEF Next

\* The success percentage is frozen exactly while the panel shows the end of a
\* run, in whichever order answers and messages arrive.
THEOREM FrozenResult == Spec => []ResultFrozen
<1>1. FInv => ResultFrozen
  BY DEF FInv
<1> QED BY <1>1, FrozenInit, FrozenStep, TypeCorrect, PTL DEF Spec
-----------------------------------------------------------------------------
(* PanelHearsAll.  Unless something was lost for good, the newest state is *)
(* known to the page or on its way to it.                                  *)

\* The page knows no state the server has not had.
NothingAhead ==
    /\ seen <= run.n /\ got.n <= run.n /\ reply.n <= run.n
    /\ \A i \in 1..Len(chan) : chan[i].type = "state" => chan[i].state.n <= run.n

InChannel == \E i \in 1..Len(chan) : /\ chan[i].type = "state"
                                     /\ chan[i].state.n = run.n

OnItsWay ==
    \/ seen = run.n
    \/ tell
    \/ get = "asked"
    \/ get = "answered" /\ got.n = run.n
    \/ conn = "down" /\ again
    \/ InChannel

NInv ==
    /\ NothingAhead
    /\ conn = "open" => again
    /\ conn = "boot" => ~again
    /\ joined => conn = "open"
    /\ ~gap => OnItsWay

LEMMA Numbers ==
    ASSUME TypeOK
    PROVE  /\ seen \in Nat /\ run.n \in Nat /\ got.n \in Nat /\ reply.n \in Nat
           /\ Len(chan) \in Nat
BY BoundsAssumption DEF TypeOK, States

\* A message that is sent stands behind the others.
LEMMA Sent ==
    ASSUME TypeOK, NEW m \in Messages, chan' = Append(chan, m)
    PROVE  /\ Len(chan') = Len(chan) + 1 /\ chan'[Len(chan) + 1] = m
           /\ \A i \in 1..Len(chan) : chan'[i] = chan[i]
BY DEF TypeOK

LEMMA Handled ==
    ASSUME TypeOK, chan # <<>>, chan' = Tail(chan)
    PROVE  /\ Len(chan) \in Nat \ {0} /\ Len(chan') = Len(chan) - 1
           /\ Head(chan) = chan[1]
           /\ \A i \in 1..Len(chan') : chan'[i] = chan[i + 1]
BY DEF TypeOK

\* A state that is shown is counted as seen.
LEMMA Seen ==
    ASSUME TypeOK, NothingAhead, NEW s \in States, s.n <= run.n, Shows(s)
    PROVE  /\ seen' <= run.n
           /\ seen = run.n \/ s.n = run.n => seen' = run.n
<1>1. seen \in Nat /\ run.n \in Nat /\ s.n \in Nat /\ seen <= run.n
  BY Numbers, BoundsAssumption DEF NothingAhead, States
<1> QED BY <1>1 DEF Shows

LEMMA NewsInit == Init => NInv
<1> SUFFICES ASSUME Init PROVE NInv
  OBVIOUS
<1>1. Len(chan) = 0 /\ get = "asked" /\ conn = "boot" /\ ~again /\ ~joined
  BY DEF Init
<1>2. seen = 0 /\ run.n = 0 /\ got.n = 0 /\ reply.n = 0
  BY DEF Init, Paused
<1> QED BY <1>1, <1>2 DEF NInv, NothingAhead, OnItsWay

LEMMA NewsServer ==
    ASSUME TypeOK, NInv, Server
    PROVE  NInv'
<1> USE Numbers
    DEF serverVars, linkVars, getVars, clickVars, askVars, panelVars, tileVars
<1>1. ASSUME NEW a, Becomes(a), UNCHANGED <<linkVars, chan, getVars, panelVars>>,
             reply' \in {reply, run'}
      PROVE  NInv'
  <2>1. run'.n = run.n + 1 /\ tell'
    BY <1>1 DEF Becomes
  <2>2. /\ seen <= run.n + 1 /\ got.n <= run.n + 1 /\ reply.n <= run.n + 1
        /\ \A i \in 1..Len(chan) :
              chan[i].type = "state" => chan[i].state.n <= run.n + 1
    <3>1. ASSUME NEW i \in 1..Len(chan), chan[i].type = "state"
          PROVE  chan[i].state.n \in Nat
      BY <3>1, MessageParts, BoundsAssumption DEF TypeOK, States
    <3> QED BY <3>1 DEF NInv, NothingAhead
  <2>3. NothingAhead'
    BY <1>1, <2>1, <2>2 DEF NothingAhead
  <2> QED BY <1>1, <2>1, <2>3 DEF NInv, OnItsWay
<1>2. CASE OtherToggles
  BY <1>1, <1>2 DEF OtherToggles
<1>3. CASE Serve
  <2>1. CASE run.active = (click = "start")
    <3>1. /\ ~tell /\ reply' = run /\ run' = run
          /\ UNCHANGED <<linkVars, chan, getVars, panelVars>>
      BY <1>3, <2>1 DEF Serve
    <3>2. NothingAhead'
      BY <3>1 DEF NInv, NothingAhead
    <3> QED BY <3>1, <3>2 DEF NInv, OnItsWay, InChannel
  <2>2. CASE run.active # (click = "start")
    BY <1>1, <1>3, <2>2 DEF Serve
  <2> QED BY <2>1, <2>2
<1>4. CASE Tell
  <2>1. UNCHANGED <<run, streak, outage, linkVars, askVars, panel, locked, seen,
                    ran, tileVars>>
    BY <1>4 DEF Tell
  <2>2. CASE joined
    <3>1. [type |-> "state", state |-> run] \in Messages
      BY StateMessage DEF TypeOK
    <3>2. /\ Len(chan') = Len(chan) + 1
          /\ chan'[Len(chan) + 1] = [type |-> "state", state |-> run]
          /\ \A i \in 1..Len(chan) : chan'[i] = chan[i]
      BY <1>4, <2>2, <3>1, Sent DEF Tell
    <3>3. InChannel'
      BY <2>1, <3>2 DEF InChannel
    <3>4. NothingAhead'
      BY <2>1, <3>2 DEF NInv, NothingAhead
    <3> QED BY <2>1, <3>3, <3>4 DEF NInv, OnItsWay
  <2>3. CASE ~joined
    <3>1. chan' = chan /\ gap' = (gap \/ Unheard)
      BY <1>4, <2>3 DEF Tell
    <3>2. NothingAhead'
      BY <2>1, <3>1 DEF NInv, NothingAhead
    <3>3. ~gap' => OnItsWay'
      BY <2>1, <2>3, <3>1 DEF Unheard, OnItsWay, NInv, TypeOK
    <3> QED BY <2>1, <3>2, <3>3 DEF NInv
  <2> QED BY <2>2, <2>3
<1>5. ASSUME NEW s \in Results, Ping(s) PROVE NInv'
  <2>1. UNCHANGED <<run, tell, linkVars, askVars, panelVars, buf>>
    BY <1>5 DEF Ping
  <2>2. CASE joined
    <3>1. [type |-> "sample", res |-> s] \in Messages
      BY SampleMessage
    <3>2. /\ Len(chan') = Len(chan) + 1
          /\ chan'[Len(chan) + 1] = [type |-> "sample", res |-> s]
          /\ \A i \in 1..Len(chan) : chan'[i] = chan[i]
      BY <1>5, <2>2, <3>1, Sent DEF Ping
    <3>3. InChannel => InChannel'
      BY <2>1, <3>2 DEF InChannel
    <3>4. NothingAhead'
      BY <2>1, <3>2 DEF NInv, NothingAhead
    <3> QED BY <2>1, <3>3, <3>4 DEF NInv, OnItsWay
  <2>3. CASE ~joined
    <3>1. chan' = chan
      BY <1>5, <2>3 DEF Ping
    <3> QED BY <2>1, <3>1 DEF NInv, NothingAhead, OnItsWay, InChannel
  <2> QED BY <2>2, <2>3
<1>6. CASE JoinHub
  BY <1>6 DEF JoinHub, NInv, NothingAhead, OnItsWay, InChannel
<1> QED BY <1>2, <1>3, <1>4, <1>5, <1>6 DEF Server

LEMMA NewsPanel ==
    ASSUME TypeOK, NInv, Panel
    PROVE  NInv'
<1> USE Numbers
    DEF serverVars, linkVars, getVars, clickVars, askVars, panelVars, tileVars
<1>0. Paused.n = 0
  BY DEF Paused
<1>1. CASE Answers
  BY <1>1 DEF Answers, NInv, NothingAhead, OnItsWay, InChannel
<1>2. CASE Bootstraps \/ Resyncs
  <2>1. /\ Shows(got) /\ get = "answered" /\ get' = "none" /\ got' = Paused
        /\ UNCHANGED <<serverVars, joined, again, chan, clickVars, gap>>
        /\ conn' = IF conn = "boot" THEN "down" ELSE conn
    BY <1>2 DEF Bootstraps, Resyncs, GetEnds
  <2>2. /\ seen' <= run.n
        /\ seen = run.n \/ got.n = run.n => seen' = run.n
    BY <2>1, Seen DEF NInv, NothingAhead, TypeOK
  <2>3. NothingAhead'
    BY <1>0, <2>1, <2>2 DEF NInv, NothingAhead
  <2>4. ~gap => OnItsWay'
    BY <2>1, <2>2 DEF NInv, OnItsWay, InChannel
  <2> QED BY <2>1, <2>3, <2>4 DEF NInv
<1>3. CASE GetFails
  <2>1. NothingAhead'
    BY <1>0, <1>3 DEF GetFails, GetEnds, NInv, NothingAhead
  <2> QED BY <1>3, <2>1 DEF GetFails, NInv
<1>4. CASE Click
  BY <1>4 DEF Click, NInv, NothingAhead, OnItsWay, InChannel
<1>5. CASE ReplyArrives
  <2>1. /\ Shows(reply) /\ reply' = Paused
        /\ UNCHANGED <<serverVars, linkVars, chan, getVars, gap>>
    BY <1>5 DEF ReplyArrives, ClickEnds
  <2>2. seen' <= run.n /\ (seen = run.n => seen' = run.n)
    BY <2>1, Seen DEF NInv, NothingAhead, TypeOK
  <2>3. NothingAhead'
    BY <1>0, <2>1, <2>2 DEF NInv, NothingAhead
  <2> QED BY <2>1, <2>2, <2>3 DEF NInv, OnItsWay, InChannel
<1>6. CASE ClickFails
  BY <1>0, <1>6
     DEF ClickFails, ClickEnds, NInv, NothingAhead, OnItsWay, InChannel
<1> QED BY <1>1, <1>2, <1>3, <1>4, <1>5, <1>6 DEF Panel

LEMMA NewsDeliver ==
    ASSUME TypeOK, NInv, Deliver
    PROVE  NInv'
<1> USE Numbers
    DEF serverVars, linkVars, getVars, clickVars, askVars, panelVars, tileVars
<1>1. /\ Len(chan) \in Nat \ {0} /\ Len(chan') = Len(chan) - 1
      /\ Head(chan) = chan[1] /\ Head(chan) \in Messages
      /\ \A i \in 1..Len(chan') : chan'[i] = chan[i + 1]
  BY Handled, HandleTyped DEF Deliver
<1>2. UNCHANGED <<serverVars, linkVars, askVars, gap>>
  BY DEF Deliver
<1>3. /\ seen' <= run.n
      /\ \/ seen = run.n
         \/ Head(chan).type = "state" /\ Head(chan).state.n = run.n
         => seen' = run.n
  <2>1. CASE Head(chan).type = "sample"
    BY <2>1 DEF Deliver, NInv, NothingAhead
  <2>2. CASE Head(chan).type = "state"
    <3>1. Head(chan).state \in States /\ Head(chan).state.n <= run.n
      BY <1>1, <2>2, MessageParts DEF NInv, NothingAhead
    <3> QED BY <2>2, <3>1, Seen DEF Deliver, NInv
  <2> QED BY <2>1, <2>2 DEF Deliver
<1>4. \A i \in 1..Len(chan') : chan'[i].type = "state" => chan'[i].state.n <= run.n
  <2>1. \A i \in 1..Len(chan) : chan[i].type = "state" => chan[i].state.n <= run.n
    BY DEF NInv, NothingAhead
  <2>2. \A i \in 1..Len(chan') : i + 1 \in 1..Len(chan)
    BY ONLY <1>1
  <2> QED BY ONLY <1>1, <2>1, <2>2
<1>5. InChannel => InChannel' \/ seen' = run.n
  <2> SUFFICES ASSUME NEW i \in 1..Len(chan), chan[i].type = "state",
                      chan[i].state.n = run.n
               PROVE  InChannel' \/ seen' = run.n
    BY DEF InChannel
  <2>1. CASE i = 1
    BY <1>1, <1>3, <2>1
  <2>2. CASE i # 1
    <3>1. i - 1 \in 1..Len(chan') /\ chan'[i - 1] = chan[i]
      BY <1>1, <2>2
    <3> QED BY <1>2, <3>1 DEF InChannel
  <2> QED BY <2>1, <2>2
<1> QED BY <1>2, <1>3, <1>4, <1>5 DEF NInv, NothingAhead, OnItsWay

LEMMA NewsLink ==
    ASSUME TypeOK, NInv, Open \/ Disconnect \/ Reload \/ Restart
    PROVE  NInv'
<1> USE Numbers
    DEF serverVars, linkVars, getVars, clickVars, askVars, panelVars, tileVars
<1>0. Paused.n = 0 /\ Len(<<>>) = 0
  BY DEF Paused
<1>1. CASE Open
  <2>1. NothingAhead'
    BY <1>0, <1>1 DEF Open, NInv, NothingAhead
  <2>2. CASE again
    BY <1>1, <2>1, <2>2 DEF Open, ResyncsAt, NInv, OnItsWay, TypeOK
  <2>3. CASE ~again
    BY <1>1, <2>1, <2>3 DEF Open, NInv, OnItsWay, InChannel, TypeOK
  <2> QED BY <2>2, <2>3
<1>2. CASE Disconnect
  <2>1. NothingAhead'
    BY <1>0, <1>2 DEF Disconnect, NInv, NothingAhead
  <2> QED BY <1>2, <2>1 DEF Disconnect, NInv, OnItsWay
<1>3. CASE Reload
  <2>1. NothingAhead'
    BY <1>0, <1>3 DEF Reload, NInv, NothingAhead
  <2> QED BY <1>3, <2>1 DEF Reload, NInv, OnItsWay
<1>4. CASE Restart
  <2>1. NothingAhead'
    BY <1>0, <1>4 DEF Restart, GetEnds, ClickEnds, NInv, NothingAhead
  <2> QED BY <1>4, <2>1 DEF Restart, NInv, OnItsWay
<1> QED BY <1>1, <1>2, <1>3, <1>4

LEMMA NewsStep == TypeOK /\ NInv /\ [Next]_vars => NInv'
<1> SUFFICES ASSUME TypeOK, NInv, [Next]_vars PROVE NInv'
  OBVIOUS
<1>1. CASE UNCHANGED vars
  BY <1>1 DEF vars, serverVars, linkVars, getVars, clickVars, askVars, panelVars,
              tileVars, NInv, NothingAhead, OnItsWay, InChannel
<1> QED BY <1>1, NewsServer, NewsPanel, NewsDeliver, NewsLink DEF Next

\* A connected page with nothing on its way has been told of the newest state,
\* unless a GET failed or the state fell between the answer to a GET and the
\* page's entry into the hub.
THEOREM PanelInformed == Spec => []PanelHearsAll
<1>1. NInv => PanelHearsAll
  <2> SUFFICES ASSUME NInv, Quiescent, ~gap PROVE seen = run.n
    BY DEF PanelHearsAll
  <2>1. ~InChannel
    BY DEF Quiescent, InChannel
  <2> QED BY <2>1 DEF NInv, OnItsWay, Quiescent
<1> QED BY <1>1, NewsInit, NewsStep, TypeCorrect, PTL DEF Spec

-----------------------------------------------------------------------------
(* The last success of a window.                                           *)

LastOk(b) == SelectLastInSeq(b, Succeeded)

LEMMA MaxExists ==
    ASSUME NEW n \in Nat, NEW T \in SUBSET (1..n), T # {}
    PROVE  Max(T) \in T /\ \A y \in T : Max(T) >= y
<1> DEFINE D == {n - i : i \in T}
           Less == OpToRel(<, Nat)
<1>0. \A i \in T : i \in Nat /\ n - i \in Nat
  OBVIOUS
<1>1. D \subseteq Nat /\ D # {}
  BY <1>0
<1>2. \E d \in D : \A y \in D : ~ (<<y, d>> \in Less)
  <2>1. IsWellFoundedOn(Less, Nat)
    BY NatLessThanWellFounded
  <2> HIDE DEF D, Less
  <2> QED BY <1>1, <2>1, WFMin
<1>3. PICK d \in D : \A y \in D : ~ (<<y, d>> \in Less)
  BY <1>2
<1>4. ASSUME NEW y \in D PROVE y >= d
  <2>1. y \in Nat /\ d \in Nat
    BY <1>1
  <2>2. y < d => <<y, d>> \in Less
    BY <2>1 DEF OpToRel
  <2> HIDE DEF Less
  <2> QED BY <1>3, <2>1, <2>2
<1>5. PICK x \in T : d = n - x
  BY <1>3
<1>6. ASSUME NEW y \in T PROVE x >= y
  <2>1. n - y >= n - x
    BY <1>4, <1>5
  <2>2. x \in Nat /\ y \in Nat
    BY <1>0
  <2> QED BY <2>1, <2>2
<1> QED BY <1>6 DEF Max

LEMMA LastIsLast ==
    ASSUME NEW b \in Seq(Results)
    PROVE  /\ LastOk(b) \in 0..Len(b)
           /\ LastOk(b) > 0 => b[LastOk(b)] \in {"online", "slow"}
           /\ \A i \in 1..Len(b) : i > LastOk(b) => b[i] = "fail"
<1> DEFINE I == {i \in 1..Len(b) : Succeeded(b[i])}
<1>1. LastOk(b) = IF I # {} THEN Max(I) ELSE 0
  BY DEF LastOk, SelectLastInSeq
<1>2. Len(b) \in Nat /\ \A i \in 1..Len(b) : b[i] \in Results
  OBVIOUS
<1>3. CASE I = {}
  BY <1>1, <1>2, <1>3 DEF Succeeded
<1>4. CASE I # {}
  <2>1. Max(I) \in I /\ \A y \in I : Max(I) >= y
    <3>1. I \in SUBSET (1..Len(b))
      OBVIOUS
    <3> HIDE DEF I
    <3> QED BY <1>2, <1>4, <3>1, MaxExists
  <2>2. LastOk(b) \in I /\ \A y \in I : LastOk(b) >= y
    BY <1>1, <1>4, <2>1
  <2>3. LastOk(b) \in 1..Len(b) /\ b[LastOk(b)] # "fail"
    BY <2>2 DEF Succeeded
  <2>4. ASSUME NEW i \in 1..Len(b), i > LastOk(b) PROVE b[i] = "fail"
    BY <1>2, <2>2, <2>3, <2>4 DEF Succeeded
  <2> QED BY <1>2, <2>3, <2>4 DEF Results
<1> QED BY <1>3, <1>4

LEMMA LastIsUnique ==
    ASSUME NEW b \in Seq(Results), NEW k \in 0..Len(b),
           k > 0 => b[k] # "fail",
           \A i \in 1..Len(b) : i > k => b[i] = "fail"
    PROVE  LastOk(b) = k
<1>1. /\ LastOk(b) \in 0..Len(b) /\ Len(b) \in Nat
      /\ LastOk(b) > 0 => b[LastOk(b)] # "fail"
      /\ \A i \in 1..Len(b) : i > LastOk(b) => b[i] = "fail"
  BY LastIsLast
<1>2. ~ (LastOk(b) < k)
  BY <1>1
<1>3. ~ (LastOk(b) > k)
  BY <1>1
<1> QED BY <1>1, <1>2, <1>3

LEMMA TrailingIs ==
    ASSUME NEW b \in Seq(Results)
    PROVE  Trailing(b) = Len(b) - LastOk(b) /\ Trailing(b) \in 0..Len(b)
<1>1. Trailing(b) = Len(b) - LastOk(b)
  BY DEF Trailing, LastOk
<1> QED BY <1>1, LastIsLast

LEMMA StatusIs ==
    ASSUME NEW b \in Seq(Results)
    PROVE  /\ IsOffline(b) <=> Trailing(b) >= Threshold
           /\ Status(b) = IF IsOffline(b) THEN "offline"
                          ELSE IF LastOk(b) > 0 THEN b[LastOk(b)] ELSE "idle"
           /\ Status(b) = "offline" <=> IsOffline(b)
<1>1. IsOffline(b) <=> Trailing(b) >= Threshold
  BY DEF IsOffline
<1>2. (\E i \in DOMAIN b : Succeeded(b[i])) <=> LastOk(b) > 0
  BY LastIsLast DEF Succeeded
<1>3. LatestSuccess(b) = b[LastOk(b)]
  BY DEF LatestSuccess, LastOk
<1>4. Status(b) = IF IsOffline(b) THEN "offline"
                  ELSE IF LastOk(b) > 0 THEN b[LastOk(b)] ELSE "idle"
  BY <1>2, <1>3 DEF Status
<1> QED BY <1>1, <1>4, LastIsLast

-----------------------------------------------------------------------------
(* One more sample.                                                        *)

\* A streak is not told apart past the threshold.
Sat(n) == IF n >= Threshold THEN Threshold ELSE n
StepOf(n, res) ==
    IF res # "fail" THEN 0 ELSE IF n = Threshold THEN n ELSE n + 1

LEMMA PushedSuccess ==
    ASSUME TypeOK, NEW s \in Results, s # "fail"
    PROVE  Trailing(Pushed(s)) = 0 /\ Status(Pushed(s)) = s
<1> DEFINE c == Pushed(s)
<1>1. c \in Seq(Results) /\ Len(c) \in Nat /\ Len(c) > 0 /\ c[Len(c)] = s
  <2>1. CASE Len(buf) = Window
    <3>1. buf # <<>> /\ buf \in Seq(Results)
      BY <2>1, WindowAssumption DEF TypeOK
    <3>2. Tail(buf) \in Seq(Results)
      BY <3>1
    <3>3. c = Append(Tail(buf), s)
      BY <2>1 DEF Pushed
    <3> HIDE DEF c
    <3> QED BY <3>2, <3>3
  <2>2. CASE Len(buf) # Window
    <3>1. c = Append(buf, s) /\ buf \in Seq(Results)
      BY <2>2 DEF Pushed, TypeOK
    <3> HIDE DEF c
    <3> QED BY <3>1
  <2> QED BY <2>1, <2>2
<1> HIDE DEF c
<1>2. LastOk(c) = Len(c)
  BY <1>1, LastIsUnique
<1>3. Trailing(c) = 0
  BY <1>1, <1>2, TrailingIs
<1>4. Status(c) = s
  BY <1>1, <1>2, <1>3, StatusIs, WindowAssumption
<1> QED BY <1>3, <1>4 DEF c

\* A failure: the window may lose its oldest sample, but only a failure or a
\* success that no longer matters.
LEMMA PushedFailure ==
    ASSUME TypeOK
    PROVE  LET c == Pushed("fail") IN
           /\ Sat(Trailing(c)) = StepOf(Sat(Trailing(buf)), "fail")
           /\ ~IsOffline(c) => Status(c) = Status(buf)
<1> DEFINE c == Pushed("fail")
<1>0. /\ Threshold \in Nat /\ Window \in Nat /\ 0 < Threshold /\ Threshold <= Window
      /\ "fail" \in Results
  BY WindowAssumption DEF Results
<1>1. /\ buf \in Seq(Results) /\ Len(buf) \in Nat /\ Len(buf) <= Window
      /\ c \in Seq(Results)
  BY <1>0, PushedTyped DEF TypeOK
<1>2. /\ LastOk(buf) \in 0..Len(buf)
      /\ LastOk(buf) > 0 => buf[LastOk(buf)] # "fail"
      /\ \A i \in 1..Len(buf) : i > LastOk(buf) => buf[i] = "fail"
  BY <1>1, LastIsLast
<1>3. Trailing(buf) = Len(buf) - LastOk(buf)
  BY <1>1, TrailingIs
<1>4. CASE Len(buf) # Window
  <2>1. c = Append(buf, "fail")
    BY <1>4 DEF Pushed
  <2> HIDE DEF c
  <2>2. /\ Len(c) = Len(buf) + 1
        /\ \A i \in 1..Len(buf) : c[i] = buf[i]
        /\ c[Len(buf) + 1] = "fail"
    BY <1>0, <1>1, <2>1
  <2>3. \A i \in 1..Len(c) : i > LastOk(buf) => c[i] = "fail"
    BY <1>1, <1>2, <2>2
  <2>4. LastOk(c) = LastOk(buf)
    BY <1>1, <1>2, <2>2, <2>3, LastIsUnique
  <2>5. LastOk(buf) > 0 => c[LastOk(c)] = buf[LastOk(buf)]
    BY <1>1, <1>2, <2>2, <2>4
  <2>6. Trailing(c) = Trailing(buf) + 1
    BY <1>1, <1>2, <1>3, <2>2, <2>4, TrailingIs
  <2>7. Trailing(buf) \in Nat
    BY <1>1, TrailingIs
  <2>8. Sat(Trailing(c)) = StepOf(Sat(Trailing(buf)), "fail")
    BY <1>0, <2>6, <2>7 DEF Sat, StepOf
  <2>9. ~IsOffline(c) => Status(c) = Status(buf)
    BY <1>0, <1>1, <2>4, <2>5, <2>6, <2>7, StatusIs
  <2> QED BY <2>8, <2>9 DEF c
<1>5. CASE Len(buf) = Window
  <2>1. c = Append(Tail(buf), "fail") /\ buf # <<>>
    BY <1>0, <1>1, <1>5 DEF Pushed
  <2> HIDE DEF c
  <2>2. /\ Tail(buf) \in Seq(Results) /\ Len(Tail(buf)) = Window - 1
        /\ \A i \in 1..(Window - 1) : Tail(buf)[i] = buf[i + 1]
    BY <1>1, <1>5, <2>1
  <2>3. /\ Len(c) = Window
        /\ \A i \in 1..(Window - 1) : c[i] = buf[i + 1]
        /\ c[Window] = "fail"
    BY <1>0, <2>1, <2>2
  <2>4. CASE LastOk(buf) = 0
    <3>1. \A i \in 1..Len(c) : c[i] = "fail"
      BY <1>0, <1>2, <1>5, <2>3, <2>4
    <3>2. LastOk(c) = 0
      BY <1>0, <1>1, <2>3, <3>1, LastIsUnique
    <3>3. Trailing(c) = Window /\ Trailing(buf) = Window
      BY <1>0, <1>1, <1>3, <1>5, <2>3, <2>4, <3>2, TrailingIs
    <3>4. Sat(Trailing(c)) = StepOf(Sat(Trailing(buf)), "fail")
      BY <1>0, <3>3 DEF Sat, StepOf
    <3>5. IsOffline(c)
      BY <1>0, <1>1, <3>3, StatusIs
    <3> QED BY <3>4, <3>5 DEF c
  <2>5. CASE LastOk(buf) # 0
    <3>0. LastOk(buf) \in 1..Window
      BY <1>2, <1>5, <2>5
    <3>1. \A i \in 1..Len(c) : i > LastOk(buf) - 1 => c[i] = "fail"
      <4> SUFFICES ASSUME NEW i \in 1..Window, i > LastOk(buf) - 1
                   PROVE  c[i] = "fail"
        BY <2>3
      <4>1. CASE i = Window
        BY <2>3, <4>1
      <4>2. CASE i # Window
        <5>1. i \in 1..(Window - 1) /\ i + 1 \in 1..Len(buf) /\ i + 1 > LastOk(buf)
          BY <1>0, <1>5, <3>0, <4>2
        <5> QED BY <1>2, <2>3, <5>1
      <4> QED BY <4>1, <4>2
    <3>2. LastOk(buf) - 1 > 0 => c[LastOk(buf) - 1] = buf[LastOk(buf)]
      BY <1>0, <2>3, <3>0
    <3>3. LastOk(buf) - 1 \in 0..Len(c)
      BY <1>0, <2>3, <3>0
    <3>4. LastOk(c) = LastOk(buf) - 1
      BY <1>1, <1>2, <3>0, <3>1, <3>2, <3>3, LastIsUnique
    <3>5. /\ Trailing(c) = Trailing(buf) + 1 /\ Trailing(buf) \in Nat
          /\ Trailing(c) = Window - LastOk(c)
      BY <1>0, <1>1, <1>3, <1>5, <2>3, <3>0, <3>4, TrailingIs
    <3>6. Sat(Trailing(c)) = StepOf(Sat(Trailing(buf)), "fail")
      BY <1>0, <3>5 DEF Sat, StepOf
    <3>7. ASSUME ~IsOffline(c) PROVE Status(c) = Status(buf)
      <4>1. Trailing(c) < Threshold
        BY <1>0, <1>1, <3>5, <3>7, StatusIs
      <4>2. LastOk(c) > 0 /\ ~IsOffline(buf)
        BY <1>0, <1>1, <3>0, <3>4, <3>5, <4>1, StatusIs
      <4> QED BY <1>1, <3>0, <3>2, <3>4, <3>7, <4>2, StatusIs
    <3> QED BY <3>6, <3>7 DEF c
  <2> QED BY <2>4, <2>5
<1> QED BY <1>4, <1>5

LEMMA PushedStep ==
    ASSUME TypeOK, NEW s \in Results
    PROVE  Sat(Trailing(Pushed(s))) = StepOf(Sat(Trailing(buf)), s)
<1>1. CASE s = "fail"
  BY <1>1, PushedFailure
<1>2. CASE s # "fail"
  BY <1>2, PushedSuccess, WindowAssumption DEF Sat, StepOf
<1> QED BY <1>1, <1>2

-----------------------------------------------------------------------------
(* The tile implements HostStatus.                                         *)

LEMMA EmptyWindow ==
    ASSUME NEW b \in Seq(Results), Len(b) = 0
    PROVE  Trailing(b) = 0 /\ ~IsOffline(b) /\ Status(b) = "idle"
<1>1. LastOk(b) \in 0..Len(b) /\ Trailing(b) \in 0..Len(b)
  BY LastIsLast, TrailingIs
<1>2. LastOk(b) = 0 /\ Trailing(b) = 0
  BY <1>1
<1>3. ~IsOffline(b)
  <2>1. Threshold \in Nat /\ 0 < Threshold
    BY WindowAssumption
  <2>2. IsOffline(b) <=> Trailing(b) >= Threshold
    BY StatusIs
  <2> QED BY <1>2, <2>1, <2>2
<1>4. Status(b) = IF IsOffline(b) THEN "offline"
                  ELSE IF LastOk(b) > 0 THEN b[LastOk(b)] ELSE "idle"
  BY StatusIs
<1> QED BY <1>2, <1>3, <1>4

LEMMA EmptyTile ==
    /\ Trailing(<<>>) = 0 /\ ~IsOffline(<<>>) /\ Status(<<>>) = "idle"
    /\ Sat(Trailing(<<>>)) = 0
<1>1. <<>> \in Seq(Results) /\ Len(<<>>) = 0
  OBVIOUS
<1>2. Trailing(<<>>) = 0 /\ ~IsOffline(<<>>) /\ Status(<<>>) = "idle"
  BY <1>1, EmptyWindow
<1> QED BY <1>2, WindowAssumption DEF Sat

\* What the tile remembers is the streak, counted no further than needed.
LEMMA TileStreak ==
    ASSUME NEW b \in Seq(Results)
    PROVE  (IF IsOffline(b) THEN Threshold ELSE Trailing(b)) = Sat(Trailing(b))
BY StatusIs DEF Sat

LEMMA StepBuf ==
    ASSUME TypeOK, [Next]_vars
    PROVE  \/ buf' = buf
           \/ buf' = <<>>
           \/ \E s \in Results : buf' = Pushed(s)
<1> USE DEF tileVars
<1>1. CASE Server
  BY <1>1 DEF Server, OtherToggles, Serve, Tell, Ping, JoinHub
<1>2. CASE Panel
  BY <1>2 DEF Panel, Answers, Bootstraps, Resyncs, GetFails, Click,
         ReplyArrives, ClickFails
<1>3. CASE Deliver
  <2>1. Head(chan) \in Messages
    BY <1>3, HandleTyped DEF Deliver
  <2> QED BY <1>3, <2>1, MessageParts DEF Deliver
<1>4. CASE Open \/ Disconnect \/ Reload \/ Restart \/ UNCHANGED vars
  BY <1>4 DEF Open, Disconnect, Reload, Restart, vars
<1> QED BY <1>1, <1>2, <1>3, <1>4 DEF Next

LEMMA TileMaps ==
    ASSUME TypeOK, TypeOK', [Next]_vars
    PROVE  [Tile!Next]_(<<IF IsOffline(buf) THEN Threshold ELSE Trailing(buf),
                          Status(buf)>>)
<1> DEFINE K(b) == IF IsOffline(b) THEN Threshold ELSE Trailing(b)
<1>1. buf \in Seq(Results) /\ buf' \in Seq(Results)
  BY DEF TypeOK
<1>2. /\ (IF IsOffline(buf) THEN Threshold ELSE Trailing(buf))' = K(buf')
      /\ Status(buf)' = Status(buf')
  BY DEF IsOffline, Trailing, Status, LatestSuccess
<1>3. K(buf) = Sat(Trailing(buf)) /\ K(buf') = Sat(Trailing(buf'))
  BY <1>1, TileStreak
<1>4. CASE buf' = buf
  BY <1>2, <1>4
<1>5. CASE buf' = <<>>
  <2>1. Tile!Forget
    BY <1>2, <1>3, <1>5, EmptyTile DEF Tile!Forget
  <2> QED BY <2>1 DEF Tile!Next
<1>6. ASSUME NEW s \in Results, buf' = Pushed(s) PROVE Tile!Next
  <2>1. K(buf') = StepOf(K(buf), s)
    BY <1>3, <1>6, PushedStep
  <2>2. CASE s # "fail"
    <3>1. K(buf') = 0 /\ Status(buf') = s /\ s \in {"online", "slow"}
      BY <1>6, <2>1, <2>2, PushedSuccess DEF StepOf, Results
    <3>2. Tile!Success
      BY <1>2, <3>1 DEF Tile!Success
    <3> QED BY <3>2 DEF Tile!Next
  <2>3. CASE s = "fail"
    <3>1. K(buf') = IF K(buf) = Threshold THEN K(buf) ELSE K(buf) + 1
      BY <2>1, <2>3 DEF StepOf
    <3>2. IsOffline(buf') <=> K(buf') = Threshold
      BY <1>1, StatusIs, TrailingIs, WindowAssumption
    <3>3. Status(buf') = IF K(buf') = Threshold THEN "offline" ELSE Status(buf)
      BY <1>1, <1>6, <2>3, <3>2, PushedFailure, StatusIs
    <3>4. Tile!Failure
      BY <1>2, <3>1, <3>3 DEF Tile!Failure
    <3> QED BY <3>4 DEF Tile!Next
  <2> QED BY <2>2, <2>3
<1> QED BY <1>4, <1>5, <1>6, StepBuf

\* Whatever window the page keeps, as long as it holds Threshold samples, the
\* status of the tile is the one all samples it was sent would yield.
THEOREM TileIsFaithful == Spec => ImplementsHostStatus
<1>1. Init => Tile!Init
  BY EmptyTile DEF Init, Tile!Init
<1>2. TypeOK /\ TypeOK' /\ [Next]_vars
        => [Tile!Next]_(<<IF IsOffline(buf) THEN Threshold ELSE Trailing(buf),
                          Status(buf)>>)
  BY TileMaps
<1> QED BY <1>1, <1>2, TypeCorrect, PTL DEF Spec, ImplementsHostStatus, Tile!Spec

-----------------------------------------------------------------------------
(* The tile agrees with the server.                                        *)

Judge(n, m) == IF m.type = "state" THEN n ELSE StepOf(n, m.res)

\* f[i] is the streak after the first i messages under way: it ends at the
\* server's, and begins at the tile's unless a sample got lost.
Explains(f, ch, str, bf, bl) ==
    /\ f \in [0..Len(ch) -> 0..Threshold]
    /\ \A i \in 1..Len(ch) : f[i] = Judge(f[i - 1], ch[i])
    /\ f[Len(ch)] = Sat(str)
    /\ ~bl => f[0] = Sat(Trailing(bf))

OutageIsStreak == outage <=> streak >= Threshold

TileInv ==
    /\ OutageIsStreak
    /\ ~joined => chan = <<>>
    /\ \E f : Explains(f, chan, streak, buf, blind)

LEMMA SatTyped ==
    /\ Threshold \in Nat /\ 0 < Threshold
    /\ 0 \in 0..Threshold
    /\ \A n \in 0..(Threshold + 1) : Sat(n) \in 0..Threshold
BY WindowAssumption DEF Sat

\* With nothing under way one number explains it.
LEMMA NothingUnderWay ==
    ASSUME NEW str \in 0..(Threshold + 1), NEW bf, NEW bl,
           ~bl => Sat(str) = Sat(Trailing(bf))
    PROVE  \E f : Explains(f, <<>>, str, bf, bl)
<1> DEFINE f == [i \in 0..0 |-> Sat(str)]
<1>1. Len(<<>>) = 0
  OBVIOUS
<1>2. Sat(str) \in 0..Threshold
  BY SatTyped
<1>3. f \in [0..Len(<<>>) -> 0..Threshold] /\ f[0] = Sat(str)
  BY <1>1, <1>2
<1>4. Explains(f, <<>>, str, bf, bl)
  BY <1>1, <1>3 DEF Explains
<1> QED BY <1>4

LEMMA MoreUnderWay ==
    ASSUME TypeOK, TileInv, NEW m \in Messages, NEW str,
           Sat(str) = Judge(Sat(streak), m), Sat(str) \in 0..Threshold
    PROVE  \E f : Explains(f, Append(chan, m), str, buf, blind)
<1> DEFINE ch == Append(chan, m)
<1>1. PICK f : Explains(f, chan, streak, buf, blind)
  BY DEF TileInv
<1> DEFINE g == [i \in 0..Len(ch) |-> IF i = Len(ch) THEN Sat(str) ELSE f[i]]
<1>2. /\ chan \in Seq(Messages) /\ Len(chan) \in Nat
      /\ Len(ch) = Len(chan) + 1
      /\ \A i \in 1..Len(chan) : ch[i] = chan[i]
      /\ ch[Len(chan) + 1] = m
  BY DEF TypeOK
<1> HIDE DEF ch
<1>3. f \in [0..Len(chan) -> 0..Threshold] /\ f[Len(chan)] = Sat(streak)
  BY <1>1 DEF Explains
<1>4. g \in [0..Len(ch) -> 0..Threshold]
  BY <1>2, <1>3
<1>5. /\ \A i \in 0..Len(chan) : g[i] = f[i]
      /\ g[Len(ch)] = Sat(str)
  BY <1>2
<1> HIDE DEF g
<1>6. ASSUME NEW i \in 1..Len(ch) PROVE g[i] = Judge(g[i - 1], ch[i])
  <2>1. CASE i = Len(ch)
    BY <1>2, <1>3, <1>5, <2>1
  <2>2. CASE i # Len(ch)
    <3>1. i \in 1..Len(chan) /\ i \in 0..Len(chan) /\ i - 1 \in 0..Len(chan)
      BY <1>2, <2>2
    <3> QED BY <1>1, <1>2, <1>5, <3>1 DEF Explains
  <2> QED BY <2>1, <2>2
<1>7. ~blind => g[0] = Sat(Trailing(buf))
  BY <1>1, <1>2, <1>5 DEF Explains
<1>8. Explains(g, ch, str, buf, blind)
  BY <1>4, <1>5, <1>6, <1>7 DEF Explains
<1> QED BY <1>8 DEF ch

\* Handling the first message moves the tile on to what explains the rest.
LEMMA LessUnderWay ==
    ASSUME TypeOK, TileInv, chan # <<>>, NEW bf, NEW bl,
           ~bl => \/ ~blind /\ Sat(Trailing(bf)) = Judge(Sat(Trailing(buf)), Head(chan))
                  \/ /\ Head(chan).type # "state" /\ Head(chan).res # "fail"
                     /\ Sat(Trailing(bf)) = 0
    PROVE  \E f : Explains(f, Tail(chan), streak, bf, bl)
<1> DEFINE ch == Tail(chan)
<1>1. PICK f : Explains(f, chan, streak, buf, blind)
  BY DEF TileInv
<1> DEFINE g == [i \in 0..Len(ch) |-> f[i + 1]]
<1>2. /\ chan \in Seq(Messages) /\ Len(chan) \in Nat \ {0}
      /\ Len(ch) = Len(chan) - 1
      /\ \A i \in 1..Len(ch) : ch[i] = chan[i + 1]
      /\ Head(chan) = chan[1]
  BY DEF TypeOK
<1> HIDE DEF ch
<1>3. f \in [0..Len(chan) -> 0..Threshold] /\ f[Len(chan)] = Sat(streak)
  BY <1>1 DEF Explains
<1>4. g \in [0..Len(ch) -> 0..Threshold]
  BY <1>2, <1>3
<1>5. \A i \in 0..Len(ch) : g[i] = f[i + 1]
  OBVIOUS
<1> HIDE DEF g
<1>6. ASSUME NEW i \in 1..Len(ch) PROVE g[i] = Judge(g[i - 1], ch[i])
  <2>1. /\ i + 1 \in 1..Len(chan) /\ i \in 0..Len(ch) /\ i - 1 \in 0..Len(ch)
        /\ (i + 1) - 1 = i /\ (i - 1) + 1 = i
    BY <1>2
  <2>2. f[i + 1] = Judge(f[(i + 1) - 1], chan[i + 1])
    BY <1>1, <2>1 DEF Explains
  <2> QED BY <1>2, <1>5, <2>1, <2>2
<1>7. g[Len(ch)] = Sat(streak)
  BY <1>2, <1>3, <1>5
<1>8. ASSUME ~bl PROVE g[0] = Sat(Trailing(bf))
  <2>1. g[0] = f[1] /\ 1 \in 1..Len(chan) /\ 1 - 1 = 0
    BY <1>2, <1>5
  <2>2. g[0] = Judge(f[0], Head(chan))
    BY <1>1, <1>2, <2>1 DEF Explains
  <2>3. ~blind => f[0] = Sat(Trailing(buf))
    BY <1>1 DEF Explains
  <2> QED BY <1>8, <2>2, <2>3 DEF Judge, StepOf
<1>9. Explains(g, ch, streak, bf, bl)
  BY <1>4, <1>6, <1>7, <1>8 DEF Explains
<1> QED BY <1>9 DEF ch

-----------------------------------------------------------------------------
LEMMA TileInit == Init => TileInv
<1> SUFFICES ASSUME Init PROVE TileInv
  OBVIOUS
<1>1. streak = 0 /\ buf = <<>> /\ chan = <<>> /\ ~outage /\ ~joined
  BY DEF Init
<1>2. 0 \in 0..(Threshold + 1) /\ Sat(0) = Sat(Trailing(<<>>))
  BY SatTyped, EmptyTile DEF Sat
<1>3. \E f : Explains(f, <<>>, 0, buf, blind)
  BY <1>1, <1>2, NothingUnderWay
<1> QED BY <1>1, <1>3, SatTyped DEF TileInv, OutageIsStreak

\* The server judges a ping as the tile will.
LEMMA PingJudges ==
    ASSUME TypeOK, OutageIsStreak, NEW s \in Results, Ping(s)
    PROVE  /\ Sat(streak') = StepOf(Sat(streak), s)
           /\ streak' \in 0..(Threshold + 1)
           /\ OutageIsStreak'
<1>1. streak \in 0..(Threshold + 1) /\ Threshold \in Nat /\ 0 < Threshold
  BY SatTyped DEF TypeOK
<1>2. CASE s = "fail"
  <2>1. streak' = IF streak > Threshold THEN streak ELSE streak + 1
    BY <1>2 DEF Ping
  <2>2. outage' = (outage \/ streak' = Threshold)
    BY <1>2 DEF Ping
  <2>3. Sat(streak') = StepOf(Sat(streak), s) /\ streak' \in 0..(Threshold + 1)
    BY <1>1, <1>2, <2>1 DEF Sat, StepOf
  <2>4. streak' >= Threshold <=> streak >= Threshold \/ streak' = Threshold
    BY <1>1, <2>1
  <2>5. OutageIsStreak'
    BY <2>2, <2>4 DEF OutageIsStreak
  <2> QED BY <2>3, <2>5
<1>3. CASE s # "fail"
  BY <1>1, <1>3 DEF Ping, Sat, StepOf, OutageIsStreak
<1> QED BY <1>2, <1>3

LEMMA TileServer ==
    ASSUME TypeOK, TileInv, Server
    PROVE  TileInv'
<1> USE DEF linkVars, tileVars
<1>0. streak \in 0..(Threshold + 1) /\ Sat(streak) \in 0..Threshold
  BY SatTyped DEF TypeOK
<1>1. CASE OtherToggles \/ Serve
  BY <1>1 DEF OtherToggles, Serve, TileInv, OutageIsStreak
<1>2. CASE Tell
  <2>1. UNCHANGED <<streak, outage, joined, buf, blind>>
    BY <1>2 DEF Tell
  <2>2. CASE joined
    <3>1. chan' = Append(chan, [type |-> "state", state |-> run])
      BY <1>2, <2>2 DEF Tell
    <3>2. [type |-> "state", state |-> run] \in Messages
      BY StateMessage DEF TypeOK
    <3>3. \E f : Explains(f, chan', streak, buf, blind)
      BY <1>0, <3>1, <3>2, MoreUnderWay DEF Judge
    <3> QED BY <2>1, <2>2, <3>3 DEF TileInv, OutageIsStreak
  <2>3. CASE ~joined
    BY <1>2, <2>1, <2>3 DEF Tell, TileInv, OutageIsStreak
  <2> QED BY <2>2, <2>3
<1>3. ASSUME NEW s \in Results, Ping(s) PROVE TileInv'
  <2>1. /\ Sat(streak') = StepOf(Sat(streak), s)
        /\ streak' \in 0..(Threshold + 1) /\ OutageIsStreak'
    BY <1>3, PingJudges DEF TileInv
  <2>2. joined' = joined /\ buf' = buf
    BY <1>3 DEF Ping
  <2>3. CASE joined
    <3>1. chan' = Append(chan, [type |-> "sample", res |-> s]) /\ blind' = blind
      BY <1>3, <2>3 DEF Ping
    <3>2. [type |-> "sample", res |-> s] \in Messages
      BY SampleMessage
    <3>3. Sat(streak') \in 0..Threshold
      BY <2>1, SatTyped
    <3>4. Sat(streak') = Judge(Sat(streak), [type |-> "sample", res |-> s])
      BY <2>1 DEF Judge
    <3>5. \E f : Explains(f, chan', streak', buf, blind)
      BY <3>1, <3>2, <3>3, <3>4, MoreUnderWay
    <3> QED BY <2>1, <2>2, <2>3, <3>1, <3>5 DEF TileInv
  <2>4. CASE ~joined
    <3>1. chan' = <<>> /\ blind'
      BY <1>3, <2>4 DEF Ping, TileInv
    <3>2. \E f : Explains(f, <<>>, streak', buf', blind')
      BY <2>1, <3>1, NothingUnderWay
    <3> QED BY <2>1, <3>1, <3>2 DEF TileInv
  <2> QED BY <2>3, <2>4
<1>4. CASE JoinHub
  BY <1>4 DEF JoinHub, TileInv, OutageIsStreak, serverVars
<1> QED BY <1>1, <1>2, <1>3, <1>4 DEF Server

LEMMA TileDeliver ==
    ASSUME TypeOK, TileInv, Deliver
    PROVE  TileInv'
<1>1. /\ chan # <<>> /\ chan' = Tail(chan) /\ Head(chan) \in Messages
      /\ UNCHANGED <<streak, outage, joined>>
  BY HandleTyped DEF Deliver, serverVars, linkVars
<1>2. joined
  BY <1>1 DEF TileInv
<1>3. CASE Head(chan).type = "state"
  <2>1. buf' = buf /\ blind' = blind
    BY <1>3 DEF Deliver, tileVars
  <2>2. Sat(Trailing(buf)) = Judge(Sat(Trailing(buf)), Head(chan))
    BY <1>3 DEF Judge
  <2>3. \E f : Explains(f, Tail(chan), streak, buf, blind)
    BY <1>1, <2>2, LessUnderWay
  <2> QED BY <1>1, <1>2, <2>1, <2>3 DEF TileInv, OutageIsStreak
<1>4. CASE Head(chan).type = "sample"
  <2> DEFINE s == Head(chan).res
  <2>1. /\ buf' = Pushed(s) /\ blind' = (blind /\ ~Succeeded(s))
        /\ s \in Results
    BY <1>1, <1>4, MessageParts DEF Deliver
  <2>2. Sat(Trailing(Pushed(s))) = StepOf(Sat(Trailing(buf)), s)
    BY <2>1, PushedStep
  <2>3. Judge(Sat(Trailing(buf)), Head(chan)) = StepOf(Sat(Trailing(buf)), s)
    BY <1>4 DEF Judge
  <2>4. s # "fail" => Sat(Trailing(Pushed(s))) = 0
    BY <2>2 DEF StepOf
  <2>5. ~blind' => ~blind \/ s # "fail"
    BY <2>1 DEF Succeeded
  <2>6. \E f : Explains(f, Tail(chan), streak, Pushed(s), blind')
    BY <1>1, <1>4, <2>2, <2>3, <2>4, <2>5, LessUnderWay
  <2> QED BY <1>1, <1>2, <2>1, <2>6 DEF TileInv, OutageIsStreak
<1> QED BY <1>3, <1>4 DEF Deliver

\* Losing the messages under way is noticed as soon as there were some.
LEMMA TileLink ==
    ASSUME TypeOK, TileInv, Disconnect \/ Reload \/ Restart
    PROVE  TileInv'
<1>1. streak' \in 0..(Threshold + 1) /\ chan' = <<>> /\ OutageIsStreak'
  <2>1. CASE Disconnect \/ Reload
    BY <2>1 DEF Disconnect, Reload, serverVars, TileInv, OutageIsStreak, TypeOK
  <2>2. CASE Restart
    BY <2>2, SatTyped DEF Restart, OutageIsStreak
  <2> QED BY <2>1, <2>2
<1>2. ~blind' => Sat(streak') = Sat(Trailing(buf'))
  <2>1. CASE Disconnect
    <3>1. ASSUME ~blind' PROVE chan = <<>> /\ ~blind
      BY <2>1, <3>1 DEF Disconnect
    <3>2. PICK f : Explains(f, chan, streak, buf, blind)
      BY DEF TileInv
    <3>3. chan = <<>> /\ ~blind => Sat(streak) = Sat(Trailing(buf))
      BY <3>2 DEF Explains
    <3> QED BY <2>1, <3>1, <3>3 DEF Disconnect, serverVars
  <2>2. CASE Reload \/ Restart
    BY <2>2 DEF Reload, Restart
  <2> QED BY <2>1, <2>2
<1>3. \E f : Explains(f, <<>>, streak', buf', blind')
  BY <1>1, <1>2, NothingUnderWay
<1> QED BY <1>1, <1>3 DEF TileInv

LEMMA TileStep == TypeOK /\ TileInv /\ [Next]_vars => TileInv'
<1> SUFFICES ASSUME TypeOK, TileInv, [Next]_vars PROVE TileInv'
  OBVIOUS
<1>1. ASSUME UNCHANGED <<streak, outage, joined, chan, buf, blind>>
      PROVE  TileInv'
  BY <1>1 DEF TileInv, OutageIsStreak
<1>2. CASE Server
  BY <1>2, TileServer
<1>3. CASE Panel
  BY <1>1, <1>3 DEF Panel, Answers, Bootstraps, Resyncs, GetFails, Click,
     ReplyArrives, ClickFails, serverVars, linkVars, tileVars
<1>4. CASE Deliver
  BY <1>4, TileDeliver
<1>5. CASE Open \/ UNCHANGED vars
  BY <1>1, <1>5 DEF Open, vars, serverVars, linkVars, tileVars
<1>6. CASE Disconnect \/ Reload \/ Restart
  BY <1>6, TileLink
<1> QED BY <1>2, <1>3, <1>4, <1>5, <1>6 DEF Next

\* Unless a sample got lost since the last success, a tile that has caught up
\* is offline exactly while the server has an outage open for its host, though
\* the one judges a window and the other counts.
THEOREM TileAgrees == Spec => []OfflineMeansOutage
<1>1. TypeOK /\ TileInv => OfflineMeansOutage
  <2> SUFFICES ASSUME TypeOK, TileInv, chan = <<>>, ~blind
               PROVE  Status(buf) = "offline" <=> outage
    BY DEF OfflineMeansOutage
  <2>1. PICK f : Explains(f, chan, streak, buf, blind)
    BY DEF TileInv
  <2>2. Sat(streak) = Sat(Trailing(buf))
    BY <2>1 DEF Explains
  <2>3. buf \in Seq(Results) /\ streak \in 0..(Threshold + 1)
    BY DEF TypeOK
  <2>4. Trailing(buf) \in Nat /\ Threshold \in Nat
    BY <2>3, TrailingIs, SatTyped
  <2>5. streak >= Threshold <=> Trailing(buf) >= Threshold
    BY <2>2, <2>3, <2>4 DEF Sat
  <2> QED BY <2>3, <2>5, StatusIs DEF TileInv, OutageIsStreak
<1> QED BY <1>1, TileInit, TileStep, TypeCorrect, PTL DEF Spec
=============================================================================
