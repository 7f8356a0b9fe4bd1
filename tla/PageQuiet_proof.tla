--------------------------- MODULE PageQuiet_proof ---------------------------
(***************************************************************************)
(* What the page shows when it is quiet: the motion of the bubbles is what *)
(* its attribute says, and the interval, the interface and the suggestions *)
(* are those of the server.  Then the types of all parts of the page.      *)
(***************************************************************************)
EXTENDS Page_proof, SequenceTheorems

-----------------------------------------------------------------------------
(* The loop and the focus scroll.  One frame is pending at most; one that  *)
(* moves removed bubbles finds none laid out anew.                         *)

LoopInv ==
    /\ \A f, g \in frames : f = g
    /\ \A f \in frames : f.id = handle
    /\ \A f \in frames : f.over = "old" => physicsItems # "now"
    /\ \A f \in frames : f = [id |-> f.id, over |-> f.over] /\ f.over \in {"old", "now"}
    /\ bound \/ attr = "running" => bubbles
    /\ attr = "running" => physicsItems = "now" /\ \E f \in frames : f.over = "now"
    /\ attr = "settled" =>
           /\ \A f \in frames : f.over # "now"
           /\ physicsItems = "now" => scale = target

GlideInv ==
    /\ gliding \in BOOLEAN /\ glideHandle \in BOOLEAN /\ (gliding <=> glideHandle)
    /\ gliding => glides = 1
    /\ ~gliding => glides = 0

LEMMA GlideStepKeeps ==
    ASSUME GlideInv, [MotionNext]_motionVars
    PROVE  GlideInv'
<1>1. 1 - 1 = 0 /\ 0 + 1 = 1
  OBVIOUS
<1>2. CASE UNCHANGED glideVars
  BY <1>2 DEF glideVars, GlideInv
<1>3. CASE CancelGlide
  <2>1. glides' = 0
    <3>1. CASE gliding
      BY <1>1, <1>3, <3>1 DEF CancelGlide, GlideInv
    <3>2. CASE ~gliding
      BY <1>3, <3>2 DEF CancelGlide, GlideInv
    <3> QED BY <3>1, <3>2
  <2> QED BY <1>3, <2>1, Zenon DEF CancelGlide, GlideInv
<1>4. CASE ScrollIntoFocus
  <2>1. CASE UNCHANGED glideVars
    BY <1>2, <2>1
  <2>2. CASE gliding' = TRUE /\ glideHandle' = TRUE
             /\ glides' = IF glideHandle THEN glides ELSE glides + 1
    <3>1. glides' = 1
      <4>1. CASE gliding
        BY <2>2, <4>1 DEF GlideInv
      <4>2. CASE ~gliding
        BY <1>1, <2>2, <4>2 DEF GlideInv
      <4> QED BY <4>1, <4>2
    <3> QED BY <2>2, <3>1, Zenon DEF GlideInv
  <2> QED BY <1>4, <2>1, <2>2 DEF ScrollIntoFocus
<1>5. CASE GlideStep
  <2>1. CASE UNCHANGED glideVars
    BY <1>2, <2>1
  <2>2. CASE glides > 0 /\ gliding' = FALSE /\ glides' = glides - 1 /\ glideHandle' = FALSE
    <3>1. glides = 1
      BY <2>2 DEF GlideInv
    <3>2. glides' = 0
      BY <2>2, <3>1
    <3> QED BY <2>2, <3>2, Zenon DEF GlideInv
  <2> QED BY <1>5, <2>1, <2>2 DEF GlideStep
<1> QED
  BY <1>2, <1>3, <1>4, <1>5
  DEF MotionNext, motionVars, LayoutNothing, LayOutAtRest, LayOutRunning, LayOut,
      WheelOverResults, Rerender, TurnTo, PointerEntersBubble, PointerLeavesBubble, Resize,
      FrameGoesOn, FrameSettles

LEMMA LoopStepKeeps ==
    ASSUME LoopInv, [MotionNext]_motionVars
    PROVE  LoopInv'
<1>1. CASE LayoutNothing
  BY <1>1 DEF LayoutNothing, CancelLoop, LoopInv
<1>2. CASE LayOutAtRest
  BY <1>2 DEF LayOutAtRest, LayOut, CancelLoop, LoopInv
<1>3. CASE LayOutRunning
  BY <1>3 DEF LayOutRunning, LayOut, Request, LoopInv
<1>4. ASSUME NEW b \in BOOLEAN, Rerender(b) PROVE LoopInv'
  <2>1. \A f \in frames : [f EXCEPT !.over = "old"] = [id |-> f.id, over |-> "old"]
    BY DEF LoopInv
  <2>2. \A f \in frames' : \E g \in frames : f = [id |-> g.id, over |-> "old"]
    BY <1>4, <2>1 DEF Rerender
  <2>3. \A f, g \in frames' : f = g
    BY <2>2 DEF LoopInv
  <2> QED BY <1>4, <2>2, <2>3 DEF Rerender, LoopInv
<1>5. ASSUME NEW b \in BOOLEAN, PointerEntersBubble(b) \/ PointerLeavesBubble(b)
      PROVE  LoopInv'
  <2>1. frames' = {[id |-> FreshId, over |-> "now"]} /\ handle' = FreshId
    BY <1>5 DEF PointerEntersBubble, PointerLeavesBubble, StartLoop, Kept, Request, LoopInv
  <2> QED
    BY <1>5, <2>1 DEF PointerEntersBubble, PointerLeavesBubble, StartLoop, LoopInv
<1>6. ASSUME NEW f \in frames, FrameGoesOn(f) PROVE LoopInv'
  <2>1. frames' = {[id |-> FreshId, over |-> f.over]} /\ handle' = FreshId
    BY <1>6 DEF FrameGoesOn, Request, LoopInv
  <2> QED BY <1>6, <2>1 DEF FrameGoesOn, LoopInv
<1>7. ASSUME NEW f \in frames, FrameSettles(f) PROVE LoopInv'
  <2>1. frames' = {}
    BY <1>7 DEF FrameSettles, LoopInv
  <2> QED BY <1>7, <2>1 DEF FrameSettles, LoopInv
<1>8. CASE UNCHANGED <<bubbles, bound, bubbleVars, loopVars>>
  BY <1>8 DEF bubbleVars, loopVars, LoopInv
<1>9. CASE WheelOverResults \/ GlideStep \/ \E b \in BOOLEAN : TurnTo(b)
  BY <1>8, <1>9 DEF WheelOverResults, GlideStep, TurnTo
<1>10. ASSUME NEW w \in Widths, Resize(w) PROVE LoopInv'
  BY <1>8, <1>10 DEF Resize
<1>11. CASE UNCHANGED motionVars
  BY <1>8, <1>11 DEF motionVars
<1> QED BY <1>1, <1>2, <1>3, <1>4, <1>5, <1>6, <1>7, <1>9, <1>10, <1>11 DEF MotionNext

\* The attribute of the bubbles tells whether a loop moves them, one frame at
\* most is pending, and a focus scroll lasts as long as its target.
THEOREM MotionTruthful == PageSpec => []MotionIsTruthful
<1>1. PageInit => LoopInv /\ GlideInv
  BY DEF PageInit, MotionInit, LoopInv, GlideInv
<1>2. LoopInv /\ GlideInv /\ [PageNext]_pageVars => LoopInv' /\ GlideInv'
  BY StepsOfParts, LoopStepKeeps, GlideStepKeeps
<1>3. LoopInv /\ GlideInv => MotionIsTruthful
  BY DEF LoopInv, GlideInv, MotionIsTruthful
<1> QED BY <1>1, <1>2, <1>3, PTL DEF PageSpec
-----------------------------------------------------------------------------
(* The interface.  A request made alone carries its interface from station *)
(* to station.                                                             *)

ChoicesTyped ==
    choices \subseteq [id : 1..MaxChoices, name : Interfaces, at : Stations, mine : BOOLEAN]

ChoiceInv ==
    /\ ~raced => /\ \A c, d \in choices : c = d
                 /\ choices = {} => binding = setting
                 /\ \A c \in choices : /\ c.at \in {"bind", "answer"} => setting = c.name
                                       /\ c.at = "answer" => binding = c.name
    /\ ~unshown => /\ \A c, d \in choices : c = d
                   /\ choices = {} => label = setting
                   /\ \A c \in choices : /\ c.mine
                                         /\ c.at \in {"bind", "answer"} => setting = c.name

LEMMA ChoicesStayTyped ==
    ASSUME ChoicesTyped, [InterfaceNext]_interfaceVars
    PROVE  ChoicesTyped'
<1>1. ASSUME NEW n \in Interfaces, NEW mine \in BOOLEAN, Choose(n, mine) PROVE ChoicesTyped'
  BY <1>1 DEF Choose, ChoicesTyped, Stations
<1>2. CASE RefreshNetworkInterface \/ RefreshFails
  <2>1. choices' = {[c EXCEPT !.mine = FALSE] : c \in choices}
    BY <1>2 DEF RefreshNetworkInterface, RefreshFails, Reload
  <2> QED BY <2>1 DEF ChoicesTyped
<1>3. ASSUME NEW c \in choices, SetSetting(c) \/ SetPingInterface(c) PROVE ChoicesTyped'
  BY <1>3 DEF SetSetting, SetPingInterface, At, ChoicesTyped, Stations
<1>4. ASSUME NEW c \in choices, ChoiceFails(c) \/ Chosen(c) PROVE ChoicesTyped'
  BY <1>4 DEF ChoiceFails, Chosen, ChoicesTyped
<1>5. CASE Restart \/ UNCHANGED interfaceVars
  BY <1>5 DEF Restart, interfaceVars, ChoicesTyped
<1> QED BY <1>1, <1>2, <1>3, <1>4, <1>5 DEF InterfaceNext

\* A request goes on, and keeps what it is about; if it was the only one it is
\* the only one still.
LEMMA ChoiceMoves ==
    ASSUME ChoicesTyped, NEW c \in choices,
           NEW station, NEW next \in Stations, At(c, station, next)
    PROVE  /\ c.at = station /\ raced' = raced /\ unshown' = unshown /\ label' = label
           /\ choices' # {}
           /\ (\A d, e \in choices : d = e) =>
                  /\ \A d \in choices' : d.at = next /\ d.name = c.name /\ d.mine = c.mine
                  /\ \A d, e \in choices' : d = e
<1> DEFINE gone == [c EXCEPT !.at = next]
<1>1. gone.at = next /\ gone.name = c.name /\ gone.mine = c.mine
  BY DEF ChoicesTyped
<1>2. choices' = (choices \ {c}) \cup {gone} /\ c.at = station
      /\ UNCHANGED <<label, raced, unshown>>
  BY DEF At
<1> HIDE DEF gone
<1> QED BY <1>1, <1>2

LEMMA ChoiceStep ==
    ASSUME ChoicesTyped, ChoiceInv, [InterfaceNext]_interfaceVars
    PROVE  ChoiceInv'
<1>1. ASSUME NEW n \in Interfaces, NEW mine \in BOOLEAN, Choose(n, mine)
      PROVE  ChoiceInv'
  <2>1. CASE choices # {}
    BY <1>1, <2>1 DEF Choose, ChoiceInv
  <2>2. CASE choices = {}
    <3>1. PICK id \in 1..MaxChoices :
              choices' = {[id |-> id, name |-> n, at |-> "save", mine |-> mine]}
      BY <1>1, <2>2 DEF Choose
    <3>2. /\ choices' # {} /\ \A c, d \in choices' : c = d
          /\ \A c \in choices' : c.at = "save" /\ c.mine = mine
      BY <3>1
    <3>3. unshown' = ~mine
      BY <1>1, <2>2 DEF Choose
    <3> QED BY <3>2, <3>3 DEF ChoiceInv
  <2> QED BY <2>1, <2>2
<1>2. CASE RefreshNetworkInterface \/ RefreshFails
  <2>1. \A c \in choices : /\ [c EXCEPT !.mine = FALSE].at = c.at
                           /\ [c EXCEPT !.mine = FALSE].name = c.name
    BY DEF ChoicesTyped
  <2>2. \A d \in choices' : \E c \in choices :
            d = [c EXCEPT !.mine = FALSE] /\ d.at = c.at /\ d.name = c.name
    <3>1. choices' = {[c EXCEPT !.mine = FALSE] : c \in choices}
      BY <1>2 DEF RefreshNetworkInterface, RefreshFails, Reload
    <3> QED BY <2>1, <3>1
  <2>5. (\A c, d \in choices : c = d) => \A c, d \in choices' : c = d
    BY <2>2
  <2>3. choices' = {} <=> choices = {}
    BY <1>2 DEF RefreshNetworkInterface, RefreshFails, Reload
  <2>4. /\ ~unshown' => choices = {} /\ label' = setting
        /\ UNCHANGED <<setting, binding, raced>>
    BY <1>2 DEF RefreshNetworkInterface, RefreshFails, Reload
  <2>6. CASE raced
    BY <2>3, <2>4, <2>6 DEF ChoiceInv
  <2>7. CASE ~raced
    <3>1. \A c \in choices' : /\ c.at \in {"bind", "answer"} => setting' = c.name
                              /\ c.at = "answer" => binding' = c.name
      BY <2>2, <2>4, <2>7 DEF ChoiceInv
    <3>2. \A c, d \in choices' : c = d
      BY <2>5, <2>7 DEF ChoiceInv
    <3>3. choices' = {} => binding' = setting'
      BY <2>3, <2>4, <2>7 DEF ChoiceInv
    <3>4. ~unshown' => choices' = {} /\ label' = setting'
      BY <2>3, <2>4
    <3> QED BY <3>1, <3>2, <3>3, <3>4 DEF ChoiceInv
  <2> QED BY <2>6, <2>7
<1>3. CASE Restart
  BY <1>3 DEF Restart, ChoiceInv
<1>4. ASSUME NEW c \in choices, SetSetting(c) PROVE ChoiceInv'
  <2>1. At(c, "save", "bind") /\ setting' = c.name /\ binding' = binding
    BY <1>4 DEF SetSetting
  <2> QED BY <2>1, ChoiceMoves DEF ChoiceInv, Stations
<1>5. ASSUME NEW c \in choices, SetPingInterface(c) PROVE ChoiceInv'
  <2>1. At(c, "bind", "answer") /\ binding' = c.name /\ setting' = setting
    BY <1>5 DEF SetPingInterface
  <2> QED BY <2>1, ChoiceMoves DEF ChoiceInv, Stations
<1>6. ASSUME NEW c \in choices, ChoiceFails(c) PROVE ChoiceInv'
  BY <1>6 DEF ChoiceFails, ChoiceInv
<1>7. ASSUME NEW c \in choices, Chosen(c) PROVE ChoiceInv'
  BY <1>7 DEF Chosen, ChoiceInv
<1>8. CASE UNCHANGED interfaceVars
  BY <1>8 DEF interfaceVars, ChoiceInv
<1> QED BY <1>1, <1>2, <1>3, <1>4, <1>5, <1>6, <1>7, <1>8 DEF InterfaceNext

-----------------------------------------------------------------------------
(* The inbox.  Whatever the page was not shown is announced, waited for,   *)
(* or being fetched.                                                       *)

InboxInv ==
    /\ truth \in Nat /\ news \in Nat /\ items \in Nat /\ newest \in Nat
    /\ items <= newest /\ newest <= truth
    /\ fetches \subseteq [id : 1..MaxFetches, served : BOOLEAN, at : Nat]
    /\ \A f \in fetches : f.at <= truth
    /\ link # "lost" /\ ~missed /\ ~unheard =>
           \/ newest = truth \/ news > 0 \/ timer \/ acting = "dismissed"
           \/ \E f \in fetches : ~f.served \/ f.at = truth

LEMMA InboxStep ==
    ASSUME InboxInv, SuggestionsTypeOK, [SuggestionsNext]_inboxVars
    PROVE  InboxInv'
<1> USE SuggestionConstants
<1>0. link \in {"boot", "opening", "open", "deaf", "lost"}
  BY DEF SuggestionsTypeOK
<1>1. CASE OthersChange \/ AcceptDone
  <2>1. Announced /\ UNCHANGED <<link, fetches, timer, items, newest, missed>>
    BY <1>1 DEF OthersChange, AcceptDone
  <2>2. link = "open" => news' > 0
    BY <2>1 DEF Announced, InboxInv
  <2>3. link \in {"boot", "opening", "deaf"} => unheard'
    BY <2>1 DEF Announced
  <2>4. news' \in Nat /\ truth' = truth + 1
    BY <2>1 DEF Announced, Changes, InboxInv
  <2> QED BY <1>0, <2>1, <2>2, <2>3, <2>4 DEF InboxInv
<1>2. CASE ChangesSilently \/ DismissDone
  BY <1>2 DEF ChangesSilently, DismissDone, Changes, InboxInv
<1>3. CASE ScheduleSuggestionsRefresh
  BY <1>3 DEF ScheduleSuggestionsRefresh, InboxInv
<1>4. CASE TimerFires \/ ActAnswered \/ Reconnect
  <2>1. PICK id \in 1..MaxFetches :
            fetches' = fetches \cup {[id |-> id, served |-> FALSE, at |-> 0]}
    BY <1>4 DEF TimerFires, ActAnswered, Reconnect, Refresh
  <2> DEFINE asked == [id |-> id, served |-> FALSE, at |-> 0]
  <2>2. asked \in fetches' /\ ~asked.served /\ asked.at = 0
    BY <2>1
  <2>3. asked \in [id : 1..MaxFetches, served : BOOLEAN, at : Nat]
    OBVIOUS
  <2> HIDE DEF asked
  <2>4. fetches' = fetches \cup {asked}
    BY <2>1 DEF asked
  <2>5. UNCHANGED <<truth, items, newest, news>>
    BY <1>4 DEF TimerFires, ActAnswered, Reconnect
  <2> QED BY <2>2, <2>3, <2>4, <2>5 DEF InboxInv
<1>5. CASE Act \/ ActFails \/ Connect \/ HubDrops
  BY <1>5 DEF Act, ActFails, Connect, HubDrops, InboxInv
<1>6. CASE Disconnect
  BY <1>6 DEF Disconnect, InboxInv
<1>7. ASSUME NEW f \in fetches, Served(f) PROVE InboxInv'
  <2> DEFINE late == [f EXCEPT !.served = TRUE, !.at = truth]
  <2>1. late \in [id : 1..MaxFetches, served : BOOLEAN, at : Nat] /\ late.at = truth
    BY DEF InboxInv
  <2>2. fetches' = (fetches \ {f}) \cup {late}
    BY <1>7 DEF Served
  <2> HIDE DEF late
  <2>3. UNCHANGED <<truth, news, link, timer, acting, items, newest, missed>>
    BY <1>7 DEF Served
  <2> QED BY <2>1, <2>2, <2>3 DEF InboxInv
<1>8. ASSUME NEW f \in fetches, Shown(f) PROVE InboxInv'
  <2>1. link # "lost" <=> link' # "lost"
    BY <1>8 DEF Shown, BootstrapGoesOn
  <2> QED BY <1>8, <2>1 DEF Shown, InboxInv
<1>9. ASSUME NEW f \in fetches, FetchFails(f) PROVE InboxInv'
  BY <1>9 DEF FetchFails, InboxInv
<1>10. CASE UNCHANGED inboxVars
  BY <1>10 DEF inboxVars, InboxInv
<1> QED BY <1>1, <1>2, <1>3, <1>4, <1>5, <1>6, <1>7, <1>8, <1>9, <1>10 DEF SuggestionsNext
\* A message is on its way for a change made, so there are no more of them.
InboxTyped == SuggestionsTypeOK /\ news <= truth

LEMMA InboxStaysTyped ==
    ASSUME InboxTyped, [SuggestionsNext]_inboxVars
    PROVE  InboxTyped'
<1> USE DEF InboxTyped, SuggestionsTypeOK
<1>0. MaxVersions \in Nat /\ truth \in 0..MaxVersions
  BY SuggestionConstants
<1>1. ASSUME Refresh
      PROVE  /\ fetches' \subseteq [id : 1..MaxFetches, served : BOOLEAN, at : 0..MaxVersions]
             /\ missed' \in BOOLEAN
  <2>1. PICK id \in 1..MaxFetches :
          /\ fetches' = fetches \cup {[id |-> id, served |-> FALSE, at |-> 0]}
          /\ missed' = FALSE
    BY <1>1 DEF Refresh
  <2>2. [id |-> id, served |-> FALSE, at |-> 0]
          \in [id : 1..MaxFetches, served : BOOLEAN, at : 0..MaxVersions]
    BY <1>0
  <2> QED BY <2>1, <2>2
<1>2. ASSUME Changes PROVE truth' \in 0..MaxVersions /\ truth' = truth + 1 /\ news <= truth'
  BY <1>0, <1>2 DEF Changes
<1>3. ASSUME Announced
      PROVE  /\ truth' \in 0..MaxVersions /\ news' \in 0..MaxVersions /\ news' <= truth'
             /\ unheard' \in BOOLEAN
  <2>1. news' \in 0..MaxVersions /\ news' <= truth'
    BY <1>0, <1>2, <1>3 DEF Announced
  <2>2. unheard' \in BOOLEAN
    BY <1>3 DEF Announced
  <2> QED BY <1>2, <1>3, <2>1, <2>2 DEF Announced
<1>4. CASE OthersChange \/ AcceptDone
  BY <1>3, <1>4 DEF OthersChange, AcceptDone
<1>5. CASE ChangesSilently \/ DismissDone
  BY <1>2, <1>5 DEF ChangesSilently, DismissDone
<1>6. CASE ScheduleSuggestionsRefresh
  <2>1. news' \in 0..MaxVersions /\ news' <= truth
    BY <1>0, <1>6 DEF ScheduleSuggestionsRefresh
  <2> QED BY <1>6, <2>1 DEF ScheduleSuggestionsRefresh
<1>7. CASE TimerFires \/ ActAnswered \/ Reconnect
  BY <1>1, <1>7 DEF TimerFires, ActAnswered, Reconnect
<1>8. CASE Act \/ ActFails
  <2>1. unheard' \in BOOLEAN
    BY <1>8 DEF Act, ActFails
  <2> QED BY <1>8, <2>1 DEF Act, ActFails
<1>9. CASE Connect \/ HubDrops
  BY <1>9 DEF Connect, HubDrops
<1>10. CASE Disconnect
  <2>1. 0 \in 0..MaxVersions /\ 0 <= truth
    BY <1>0
  <2> QED BY <1>10, <2>1 DEF Disconnect
<1>11. ASSUME NEW f \in fetches, Served(f) PROVE InboxTyped'
  <2>1. [f EXCEPT !.served = TRUE, !.at = truth]
          \in [id : 1..MaxFetches, served : BOOLEAN, at : 0..MaxVersions]
    OBVIOUS
  <2> QED BY <1>11, <2>1 DEF Served
<1>12. ASSUME NEW f \in fetches, Shown(f) \/ FetchFails(f) PROVE InboxTyped'
  <2>1. link' \in {"boot", "opening", "open", "deaf", "lost"}
    BY <1>12 DEF Shown, FetchFails, BootstrapGoesOn
  <2> QED BY <1>12, <2>1 DEF Shown, FetchFails
<1>13. CASE UNCHANGED inboxVars
  BY <1>13 DEF inboxVars
<1> QED BY <1>4, <1>5, <1>6, <1>7, <1>8, <1>9, <1>10, <1>11, <1>12, <1>13 DEF SuggestionsNext

LEMMA InboxAtStart == ASSUME SuggestionsInit PROVE InboxInv /\ InboxTyped
<1>1. MaxVersions \in Nat /\ 0 \in 0..MaxVersions /\ 1 \in 0..MaxVersions /\ 1 \in 1..MaxFetches
  BY SuggestionConstants
<1>2. PICK first \in [id : 1..MaxFetches, served : BOOLEAN, at : 0..MaxVersions] :
          first = [id |-> 1, served |-> FALSE, at |-> 0] /\ first.at = 0 /\ first.served = FALSE
  <2>1. /\ [id |-> 1, served |-> FALSE, at |-> 0]
                \in [id : 1..MaxFetches, served : BOOLEAN, at : 0..MaxVersions]
        /\ [id |-> 1, served |-> FALSE, at |-> 0].at = 0
        /\ [id |-> 1, served |-> FALSE, at |-> 0].served = FALSE
    BY <1>1
  <2> QED BY <2>1
<1>3. fetches \subseteq {first} /\ link \in {"boot", "opening"} /\ missed \in BOOLEAN
      /\ (first \in fetches \/ missed)
  BY <1>2 DEF SuggestionsInit
<1>4. /\ truth = 1 /\ news = 0 /\ timer = FALSE /\ acting = "no"
      /\ items = 0 /\ newest = 0 /\ unheard = FALSE
  BY DEF SuggestionsInit
<1>5. InboxInv
  <2>1. first \in [id : 1..MaxFetches, served : BOOLEAN, at : Nat]
    BY <1>1, <1>2
  <2>2. fetches \subseteq [id : 1..MaxFetches, served : BOOLEAN, at : Nat]
    BY <1>3, <2>1
  <2>4. \A f \in fetches : f.at <= truth
    <3>1. 0 <= 1
      OBVIOUS
    <3> QED BY <1>2, <1>3, <1>4, <3>1
  <2>3. ~missed => \E f \in fetches : ~f.served
    BY <1>2, <1>3
  <2> QED BY <1>4, <2>2, <2>3, <2>4 DEF InboxInv
<1>6. InboxTyped
  <2>1. fetches \subseteq [id : 1..MaxFetches, served : BOOLEAN, at : 0..MaxVersions]
    BY <1>2, <1>3
  <2>2. {truth, news, items, newest} \subseteq 0..MaxVersions /\ news <= truth
    BY <1>1, <1>4
  <2>3. {timer, missed, unheard} \subseteq BOOLEAN
    BY <1>3, <1>4, Zenon
  <2> QED BY <1>3, <1>4, <2>1, <2>2, <2>3 DEF InboxTyped, SuggestionsTypeOK
<1> QED BY <1>5, <1>6
-----------------------------------------------------------------------------
(* The intervals.  At most one batch is waited for; the others are what a  *)
(* failure left under way.                                                 *)

Batches == [id : Nat, value : Int, left : SUBSET IHosts, waiters : {0, 1}, settled : BOOLEAN]

IntervalsTyped ==
    /\ field \in Int /\ server \in [IHosts -> Int] /\ batches \subseteq Batches
    /\ applyingInterval \in Nat /\ disabled \in BOOLEAN /\ failed \in BOOLEAN

\* What may be put beside a new batch, after some trouble or none.
Leftovers(pending, trouble) ==
    /\ pending \subseteq Batches
    /\ \A b, c \in pending : b.id = c.id => b = c
    /\ \A b \in pending : b.id # 0 /\ b.settled /\ trouble

BatchesInv ==
    /\ \A b, c \in batches : b.id = c.id => b = c
    /\ \A b \in batches : /\ b.id # 0
                          /\ ~b.settled => b.id = applyingInterval
                          /\ b.settled => failed
    /\ disabled <=> applyingInterval # 0
    /\ disabled => \E b \in batches : b.id = applyingInterval /\ ~b.settled

ValuesInv ==
    ~failed =>
        /\ \A b \in batches : b.value = field
        /\ \A h \in IHosts \ apart : server[h] = field \/ \E b \in batches : h \in b.left

IntervalInv == IntervalsTyped /\ BatchesInv /\ (committed => ValuesInv)

LEMMA ClampIsInt == ASSUME NEW v \in Int PROVE ClampNumber(v) \in Int
BY PingSettingsConstants DEF ClampNumber

\* A call that starts a batch, or finds nothing to do.
LEMMA ApplyKeeps ==
    ASSUME field \in Int, server \in [IHosts -> Int], server' = server,
           NEW pending, NEW later \in {0, 1}, NEW trouble \in BOOLEAN,
           Leftovers(pending, trouble), Apply(pending, later, trouble)
    PROVE  IntervalsTyped' /\ BatchesInv' /\ ValuesInv'
<1> DEFINE value == ClampNumber(field)
           others == {h \in IHosts : known[h] # value}
           started(id) == [id |-> id, value |-> value, left |-> others,
                           waiters |-> later, settled |-> FALSE]
<1>1. value \in Int
  BY ClampIsInt
<1>2. /\ field' = value
      /\ apart' = {h \in IHosts \ others : server[h] # value}
      /\ failed' = (trouble /\ pending # {})
  BY DEF Apply
<1>3. failed' \in BOOLEAN /\ (pending # {} => failed')
  <2>1. pending # {} => trouble
    BY DEF Leftovers
  <2> QED BY <1>2, <2>1, Zenon
<1>4. \A h \in IHosts \ apart' : h \in others \/ server[h] = value
  BY <1>2
<1>5. CASE others = {}
  <2>1. batches' = pending /\ applyingInterval' = 0 /\ disabled' = FALSE
    BY <1>5 DEF Apply
  <2> HIDE DEF value, others
  <2>2. IntervalsTyped'
    BY <1>1, <1>2, <1>3, <2>1 DEF IntervalsTyped, Leftovers
  <2>3. BatchesInv'
    BY <1>3, <2>1 DEF BatchesInv, Leftovers
  <2>4. ValuesInv'
    BY <1>2, <1>3, <1>4, <1>5, <2>1 DEF ValuesInv
  <2> QED BY <2>2, <2>3, <2>4
<1>6. CASE others # {}
  <2>1. PICK id \in 1..MaxBatches :
            /\ \A b \in pending : b.id # id
            /\ batches' = pending \cup {started(id)}
            /\ applyingInterval' = id /\ disabled' = TRUE
    BY <1>6 DEF Apply
  <2>2. id \in Nat /\ id # 0
    BY PingSettingsConstants
  <2>3. /\ started(id) \in Batches
        /\ started(id).id = id /\ ~started(id).settled
        /\ started(id).value = value /\ started(id).left = others
    BY <1>1, <2>2 DEF Batches
  <2> DEFINE new == started(id)
  <2> HIDE DEF value, others, new
  <2>4. new \in Batches /\ new.id = id /\ ~new.settled /\ new.value = value /\ new.left = others
    BY <2>3 DEF new
  <2>5. batches' = pending \cup {new}
    BY <2>1 DEF new
  <2>6. IntervalsTyped'
    BY <1>1, <1>2, <1>3, <2>1, <2>2, <2>4, <2>5 DEF IntervalsTyped, Leftovers
  <2>7. BatchesInv'
    BY <1>3, <2>1, <2>2, <2>4, <2>5 DEF BatchesInv, Leftovers
  <2>8. ValuesInv'
    BY <1>2, <1>3, <1>4, <2>4, <2>5 DEF ValuesInv
  <2> QED BY <2>6, <2>7, <2>8
<1> QED BY <1>5, <1>6

\* The batch waited for is over; well, or with a failure that may leave some of
\* its requests under way.
LEMMA SettlesKeeps ==
    ASSUME IntervalInv, NEW b \in batches, ~b.settled,
           NEW remaining \in SUBSET b.left, NEW trouble \in BOOLEAN,
           Settles(b, remaining, trouble), UNCHANGED <<server, committed>>,
           ~trouble => ~failed /\ b.left = {}, failed => trouble
    PROVE  IntervalInv'
<1> DEFINE left == [b EXCEPT !.left = remaining, !.settled = TRUE, !.waiters = 0]
           rest == (batches \ {b}) \cup (IF remaining = {} THEN {} ELSE {left})
<1>1. b \in Batches /\ batches \subseteq Batches
  BY DEF IntervalInv, IntervalsTyped
<1>2. left \in Batches /\ left.id = b.id /\ left.settled
  BY <1>1 DEF Batches
<1>3. \A c \in batches \ {b} : c.settled /\ failed
  BY DEF IntervalInv, BatchesInv
<1>4. remaining # {} => trouble
  OBVIOUS
<1> HIDE DEF left
<1>5. Leftovers(rest, trouble)
  <2>1. \A c \in batches \ {b} : c.id # b.id /\ trouble
    BY <1>3 DEF IntervalInv, BatchesInv
  <2>2. b.id # 0
    BY DEF IntervalInv, BatchesInv
  <2>3. \A c, d \in rest : c.id = d.id => c = d
    BY <1>2, <2>1 DEF IntervalInv, BatchesInv
  <2> QED BY <1>1, <1>2, <1>3, <1>4, <2>1, <2>2, <2>3 DEF Leftovers, IntervalInv, BatchesInv
<1>6. CASE b.waiters = 1
  <2>1. Apply(rest, 0, trouble)
    BY <1>6 DEF Settles, left
  <2> HIDE DEF rest
  <2> QED BY <1>5, <2>1, ApplyKeeps DEF IntervalInv, IntervalsTyped
<1>7. CASE b.waiters # 1
  <2>1. /\ batches' = rest /\ applyingInterval' = 0 /\ disabled' = FALSE
        /\ failed' = trouble /\ UNCHANGED <<field, apart>>
    BY <1>7 DEF Settles, left
  <2>2. IntervalsTyped'
    BY <1>5, <2>1 DEF Leftovers, IntervalInv, IntervalsTyped
  <2>3. BatchesInv'
    BY <1>5, <2>1 DEF Leftovers, BatchesInv
  <2>4. committed' => ValuesInv'
    <3>1. CASE trouble
      BY <2>1, <3>1 DEF ValuesInv
    <3>2. CASE ~trouble
      <4>1. rest = {} /\ batches = {b} /\ b.left = {}
        BY <1>3, <1>4, <3>2
      <4> QED BY <2>1, <3>2, <4>1 DEF IntervalInv, ValuesInv
    <3> QED BY <3>1, <3>2
  <2> QED BY <2>2, <2>3, <2>4 DEF IntervalInv
<1> QED BY <1>6, <1>7

\* A batch goes on with fewer requests.
LEMMA FewerLeft ==
    ASSUME NEW b \in Batches, NEW h
    PROVE  LET less == [b EXCEPT !.left = @ \ {h}]
           IN  /\ less \in Batches /\ less.left = b.left \ {h} /\ less.id = b.id
               /\ less.value = b.value /\ less.settled = b.settled
BY DEF Batches

LEMMA IntervalStep ==
    ASSUME IntervalInv, [PingSettingsNext]_intervalVars
    PROVE  IntervalInv'
<1>0. batches \subseteq Batches
  BY DEF IntervalInv, IntervalsTyped
<1>1. ASSUME NEW v \in Typed, TypeInterval(v) PROVE IntervalInv'
  BY <1>1, PingSettingsConstants
  DEF TypeInterval, IntervalInv, IntervalsTyped, BatchesInv
<1>2. ASSUME NEW calls \in {1, 2}, CommitInterval(calls) PROVE IntervalInv'
  <2>1. Leftovers(batches, failed)
    BY <1>2 DEF CommitInterval, IntervalInv, IntervalsTyped, BatchesInv, Leftovers
  <2>2. calls - 1 \in {0, 1}
    BY <1>2
  <2>3. Apply(batches, calls - 1, failed) /\ server' = server
    BY <1>2 DEF CommitInterval
  <2> QED BY <2>1, <2>2, <2>3, ApplyKeeps DEF IntervalInv, IntervalsTyped
<1>3. ASSUME NEW b \in batches, BatchAnswered(b) PROVE IntervalInv'
  BY <1>3, SettlesKeeps DEF BatchAnswered, IntervalInv, IntervalsTyped
<1>4. ASSUME NEW b \in batches, LateAnswers(b) PROVE IntervalInv'
  BY <1>4 DEF LateAnswers, IntervalInv, IntervalsTyped, BatchesInv, ValuesInv
<1>5. ASSUME NEW b \in batches, NEW h \in IHosts, UpdateHost(b, h) PROVE IntervalInv'
  <2> DEFINE less == [b EXCEPT !.left = @ \ {h}]
  <2>1. /\ less \in Batches /\ less.left = b.left \ {h} /\ less.id = b.id
        /\ less.value = b.value /\ less.settled = b.settled
    BY <1>0, FewerLeft
  <2>2. /\ batches' = (batches \ {b}) \cup {less} /\ server' = [server EXCEPT ![h] = b.value]
        /\ UNCHANGED <<field, disabled, applyingInterval, committed, apart, failed>>
    BY <1>5 DEF UpdateHost
  <2> HIDE DEF less
  <2>3. IntervalsTyped'
    BY <1>0, <2>1, <2>2 DEF IntervalInv, IntervalsTyped, Batches
  <2>4. BatchesInv'
    BY <2>1, <2>2 DEF IntervalInv, BatchesInv
  <2>5. ValuesInv => ValuesInv'
    BY <2>1, <2>2 DEF IntervalInv, IntervalsTyped, ValuesInv
  <2> QED BY <2>2, <2>3, <2>4, <2>5 DEF IntervalInv
<1>6. ASSUME NEW b \in batches, NEW h \in IHosts, RequestFails(b, h) PROVE IntervalInv'
  <2>1. CASE b.settled
    <3> DEFINE less == [b EXCEPT !.left = @ \ {h}]
    <3>1. less \in Batches /\ less.id = b.id /\ less.settled = b.settled
      BY <1>0, FewerLeft
    <3>2. /\ batches' = (batches \ {b}) \cup {less} /\ failed' = TRUE
          /\ UNCHANGED <<field, server, disabled, applyingInterval, committed, apart>>
      BY <1>6, <2>1 DEF RequestFails
    <3> HIDE DEF less
    <3>3. IntervalsTyped'
      BY <3>1, <3>2 DEF IntervalInv, IntervalsTyped
    <3>4. BatchesInv'
      BY <3>1, <3>2 DEF IntervalInv, BatchesInv
    <3> QED BY <3>2, <3>3, <3>4 DEF IntervalInv, ValuesInv
  <2>2. CASE ~b.settled
    BY <1>6, <2>2, SettlesKeeps DEF RequestFails
  <2> QED BY <2>1, <2>2
<1>7. CASE UNCHANGED <<field, server, disabled, batches, applyingInterval, committed,
                       apart, failed>>
  BY <1>7 DEF IntervalInv, IntervalsTyped, BatchesInv, ValuesInv
<1>10. ASSUME NEW h \in IHosts, NEW v \in Low .. High, OthersUpdateHost(h, v)
       PROVE  IntervalInv'
  <2>1. server' \in [IHosts -> Int] /\ \A g \in IHosts \ {h} : server'[g] = server[g]
    BY <1>10, PingSettingsConstants DEF OthersUpdateHost, IntervalInv, IntervalsTyped
  <2>2. /\ apart' = apart \cup {h}
        /\ UNCHANGED <<field, disabled, batches, applyingInterval, committed, failed>>
    BY <1>10 DEF OthersUpdateHost
  <2> QED BY <2>1, <2>2 DEF IntervalInv, IntervalsTyped, BatchesInv, ValuesInv
<1>8. ASSUME NEW h \in IHosts, HostUpdated(h) PROVE IntervalInv'
  BY <1>7, <1>8 DEF HostUpdated
<1>9. CASE Reconnected \/ UNCHANGED intervalVars
  BY <1>7, <1>9 DEF Reconnected, intervalVars
<1> QED BY <1>1, <1>2, <1>3, <1>4, <1>5, <1>6, <1>8, <1>9, <1>10 DEF PingSettingsNext

-----------------------------------------------------------------------------
\* Whenever nothing is under way, interval, interface and suggestions on the
\* page are those of the server, or one of the accidents happened that
\* IntervalsHold, ChoiceHolds and InboxCurrent name, which other browsers cause
\* among others: for any hosts, limits, interfaces and numbers of requests.
THEOREM QuietIsCurrent == PageSpec => []QuietMeansCurrent
<1>1. PageInit => ChoicesTyped /\ ChoiceInv /\ InboxInv /\ InboxTyped /\ IntervalInv
  <2>1. InterfaceInit => ChoicesTyped /\ ChoiceInv
    BY DEF InterfaceInit, ChoicesTyped, ChoiceInv
  <2>2. SuggestionsInit => InboxInv /\ InboxTyped
    BY InboxAtStart
  <2>3. ASSUME PingSettingsInit PROVE IntervalInv
    <3>1. field \in Int /\ server \in [IHosts -> Int]
      BY <2>3, PingSettingsConstants DEF PingSettingsInit
    <3>2. batches = {} /\ applyingInterval = 0 /\ disabled = FALSE /\ failed = FALSE
          /\ committed = FALSE
      BY <2>3 DEF PingSettingsInit
    <3> QED BY <3>1, <3>2 DEF IntervalInv, IntervalsTyped, BatchesInv
  <2> QED BY <2>1, <2>2, <2>3 DEF PageInit
<1>2. ChoicesTyped /\ ChoiceInv /\ InboxInv /\ InboxTyped /\ IntervalInv /\ [PageNext]_pageVars
      => ChoicesTyped' /\ ChoiceInv' /\ InboxInv' /\ InboxTyped' /\ IntervalInv'
  BY StepsOfParts, ChoicesStayTyped, ChoiceStep, InboxStep, InboxStaysTyped, IntervalStep
  DEF InboxTyped
<1>3. ChoiceInv /\ InboxInv /\ IntervalInv => QuietMeansCurrent
  <2>1. ChoiceInv => ChoiceHolds
    BY DEF ChoiceInv, ChoiceHolds
  <2>2. InboxInv => InboxCurrent
    BY DEF InboxInv, InboxCurrent, connected
  <2>3. IntervalInv => IntervalsHold
    BY DEF IntervalInv, BatchesInv, ValuesInv, IntervalsHold
  <2> QED BY <2>1, <2>2, <2>3 DEF QuietMeansCurrent
<1> QED BY <1>1, <1>2, <1>3, PTL DEF PageSpec
-----------------------------------------------------------------------------
(* The types of the parts.                                                 *)

LEMMA DeckTyped ==
    ASSUME DeckTypeOK, [DeckNext]_deckVars
    PROVE  DeckTypeOK'
<1> USE DEF Pages, Directions, Spots
<1>1. \A p \in -1..3 : Clamped(p) \in Pages
  BY DEF Clamped
<1>2. \A way \in Directions \cup {0} : page + way \in -1..3
  BY DEF DeckTypeOK
<1>3. NoPush \in [way : Directions \cup {0}, paused : BOOLEAN]
  BY DEF NoPush
<1>4. [pushed EXCEPT !.paused = TRUE] \in [way : Directions \cup {0}, paused : BOOLEAN]
  BY DEF DeckTypeOK
<1>5. CASE Button \/ StartAnswered \/ SpotMoves
  <2>1. CASE Button
    <3>1. /\ page' \in Pages /\ ResetWheelBoundary /\ pushed' = NoPush
          /\ turned' = FALSE /\ UNCHANGED spot
      BY <2>1 DEF Button, SetPage
    <3> QED BY <1>3, <3>1 DEF ResetWheelBoundary, DeckTypeOK
  <2>2. CASE StartAnswered
    <3>1. page' = 1 /\ turned' = FALSE
      BY <2>2 DEF StartAnswered
    <3>2. page' \in Pages
      BY <3>1
    <3>3. UNCHANGED <<spot, direction, phase, turnTimer, pushed>>
      BY <2>2 DEF StartAnswered
    <3> HIDE DEF Pages, Directions, Spots
    <3> QED BY <3>1, <3>2, <3>3 DEF DeckTypeOK
  <2>3. CASE SpotMoves
    BY <2>3 DEF SpotMoves, DeckTypeOK
  <2> QED BY <1>5, <2>1, <2>2, <2>3
<1>6. ASSUME NEW way \in Directions, Arrow(way) \/ WheelElsewhere(way) PROVE DeckTypeOK'
  BY <1>1, <1>2, <1>3, <1>6
     DEF Arrow, WheelElsewhere, SetPage, ResetWheelBoundary, DeckTypeOK
<1>7. CASE TurnTimerFires
  BY <1>1, <1>2, <1>3, <1>7 DEF TurnTimerFires, SetPage, ResetWheelBoundary, DeckTypeOK
<1>8. CASE TimePasses
  BY <1>4, <1>8 DEF TimePasses, DeckTypeOK
<1>9. ASSUME NEW dy \in Directions, WheelScrolls(dy) PROVE DeckTypeOK'
  BY <1>3, <1>9 DEF WheelScrolls, ResetWheelBoundary, DeckTypeOK
<1>10. ASSUME NEW dy \in Directions, NEW way \in Directions,
              WheelArms(dy, way) \/ WheelTurns(dy, way)
       PROVE  DeckTypeOK'
  <2>1. [way |-> way, paused |-> FALSE] \in [way : Directions \cup {0}, paused : BOOLEAN]
    OBVIOUS
  <2>2. CASE WheelArms(dy, way)
    BY <2>1, <2>2 DEF WheelArms, DeckTypeOK
  <2>3. CASE WheelTurns(dy, way)
    BY <1>1, <1>2, <1>3, <2>3 DEF WheelTurns, SetPage, ResetWheelBoundary, DeckTypeOK
  <2> QED BY <1>10, <2>2, <2>3
<1>11. \A dy \in Directions, dx \in -1..1 : WheelWay(dy, dx) \in Directions
  BY DEF WheelWay
<1>12. CASE UNCHANGED deckVars
  BY <1>12 DEF deckVars, DeckTypeOK
<1> QED BY <1>5, <1>6, <1>7, <1>8, <1>9, <1>10, <1>11, <1>12 DEF DeckNext

LEMMA DrillTyped ==
    ASSUME DrillTypeOK, [DrillNext]_drillVars
    PROVE  DrillTypeOK'
<1>1. \A h \in DHosts : latest[h] \in Marks
  BY DEF DrillTypeOK
<1>2. ASSUME NEW h \in DHosts, OpenDrill(h)
      PROVE  /\ shownHost' \in DHosts \cup {NoHost} /\ visible' \in BOOLEAN
             /\ listeners' \subseteq DHosts
             /\ chart' \in [of : DHosts \cup {NoHost}, mark : Marks]
  <2>1. h \in stored => [of |-> h, mark |-> latest[h]] \in [of : DHosts \cup {NoHost}, mark : Marks]
    BY <1>1
  <2>2. CASE h \in stored
    BY <1>2, <2>1, <2>2 DEF OpenDrill, DrillTypeOK
  <2>3. CASE h \notin stored
    BY <1>2, <2>3 DEF OpenDrill, DrillTypeOK
  <2> QED BY <2>2, <2>3
<1>3. ASSUME NEW h \in DHosts, OpenCard(h) PROVE DrillTypeOK'
  BY <1>2, <1>3 DEF OpenCard, DrillTypeOK
<1>4. ASSUME NEW h \in DHosts \cup {NoHost}, HashChange(h) PROVE DrillTypeOK'
  BY <1>2, <1>4 DEF HashChange, DrillTypeOK
<1>5. CASE CloseButton
  BY <1>5 DEF CloseButton, CloseDrill, DrillTypeOK
<1>6. ASSUME Follow, stored' \subseteq DHosts, latest' \in [DHosts -> Marks]
      PROVE  DrillTypeOK'
  <2>1. CASE UNCHANGED <<shownHost, visible, listeners, chart, hash>>
    BY <1>6, <2>1 DEF DrillTypeOK
  <2>2. CASE CloseDrill
    BY <1>6, <2>2 DEF CloseDrill, DrillTypeOK
  <2>3. CASE /\ shownHost \in stored' /\ UNCHANGED <<shownHost, visible, listeners, hash>>
             /\ chart' = [of |-> shownHost, mark |-> latest'[shownHost]]
    <3>1. latest'[shownHost] \in Marks /\ shownHost \in DHosts
      BY <1>6, <2>3
    <3>2. chart' \in [of : DHosts \cup {NoHost}, mark : Marks]
      BY <2>3, <3>1
    <3> QED BY <1>6, <2>3, <3>2 DEF DrillTypeOK
  <2> QED BY <1>6, <2>1, <2>2, <2>3 DEF Follow
<1>7. ASSUME NEW h \in DHosts, StoreSample(h) PROVE DrillTypeOK'
  <2>1. latest' \in [DHosts -> Marks] /\ stored' \subseteq DHosts
    BY <1>1, <1>7 DEF StoreSample, DrillTypeOK, Marks
  <2> QED BY <1>6, <1>7, <2>1 DEF StoreSample
<1>8. ASSUME NEW present \in SUBSET DHosts, StoreHosts(present) PROVE DrillTypeOK'
  <2>1. latest' \in [DHosts -> Marks] /\ stored' \subseteq DHosts
    BY <1>8 DEF StoreHosts, DrillTypeOK
  <2> QED BY <1>6, <1>8, <2>1 DEF StoreHosts
<1>9. CASE UNCHANGED drillVars
  BY <1>9 DEF drillVars, DrillTypeOK
<1> QED BY <1>3, <1>4, <1>5, <1>7, <1>8, <1>9 DEF DrillNext

LEMMA EditorTyped ==
    ASSUME EditorTypeOK, [EditorNext]_editorVars
    PROVE  EditorTypeOK'
<1> USE DEF EditorTypeOK, Targets
<1>1. CASE Cancel
  BY <1>1 DEF Cancel, CloseEditor
<1>2. CASE Submit \/ Delete
  BY <1>2 DEF Submit, Delete, Send
<1>3. ASSUME NEW h \in Targets, OpenEditor(h) PROVE EditorTypeOK'
  BY <1>3 DEF OpenEditor
<1>4. ASSUME NEW s \in sends, Saved(s) \/ Refused(s) PROVE EditorTypeOK'
  BY <1>4 DEF Saved, Refused, CloseEditor
<1>5. CASE UNCHANGED editorVars
  BY <1>5 DEF editorVars
<1> QED BY <1>1, <1>2, <1>3, <1>4, <1>5 DEF EditorNext

LEMMA SettingsTyped ==
    ASSUME GroupSettingsTypeOK, [GroupSettingsNext]_settingsVars
    PROVE  GroupSettingsTypeOK'
<1> USE DEF GroupSettingsTypeOK, SNames
<1>1. ASSUME NEW name \in SNames, NEW opens \in BOOLEAN, RefreshCidrs(lists, name, opens)
      PROVE  lists' \subseteq [id : 1..MaxLists, of : SNames, opens : BOOLEAN]
  BY <1>1 DEF RefreshCidrs
<1>2. ASSUME NEW g \in SGroups, OpenSettings(g) PROVE GroupSettingsTypeOK'
  BY <1>1, <1>2 DEF OpenSettings, Outstanding
<1>3. CASE CloseSettings \/ TickBox \/ ChangeRange
  <2>1. /\ [group |-> currentName, title |-> title] \in [group : SNames, title : SNames]
        /\ \A id \in 1..MaxRanges :
               [id |-> id, of |-> currentName] \in [id : 1..MaxRanges, of : SNames]
    OBVIOUS
  <2>2. CASE CloseSettings
    BY <2>2 DEF CloseSettings, Outstanding
  <2>3. CASE TickBox
    BY <2>1, <2>3 DEF TickBox
  <2>4. CASE ChangeRange
    BY <2>1, <2>4 DEF ChangeRange
  <2> QED BY <1>3, <2>2, <2>3, <2>4
<1>4. ASSUME NEW a \in adding, RangeChanged(a) \/ RangeRefused(a) PROVE GroupSettingsTypeOK'
  BY <1>1, <1>4 DEF RangeChanged, RangeRefused
<1>5. ASSUME NEW l \in lists, ListAnswered(l) \/ ListFails(l) PROVE GroupSettingsTypeOK'
  BY <1>5 DEF ListAnswered, ListFails
<1>6. CASE UNCHANGED settingsVars
  BY <1>6 DEF settingsVars
<1> QED BY <1>2, <1>3, <1>4, <1>5, <1>6 DEF GroupSettingsNext

LEMMA InterfaceTyped ==
    ASSUME InterfaceTypeOK, [InterfaceNext]_interfaceVars
    PROVE  InterfaceTypeOK'
<1> DEFINE Requests == [id : 1..MaxChoices, name : Interfaces, at : Stations, mine : BOOLEAN]
<1>0. choices \subseteq Requests
  BY DEF InterfaceTypeOK
<1>1. choices' \subseteq Requests
  BY <1>0, ChoicesStayTyped DEF ChoicesTyped
<1>2. {setting', binding'} \subseteq Interfaces /\ label' \in Interfaces \cup {NoLabel}
  <2>1. \A c \in choices : c.name \in Interfaces
    BY <1>0
  <2> QED
    BY <2>1 DEF InterfaceTypeOK, InterfaceNext, interfaceVars, Choose, SetSetting,
                SetPingInterface, At, ChoiceFails, Chosen, RefreshNetworkInterface,
                RefreshFails, Reload, Restart
<1>3. {raced', unshown'} \subseteq BOOLEAN
  BY DEF InterfaceTypeOK, InterfaceNext, interfaceVars, Choose, SetSetting,
         SetPingInterface, At, ChoiceFails, Chosen, RefreshNetworkInterface,
                RefreshFails, Reload, Restart
<1> QED BY <1>1, <1>2, <1>3 DEF InterfaceTypeOK

LEMMA NotifyTyped ==
    ASSUME RenderingTypeOK, NEW reason, Notify(reason)
    PROVE  renderPending' \in BOOLEAN /\ pendingReason' \in {"sample", "structure"}
           /\ viewMode' \in {"groups", "ip"}
BY DEF Notify, RenderingTypeOK

LEMMA StoreTyped ==
    ASSUME RenderingTypeOK, StoreChanges
    PROVE  RenderingTypeOK'
<1> USE DEF RenderingTypeOK
<1>0. DefaultSettings \in RSettings
  BY RenderingConstants
<1>1. ASSUME NEW list \in [RHosts -> RGroups \cup {Nowhere}], SetHosts(list)
      PROVE  RenderingTypeOK'
  BY <1>1, NotifyTyped DEF SetHosts, domVars
<1>2. ASSUME NEW list \in [RGroups -> RSettings], SetGroups(list) PROVE RenderingTypeOK'
  BY <1>2, NotifyTyped DEF SetGroups, domVars
<1>3. ASSUME NEW h \in RHosts, DeleteHost(h) PROVE RenderingTypeOK'
  BY <1>3, NotifyTyped DEF DeleteHost, domVars
<1>4. ASSUME NEW h \in RHosts, NEW g \in RGroups, UpsertHost(h, g) PROVE RenderingTypeOK'
  BY <1>4, NotifyTyped DEF UpsertHost, domVars
<1>5. ASSUME NEW h \in RHosts, NEW online \in BOOLEAN, AddSample(h, online)
      PROVE  RenderingTypeOK'
  BY <1>5, NotifyTyped DEF AddSample, domVars
<1>6. ASSUME NEW g \in RGroups, DeleteGroup(g) PROVE RenderingTypeOK'
  BY <1>0, <1>6, NotifyTyped DEF DeleteGroup, domVars
<1>7. ASSUME NEW g \in RGroups, NEW r \in RSettings, UpsertGroup(g, r), UNCHANGED domVars
      PROVE  RenderingTypeOK'
  BY <1>7, NotifyTyped DEF UpsertGroup, domVars
<1> QED BY <1>1, <1>2, <1>3, <1>4, <1>5, <1>6, <1>7 DEF StoreChanges

LEMMA RebuildTyped ==
    ASSUME RenderingTypeOK, NEW mode, Rebuild(mode)
    PROVE  /\ marked' \subseteq RGroups
           /\ toggles' \subseteq [name : RGroups, fresh : BOOLEAN]
           /\ tip' \in [state : {"none", "due", "shown"}, of : RGroups \cup {Nowhere}]
<1> USE DEF RenderingTypeOK
<1>1. marked' = {} /\ toggles' = {[t EXCEPT !.fresh = FALSE] : t \in toggles}
      /\ tip' \in {NoTip, [tip EXCEPT !.of = Nowhere]}
  BY DEF Rebuild
<1>2. \A t \in toggles : [t EXCEPT !.fresh = FALSE] \in [name : RGroups, fresh : BOOLEAN]
  OBVIOUS
<1>3. /\ NoTip \in [state : {"none", "due", "shown"}, of : RGroups \cup {Nowhere}]
      /\ [tip EXCEPT !.of = Nowhere]
            \in [state : {"none", "due", "shown"}, of : RGroups \cup {Nowhere}]
  BY DEF NoTip
<1> QED BY <1>1, <1>2, <1>3

\* A section can only stand for a group: the mode that has sections shows the
\* groups of the hosts.
SectionsTyped == \A s \in dom.sections : s.name \in RGroups

LEMMA SectionsStayTyped ==
    ASSUME RenderingTypeOK, RenderInv, SectionsTyped, [RenderingNext]_renderVars
    PROVE  SectionsTyped'
<1>1. ASSUME NEW mode, dom' = Picture(mode) PROVE SectionsTyped'
  <2>1. \A h \in Present : place[h] \in RGroups
    BY DEF RenderingTypeOK, Present
  <2>2. \A h \in Present : Section(place[h]).name = place[h]
    BY DEF Section
  <2>3. dom'.sections \subseteq {Section(place[h]) : h \in Present}
    BY <1>1 DEF Picture
  <2> QED BY <2>1, <2>2, <2>3 DEF SectionsTyped
<1>2. CASE AnimationFrame
  <2>1. CASE Rebuild(viewMode)
    BY <1>1, <2>1 DEF Rebuild
  <2>2. CASE RenderLive /\ pendingReason = "sample"
    <3>1. UpdateHostCards = Picture(viewMode)
      BY <2>2, LiveCompletes DEF RenderInv
    <3> QED BY <1>1, <2>2, <3>1 DEF RenderLive
  <2> QED BY <1>2, <2>1, <2>2 DEF AnimationFrame, RenderInv
<1>3. ASSUME NEW mode, SetView(mode) PROVE SectionsTyped'
  BY <1>1, <1>3 DEF SetView, Rebuild
<1>4. CASE UNCHANGED dom
  BY <1>4 DEF SectionsTyped
<1>5. CASE StoreChanges
  BY <1>4, <1>5 DEF StoreChanges, SetHosts, SetGroups, DeleteHost, UpsertHost, AddSample,
                    DeleteGroup, domVars
<1> QED
  BY <1>2, <1>3, <1>4, <1>5
  DEF RenderingNext, renderVars, domVars, PointerLeaves, TooltipTimer, ContextMenu,
      PointerEnters, ToggleFails, ToggleAnswered

LEMMA RenderingTyped ==
    ASSUME RenderingTypeOK, SectionsTyped, [RenderingNext]_renderVars
    PROVE  RenderingTypeOK'
<1> USE DEF RenderingTypeOK
<1>0. \A g \in Standing : g \in RGroups
  BY DEF Standing, SectionsTyped
<1>1. CASE StoreChanges
  BY <1>1, StoreTyped
<1>2. CASE AnimationFrame
  <2>1. CASE Rebuild(viewMode)
    BY <1>2, <2>1, RebuildTyped DEF AnimationFrame, storeVars
  <2>2. CASE RenderLive
    BY <1>2, <2>2 DEF AnimationFrame, RenderLive, storeVars
  <2> QED BY <1>2, <2>1, <2>2 DEF AnimationFrame
<1>3. ASSUME NEW mode \in {"groups", "ip"}, SetView(mode) PROVE RenderingTypeOK'
  BY <1>3, RebuildTyped DEF SetView, storeVars
<1>4. CASE PointerLeaves
  <2>1. NoTip \in [state : {"none", "due", "shown"}, of : RGroups \cup {Nowhere}]
    BY DEF NoTip
  <2> QED BY <1>4, <2>1 DEF PointerLeaves, frameVars, storeVars
<1>5. CASE TooltipTimer
  <2>1. [tip EXCEPT !.state = "shown"]
          \in [state : {"none", "due", "shown"}, of : RGroups \cup {Nowhere}]
    OBVIOUS
  <2> QED BY <1>5, <2>1 DEF TooltipTimer, frameVars, storeVars
<1>6. ASSUME NEW g \in RGroups, ContextMenu(g) PROVE RenderingTypeOK'
  <2>1. [name |-> g, fresh |-> TRUE] \in [name : RGroups, fresh : BOOLEAN]
    OBVIOUS
  <2> QED BY <1>6, <2>1 DEF ContextMenu, frameVars, storeVars
<1>7. ASSUME NEW g \in RGroups, PointerEnters(g) PROVE RenderingTypeOK'
  <2>1. [state |-> "due", of |-> g]
          \in [state : {"none", "due", "shown"}, of : RGroups \cup {Nowhere}]
    OBVIOUS
  <2> QED BY <1>7, <2>1 DEF PointerEnters, frameVars, storeVars
<1>8. ASSUME NEW t \in toggles, ToggleFails(t) PROVE RenderingTypeOK'
  BY <1>8 DEF ToggleFails, frameVars, storeVars
<1>9. ASSUME NEW t \in toggles, NEW r \in RSettings, ToggleAnswered(t, r)
      PROVE  RenderingTypeOK'
  <2>1. settings' \in [RGroups -> RSettings] /\ place' = place /\ up' = up
    BY <1>9 DEF ToggleAnswered, UpsertGroup
  <2>2. /\ renderPending' \in BOOLEAN /\ pendingReason' \in {"sample", "structure"}
        /\ viewMode' \in {"groups", "ip"}
    BY <1>9, NotifyTyped DEF ToggleAnswered, UpsertGroup
  <2> QED BY <1>9, <2>1, <2>2 DEF ToggleAnswered
<1>10. CASE UNCHANGED renderVars
  BY <1>10 DEF renderVars, storeVars, frameVars, domVars
<1> QED BY <1>1, <1>2, <1>3, <1>4, <1>5, <1>6, <1>7, <1>8, <1>9, <1>10 DEF RenderingNext

\* The identifier of a new frame is a number: at most one frame is pending.
LEMMA FreshIsNat == ASSUME LoopInv PROVE FreshId \in Nat
<1>1. \E i \in 1..4 : \A f \in frames : f.id # i
  <2>1. CASE \A f \in frames : f.id # 1
    BY <2>1
  <2>2. CASE \E f \in frames : f.id = 1
    <3>1. \A f \in frames : f.id # 2
      BY <2>2 DEF LoopInv
    <3> QED BY <3>1
  <2> QED BY <2>1, <2>2
<1> QED BY <1>1 DEF FreshId

LEMMA MotionTyped ==
    ASSUME MotionTypeOK, LoopInv, [MotionNext]_motionVars
    PROVE  MotionTypeOK'
<1> USE DEF MotionTypeOK
<1> DEFINE Frames == [id : Nat, over : {"old", "now"}]
<1>0. Rest \in Int /\ Grown \in Int /\ \A w \in Widths \cup {0} : w \in Int
  BY MotionConstants
<1>1. \A r \in Int, w \in Int : Reach(r, w) \subseteq Int
  BY DEF Reach, ResolveWalls
<1>2. \A over \in {"old", "now"} : [id |-> FreshId, over |-> over] \in Frames
  BY FreshIsNat
<1>3. ASSUME NEW pending \in SUBSET frames, NEW over \in {"old", "now"},
             Request(pending, over)
      PROVE  frames' \subseteq Frames
  BY <1>2, <1>3 DEF Request
<1>4. CASE LayoutNothing
  BY <1>4 DEF LayoutNothing, CancelLoop
<1>5. ASSUME LayOut, attr' \in {"running", "settled"}, frames' \subseteq Frames
      PROVE  MotionTypeOK'
  <2>1. x' \in Int /\ bounds' \in Widths
    BY <1>0, <1>1, <1>5 DEF LayOut
  <2>2. layout' = "none" /\ physicsItems' = "now" /\ scale' = Rest /\ target' = Rest
        /\ canvas' = canvas
    BY <1>5 DEF LayOut
  <2> QED BY <1>5, <2>1, <2>2
<1>6. CASE LayOutAtRest
  BY <1>5, <1>6 DEF LayOutAtRest, CancelLoop
<1>7. CASE LayOutRunning
  <2>1. Request({}, "now") /\ LayOut /\ attr' = "running"
    BY <1>7 DEF LayOutRunning
  <2> QED BY <1>3, <1>5, <2>1
<1>8. CASE WheelOverResults \/ GlideStep
  BY <1>8 DEF WheelOverResults, GlideStep, bubbleVars, loopVars
<1>9. ASSUME NEW b \in BOOLEAN, Rerender(b) PROVE MotionTypeOK'
  <2>1. \A f \in frames : [f EXCEPT !.over = "old"] \in Frames
    OBVIOUS
  <2>2. frames' \subseteq Frames
    BY <1>9, <2>1 DEF Rerender
  <2>3. layout' \in {"none", "run", "rest"} /\ physicsItems' \in {"none", "old", "now"}
    BY <1>9 DEF Rerender, ScheduleBubblePhysics
  <2> QED BY <1>9, <2>2, <2>3 DEF Rerender
<1>10. ASSUME NEW b \in BOOLEAN, TurnTo(b) PROVE MotionTypeOK'
  BY <1>10 DEF TurnTo, ScheduleBubblePhysics, bubbleVars, loopVars
<1>11. ASSUME NEW b \in BOOLEAN, PointerEntersBubble(b) \/ PointerLeavesBubble(b)
       PROVE  MotionTypeOK'
  <2>1. StartLoop /\ target' \in {Rest, Grown}
        /\ UNCHANGED <<canvas, layout, physicsItems, bounds, x, scale>>
    BY <1>11 DEF PointerEntersBubble, PointerLeavesBubble
  <2>2. frames' \subseteq Frames /\ attr' = "running"
    BY <1>3, <2>1 DEF StartLoop, Kept
  <2> QED BY <2>1, <2>2
<1>12. ASSUME NEW w \in Widths, Resize(w) PROVE MotionTypeOK'
  BY <1>12 DEF Resize, ScheduleBubblePhysics, bubbleVars, loopVars
<1>13. ASSUME NEW f \in frames, FrameGoesOn(f) \/ FrameSettles(f) PROVE MotionTypeOK'
  <2>1. x' \in Int
    <3>1. Move(f)
      BY <1>13 DEF FrameGoesOn, FrameSettles
    <3> QED BY <1>0, <1>1, <3>1 DEF Move
  <2>2. scale' \in {Rest, Grown} /\ attr' \in {"idle", "running", "settled"}
        /\ UNCHANGED <<canvas, layout, physicsItems, bounds, target>>
    BY <1>13 DEF FrameGoesOn, FrameSettles
  <2>3. f.over \in {"old", "now"}
    OBVIOUS
  <2>4. frames' \subseteq Frames
    BY <1>3, <1>13, <2>3 DEF FrameGoesOn, FrameSettles
  <2> QED BY <2>1, <2>2, <2>4
<1>14. CASE UNCHANGED motionVars
  BY <1>14 DEF motionVars, bubbleVars, loopVars
<1> QED BY <1>4, <1>6, <1>7, <1>8, <1>9, <1>10, <1>11, <1>12, <1>13, <1>14 DEF MotionNext

Lags == UNION {[1..n -> Low .. High] : n \in 0..MaxLag}

LEMMA LagsAre == \A s : s \in Lags <=> s \in Seq(Low .. High) /\ Len(s) <= MaxLag
<1>1. ASSUME NEW s \in Lags PROVE s \in Seq(Low .. High) /\ Len(s) <= MaxLag
  <2>1. PICK n \in 0..MaxLag : s \in [1..n -> Low .. High]
    BY DEF Lags
  <2>2. s \in Seq(Low .. High) /\ Len(s) = n
    BY <2>1, PingSettingsConstants
  <2> QED BY <2>2, PingSettingsConstants
<1>2. ASSUME NEW s \in Seq(Low .. High), Len(s) <= MaxLag PROVE s \in Lags
  <2>1. Len(s) \in 0..MaxLag /\ s \in [1..Len(s) -> Low .. High]
    BY <1>2, PingSettingsConstants
  <2> QED BY <2>1 DEF Lags
<1> QED BY <1>1, <1>2

LEMMA IntervalsStayTyped ==
    ASSUME PingSettingsTypeOK, [PingSettingsNext]_intervalVars
    PROVE  PingSettingsTypeOK'
<1> USE DEF PingSettingsTypeOK
<1> DEFINE SmallBatches == [id : 1..MaxBatches, value : Low .. High, left : SUBSET IHosts,
                            waiters : {0, 1}, settled : BOOLEAN]
<1>0. /\ Low \in Int /\ High \in Int /\ Low <= High /\ MaxBatches \in Nat
      /\ \A v \in Int : ClampNumber(v) \in Low .. High
      /\ field \in Int
  BY PingSettingsConstants DEF ClampNumber
<1>1. ASSUME NEW pending \in SUBSET SmallBatches, NEW later \in {0, 1}, NEW trouble \in BOOLEAN,
             Apply(pending, later, trouble)
      PROVE  /\ field' \in Low .. High /\ disabled' \in BOOLEAN
             /\ applyingInterval' \in 0..MaxBatches /\ batches' \subseteq SmallBatches
             /\ apart' \subseteq IHosts /\ failed' \in BOOLEAN
  <2> DEFINE value == ClampNumber(field)
             others == {h \in IHosts : known[h] # value}
             started(id) == [id |-> id, value |-> value, left |-> others,
                             waiters |-> later, settled |-> FALSE]
  <2>1. field' = value /\ value \in Low .. High
    BY <1>0, <1>1 DEF Apply
  <2>2. apart' \subseteq IHosts /\ failed' \in BOOLEAN
    BY <1>1 DEF Apply
  <2>3. \A id \in 1..MaxBatches : started(id) \in SmallBatches
    BY <2>1
  <2>4. CASE others = {}
    <3>1. batches' = pending /\ applyingInterval' = 0 /\ disabled' = FALSE
      BY <1>1, <2>4 DEF Apply
    <3>2. /\ batches' \subseteq SmallBatches /\ applyingInterval' \in 0..MaxBatches
      BY <1>0, <1>1, <3>1
    <3> HIDE DEF value, others, started, SmallBatches, PingSettingsTypeOK
    <3> QED BY <2>1, <2>2, <3>1, <3>2
  <2>5. CASE others # {}
    <3>1. PICK id \in 1..MaxBatches : /\ batches' = pending \cup {started(id)}
                                      /\ applyingInterval' = id /\ disabled' = TRUE
      BY <1>1, <2>5 DEF Apply
    <3>2. applyingInterval' \in 0..MaxBatches /\ started(id) \in SmallBatches
      BY <2>3, <3>1
    <3> HIDE DEF value, others, started, SmallBatches, PingSettingsTypeOK
    <3>3. batches' \subseteq SmallBatches
      BY <1>1, <3>1, <3>2
    <3> QED BY <2>1, <2>2, <3>1, <3>2, <3>3
  <2> QED BY <2>4, <2>5
<1>2. ASSUME NEW b \in batches, NEW remaining \in SUBSET IHosts, NEW trouble \in BOOLEAN,
             Settles(b, remaining, trouble)
      PROVE  /\ field' \in Typed \cup Low .. High /\ disabled' \in BOOLEAN
             /\ applyingInterval' \in 0..MaxBatches /\ batches' \subseteq SmallBatches
             /\ apart' \subseteq IHosts /\ failed' \in BOOLEAN
  <2> DEFINE rest == (batches \ {b}) \cup
                        (IF remaining = {} THEN {}
                         ELSE {[b EXCEPT !.left = remaining, !.settled = TRUE, !.waiters = 0]})
  <2>1. [b EXCEPT !.left = remaining, !.settled = TRUE, !.waiters = 0] \in SmallBatches
    OBVIOUS
  <2>2. rest \in SUBSET SmallBatches
    BY <2>1
  <2>3. CASE b.waiters = 1
    <3>1. Apply(rest, 0, trouble)
      BY <1>2, <2>3 DEF Settles
    <3> HIDE DEF rest
    <3> QED BY <1>1, <2>2, <3>1
  <2>4. CASE b.waiters # 1
    <3>1. /\ batches' = rest /\ applyingInterval' = 0 /\ disabled' = FALSE
          /\ failed' = trouble /\ UNCHANGED <<field, apart>>
      BY <1>2, <2>4 DEF Settles
    <3> HIDE DEF rest
    <3>2. field' \in Typed \cup Low .. High /\ applyingInterval' \in 0..MaxBatches
      BY <1>0, <3>1
    <3>3. disabled' \in BOOLEAN /\ apart' \subseteq IHosts /\ failed' \in BOOLEAN
      BY <1>2, <3>1
    <3> HIDE DEF SmallBatches, PingSettingsTypeOK
    <3> QED BY <2>2, <3>1, <3>2, <3>3
  <2> QED BY <2>3, <2>4
<1>3. ASSUME NEW v \in Typed, TypeInterval(v) PROVE PingSettingsTypeOK'
  BY <1>3 DEF TypeInterval
<1>4. ASSUME NEW calls \in {1, 2}, CommitInterval(calls) PROVE PingSettingsTypeOK'
  <2>1. Apply(batches, calls - 1, failed) /\ calls - 1 \in {0, 1}
        /\ committed' = TRUE /\ UNCHANGED <<server, known, wire>>
    BY <1>4 DEF CommitInterval
  <2>2. failed \in BOOLEAN /\ batches \in SUBSET SmallBatches
    OBVIOUS
  <2>3. /\ field' \in Low .. High /\ disabled' \in BOOLEAN
        /\ applyingInterval' \in 0..MaxBatches /\ batches' \subseteq SmallBatches
        /\ apart' \subseteq IHosts /\ failed' \in BOOLEAN
    <3> HIDE DEF SmallBatches, PingSettingsTypeOK
    <3> QED BY <1>1, <2>1, <2>2
  <2> QED BY <2>1, <2>3
<1>5. ASSUME NEW b \in batches, BatchAnswered(b) PROVE PingSettingsTypeOK'
  <2>1. Settles(b, {}, failed) /\ UNCHANGED <<server, known, wire, committed>>
    BY <1>5 DEF BatchAnswered
  <2>2. failed \in BOOLEAN
    OBVIOUS
  <2>3. {} \in SUBSET IHosts
    OBVIOUS
  <2>4. /\ field' \in Typed \cup Low .. High /\ disabled' \in BOOLEAN
        /\ applyingInterval' \in 0..MaxBatches /\ batches' \subseteq SmallBatches
        /\ apart' \subseteq IHosts /\ failed' \in BOOLEAN
    <3> HIDE DEF SmallBatches, PingSettingsTypeOK
    <3> QED BY <1>2, <2>1, <2>2, <2>3
  <2> QED BY <2>1, <2>4
<1>6. ASSUME NEW b \in batches, NEW h \in IHosts, RequestFails(b, h) PROVE PingSettingsTypeOK'
  <2>1. [b EXCEPT !.left = @ \ {h}] \in SmallBatches /\ b.left \ {h} \in SUBSET IHosts
    OBVIOUS
  <2>2. CASE b.settled
    BY <1>6, <2>1, <2>2 DEF RequestFails
  <2>3. CASE ~ b.settled
    <3>1. Settles(b, b.left \ {h}, TRUE) /\ UNCHANGED <<server, known, wire, committed>>
      BY <1>6, <2>3 DEF RequestFails
    <3> QED BY <1>2, <2>1, <3>1
  <2> QED BY <2>2, <2>3
<1>7. ASSUME NEW b \in batches, LateAnswers(b) PROVE PingSettingsTypeOK'
  BY <1>7 DEF LateAnswers
<1>8. wire \in [IHosts -> Lags]
  BY DEF Lags
<1>9. ASSUME NEW b \in batches, NEW h \in IHosts, UpdateHost(b, h) PROVE PingSettingsTypeOK'
  <2>1. [b EXCEPT !.left = @ \ {h}] \in SmallBatches /\ b.value \in Low .. High
    OBVIOUS
  <2>2. batches' \subseteq SmallBatches /\ server' \in [IHosts -> Low .. High]
    BY <1>9, <2>1 DEF UpdateHost
  <2>3. Append(wire[h], b.value) \in Lags
    <3>1. wire[h] \in Seq(Low .. High) /\ Len(wire[h]) < MaxLag
      BY <1>8, <1>9, LagsAre DEF UpdateHost
    <3>2. /\ Append(wire[h], b.value) \in Seq(Low .. High)
          /\ Len(Append(wire[h], b.value)) <= MaxLag
      BY <2>1, <3>1, PingSettingsConstants
    <3> QED BY <3>2, LagsAre
  <2>4. wire' \in [IHosts -> Lags]
    BY <1>8, <1>9, <2>3 DEF UpdateHost
  <2>5. wire' \in [IHosts -> UNION {[1..n -> Low .. High] : n \in 0..MaxLag}]
    BY <2>4 DEF Lags
  <2> QED BY <1>9, <2>2, <2>5 DEF UpdateHost
<1>14. ASSUME NEW h \in IHosts, NEW v \in Low .. High, OthersUpdateHost(h, v)
       PROVE  PingSettingsTypeOK'
  <2>1. Append(wire[h], v) \in Lags
    <3>1. wire[h] \in Seq(Low .. High) /\ Len(wire[h]) < MaxLag
      BY <1>8, <1>14, LagsAre DEF OthersUpdateHost
    <3>2. /\ Append(wire[h], v) \in Seq(Low .. High)
          /\ Len(Append(wire[h], v)) <= MaxLag
      BY <3>1, PingSettingsConstants
    <3> QED BY <3>2, LagsAre
  <2>2. wire' \in [IHosts -> Lags]
    BY <1>8, <1>14, <2>1 DEF OthersUpdateHost
  <2>3. wire' \in [IHosts -> UNION {[1..n -> Low .. High] : n \in 0..MaxLag}]
    BY <2>2 DEF Lags
  <2>4. server' \in [IHosts -> Low .. High] /\ apart' \subseteq IHosts
    BY <1>14 DEF OthersUpdateHost
  <2> QED BY <1>14, <2>3, <2>4 DEF OthersUpdateHost
<1>10. ASSUME NEW h \in IHosts, HostUpdated(h) PROVE PingSettingsTypeOK'
  <2>1. wire[h] \in Seq(Low .. High) /\ Len(wire[h]) <= MaxLag /\ wire[h] # <<>>
    BY <1>8, <1>10, LagsAre DEF HostUpdated
  <2>2. Head(wire[h]) \in Low .. High /\ Tail(wire[h]) \in Seq(Low .. High)
        /\ Len(Tail(wire[h])) <= MaxLag
    BY <2>1, PingSettingsConstants
  <2>3. Tail(wire[h]) \in Lags
    BY <2>2, LagsAre
  <2>4. wire' \in [IHosts -> Lags] /\ known' \in [IHosts -> Low .. High]
    BY <1>8, <1>10, <2>2, <2>3 DEF HostUpdated
  <2>5. wire' \in [IHosts -> UNION {[1..n -> Low .. High] : n \in 0..MaxLag}]
    BY <2>4 DEF Lags
  <2> QED BY <1>10, <2>4, <2>5 DEF HostUpdated
<1>11. <<>> \in Lags
  <2>1. <<>> \in Seq(Low .. High) /\ Len(<<>>) = 0 /\ 0 <= MaxLag
    BY PingSettingsConstants
  <2>2. Len(<<>>) <= MaxLag
    BY <2>1
  <2> QED BY <2>1, <2>2, LagsAre
<1>12. CASE Reconnected
  <2>1. wire' \in [IHosts -> Lags]
    BY <1>11, <1>12 DEF Reconnected
  <2>2. wire' \in [IHosts -> UNION {[1..n -> Low .. High] : n \in 0..MaxLag}]
    BY <2>1 DEF Lags
  <2> QED BY <1>12, <2>2 DEF Reconnected
<1>13. CASE UNCHANGED intervalVars
  BY <1>13 DEF intervalVars
<1> QED BY <1>3, <1>4, <1>5, <1>6, <1>7, <1>9, <1>10, <1>12, <1>13, <1>14 DEF PingSettingsNext
-----------------------------------------------------------------------------
(* All parts together.                                                     *)

PageTypes ==
    /\ part \in Parts
    /\ DeckTypeOK /\ RenderingTypeOK /\ MotionTypeOK /\ DrillTypeOK
    /\ GroupSettingsTypeOK /\ EditorTypeOK /\ PingSettingsTypeOK
    /\ InterfaceTypeOK /\ InboxTyped
    /\ RenderInv /\ SectionsTyped /\ LoopInv

LEMMA TypesAtStart == ASSUME PageInit PROVE PageTypes
<1>1. /\ part \in Parts /\ DeckInit /\ PingSettingsInit /\ MotionInit /\ RenderingInit
      /\ DrillInit /\ GroupSettingsInit /\ EditorInit /\ InterfaceInit /\ SuggestionsInit
  BY DEF PageInit
<1>2. DeckTypeOK
  <2>1. page \in Pages /\ direction \in Directions \cup {0} /\ spot \in Spots
    BY <1>1 DEF DeckInit, Pages, Directions
  <2>2. pushed \in [way : Directions \cup {0}, paused : BOOLEAN]
    BY <1>1 DEF DeckInit, NoPush
  <2>3. phase = "idle" /\ turnTimer = FALSE /\ turned = FALSE
    BY <1>1 DEF DeckInit
  <2> QED BY <2>1, <2>2, <2>3 DEF DeckTypeOK
<1>3. RenderInv
  BY <1>1, RenderStarts
<1>4. RenderingTypeOK
  <2>1. place \in [RHosts -> RGroups \cup {Nowhere}] /\ settings \in [RGroups -> RSettings]
    BY <1>1, RenderingConstants DEF RenderingInit
  <2>2. tip \in [state : {"none", "due", "shown"}, of : RGroups \cup {Nowhere}]
    BY <1>1 DEF RenderingInit, NoTip
  <2> QED BY <1>1, <2>1, <2>2 DEF RenderingInit, RenderingTypeOK
<1>5. SectionsTyped
  <2>1. Present = {} /\ dom = Picture("groups")
    BY <1>1 DEF RenderingInit, Present
  <2>2. dom.sections = {}
    BY <2>1 DEF Picture
  <2> QED BY <2>2 DEF SectionsTyped
<1>6. MotionTypeOK /\ LoopInv
  BY <1>1 DEF MotionInit, MotionTypeOK, LoopInv
<1>7. DrillTypeOK
  BY <1>1 DEF DrillInit, DrillTypeOK, NoChart, Marks
<1>8. GroupSettingsTypeOK /\ EditorTypeOK /\ InterfaceTypeOK
  BY <1>1, InterfaceConstants
  DEF GroupSettingsInit, GroupSettingsTypeOK, SNames, EditorInit, EditorTypeOK, Targets,
      InterfaceInit, InterfaceTypeOK
<1>9. InboxTyped
  BY <1>1, InboxAtStart
<1>10. PingSettingsTypeOK
  <2>1. <<>> \in [1..0 -> Low .. High] /\ 0 \in 0..MaxLag
    BY PingSettingsConstants
  <2>2. wire \in [IHosts -> UNION {[1..n -> Low .. High] : n \in 0..MaxLag}]
    BY <1>1, <2>1 DEF PingSettingsInit
  <2>3. /\ field \in Low .. High /\ {server, known} \subseteq [IHosts -> Low .. High]
        /\ batches = {} /\ applyingInterval \in 0..MaxBatches
    BY <1>1, PingSettingsConstants DEF PingSettingsInit
  <2>4. disabled \in BOOLEAN /\ apart \subseteq IHosts /\ {committed, failed} \subseteq BOOLEAN
    BY <1>1 DEF PingSettingsInit
  <2> QED BY <2>2, <2>3, <2>4 DEF PingSettingsTypeOK
<1> QED
  BY <1>1, <1>2, <1>3, <1>4, <1>5, <1>6, <1>7, <1>8, <1>9, <1>10 DEF PageTypes

\* Every variable of the page keeps to its values: the page shown is one of
\* the three, a section stands for a group of hosts, an input for a host, and
\* no interval leaves the limits, whatever the user types (clampNumber,
\* ping-settings.js:128).
THEOREM TypeCorrect == PageSpec => []PageTypeOK
<1>1. PageInit => PageTypes
  BY TypesAtStart
<1>2. ASSUME PageTypes, [PageNext]_pageVars PROVE PageTypes'
  <2>1. part' \in Parts
    BY <1>2 DEF PageTypes, PageNext, pageVars
  <2>2. DeckTypeOK' /\ DrillTypeOK' /\ EditorTypeOK' /\ GroupSettingsTypeOK'
    BY <1>2, StepsOfParts, DeckTyped, DrillTyped, EditorTyped, SettingsTyped DEF PageTypes
  <2>3. InterfaceTypeOK' /\ InboxTyped' /\ PingSettingsTypeOK'
    BY <1>2, StepsOfParts, InterfaceTyped, InboxStaysTyped, IntervalsStayTyped DEF PageTypes
  <2>4. MotionTypeOK' /\ LoopInv'
    BY <1>2, StepsOfParts, MotionTyped, LoopStepKeeps DEF PageTypes
  <2>5. RenderingTypeOK' /\ SectionsTyped' /\ RenderInv'
    BY <1>2, StepsOfParts, RenderingTyped, SectionsStayTyped, RenderingStep DEF PageTypes
  <2> QED BY <2>1, <2>2, <2>3, <2>4, <2>5 DEF PageTypes
<1>3. PageTypes => PageTypeOK
  BY DEF PageTypes, PageTypeOK, InboxTyped
<1> QED BY <1>1, <1>2, <1>3, PTL DEF PageSpec
=============================================================================
