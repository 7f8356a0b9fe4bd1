------------------------------ MODULE Page_proof ------------------------------
(***************************************************************************)
(* Proofs about the parts of the page.  Each part has an inductive         *)
(* invariant of its own; a step of the page is a step of one part and      *)
(* stutters in all others.                                                 *)
(***************************************************************************)
EXTENDS Page, TLAPS

-----------------------------------------------------------------------------
(* A step of the page, seen from each part.                                *)

LEMMA StepsOfParts ==
    ASSUME [PageNext]_pageVars
    PROVE  /\ [PackNext]_packVars /\ [DeckNext]_deckVars /\ [MotionNext]_motionVars
           /\ [RenderingNext]_renderVars
           /\ [DrillNext]_drillVars /\ [GroupSettingsNext]_settingsVars
           /\ [EditorNext]_editorVars /\ [InterfaceNext]_interfaceVars
           /\ [PingSettingsNext]_intervalVars /\ [SuggestionsNext]_inboxVars
BY DEF PageNext, pageVars

-----------------------------------------------------------------------------
(* The editor.                                                             *)

LEMMA EditorStep ==
    ASSUME SavesItsHost, [EditorNext]_editorVars
    PROVE  SavesItsHost'
<1>1. CASE Cancel
  BY <1>1 DEF Cancel, CloseEditor, SavesItsHost
<1>2. CASE Submit \/ Delete
  BY <1>2 DEF Submit, Delete, Send, SavesItsHost
<1>3. ASSUME NEW h \in Targets, OpenEditor(h) PROVE SavesItsHost'
  BY <1>3 DEF OpenEditor, SavesItsHost
<1>4. ASSUME NEW s \in sends, Saved(s) \/ Refused(s) PROVE SavesItsHost'
  BY <1>4 DEF Saved, Refused, CloseEditor, SavesItsHost
<1>5. CASE UNCHANGED editorVars
  BY <1>5 DEF editorVars, SavesItsHost
<1> QED BY <1>1, <1>2, <1>3, <1>4, <1>5 DEF EditorNext

-----------------------------------------------------------------------------
(* The settings of a group.  While nothing has crossed, every answer still *)
(* to come is about the group in the title.                                *)

SettingsInv ==
    /\ currentName \in {title, NoGroup}
    /\ written.group \in {written.title, NoGroup}
    /\ ~crossed =>
        /\ shown \/ Outstanding => currentName = title /\ title \in SGroups
        /\ \A l \in lists : l.of = title
        /\ shown => listed = title \/ \E l \in lists : l.opens

LEMMA SettingsStep ==
    ASSUME SettingsInv, [GroupSettingsNext]_settingsVars
    PROVE  SettingsInv'
<1>1. CASE CloseSettings
  BY <1>1 DEF CloseSettings, SettingsInv, Outstanding
<1>2. CASE TickBox \/ ChangeRange
  BY <1>2 DEF TickBox, ChangeRange, SettingsInv, Outstanding
<1>3. ASSUME NEW g \in SGroups, OpenSettings(g) PROVE SettingsInv'
  <2>1. PICK id \in 1..MaxLists : lists' = lists \cup {[id |-> id, of |-> g, opens |-> TRUE]}
    BY <1>3 DEF OpenSettings, RefreshCidrs
  <2>2. \E l \in lists' : l.opens
    <3> DEFINE new == [id |-> id, of |-> g, opens |-> TRUE]
    <3>1. new \in lists' /\ new.opens
      BY <2>1
    <3> HIDE DEF new
    <3> QED BY <3>1
  <2>3. ~crossed' => lists = {}
    BY <1>3 DEF OpenSettings, Outstanding
  <2>4. ~crossed' => \A l \in lists' : l.of = g
    BY <2>1, <2>3
  <2>5. currentName' = g /\ title' = g /\ written' = written
    BY <1>3 DEF OpenSettings
  <2> QED BY <2>2, <2>4, <2>5 DEF SettingsInv
<1>4. ASSUME NEW a \in adding, RangeChanged(a) \/ RangeRefused(a) PROVE SettingsInv'
  BY <1>4 DEF RangeChanged, RangeRefused, RefreshCidrs, SettingsInv, Outstanding
<1>5. ASSUME NEW l \in lists, ListAnswered(l) \/ ListFails(l) PROVE SettingsInv'
  BY <1>5 DEF ListAnswered, ListFails, SettingsInv, Outstanding
<1>6. CASE UNCHANGED settingsVars
  BY <1>6 DEF settingsVars, SettingsInv, Outstanding
<1> QED BY <1>1, <1>2, <1>3, <1>4, <1>5, <1>6 DEF GroupSettingsNext

\* However late answers come, a change in the settings of a group goes to the
\* group in the title or, after a crossing, to none, and one in the editor to
\* the host in its fields: for any groups, hosts and requests under way.
THEOREM DialogsKeepToTheirOwn == PageSpec => []DialogsActOnTheirOwn
<1>1. PageInit => SettingsInv /\ SavesItsHost
  BY DEF PageInit, GroupSettingsInit, EditorInit, SettingsInv, SavesItsHost, Outstanding
<1>2. SettingsInv /\ SavesItsHost /\ [PageNext]_pageVars => SettingsInv' /\ SavesItsHost'
  BY StepsOfParts, SettingsStep, EditorStep
<1>3. SettingsInv /\ SavesItsHost => DialogsActOnTheirOwn
  BY DEF SettingsInv, DialogsActOnTheirOwn, SettingsOfTitle, NeverAnotherGroup
<1> QED BY <1>1, <1>2, <1>3, PTL DEF PageSpec

-----------------------------------------------------------------------------
(* Turning pages.  Once the pause has passed, the direction kept for the   *)
(* wheel is that of the last push at an end of the list.                   *)

DeckInv ==
    /\ phase # "idle" => pushed.way = direction /\ direction \in Directions
    /\ phase \in {"ready", "late"} => pushed.paused

Deliberate ==
    turned' => /\ page = 1 /\ spot # "middle"
               /\ pushed.paused /\ page' = page + pushed.way

LEMMA DeckStep ==
    ASSUME DeckInv, [DeckNext]_deckVars
    PROVE  DeckInv' /\ (UNCHANGED deckVars \/ Deliberate)
<1>1. CASE Button
  BY <1>1 DEF Button, SetPage, ResetWheelBoundary, DeckInv, Deliberate
<1>2. CASE StartAnswered
  BY <1>2 DEF StartAnswered, DeckInv, Deliberate
<1>3. CASE TurnTimerFires
  <2>1. CASE page = 1 /\ AtEnd(direction)
    BY <1>3, <2>1 DEF TurnTimerFires, SetPage, ResetWheelBoundary, AtEnd, Clamped, DeckInv,
                      Deliberate, Directions
  <2>2. CASE ~(page = 1 /\ AtEnd(direction))
    BY <1>3, <2>2 DEF TurnTimerFires, DeckInv, Deliberate
  <2> QED BY <2>1, <2>2
<1>4. CASE TimePasses
  BY <1>4 DEF TimePasses, DeckInv, Deliberate
<1>5. CASE SpotMoves
  BY <1>5 DEF SpotMoves, DeckInv, Deliberate
<1>6. ASSUME NEW way \in Directions, Arrow(way) \/ WheelElsewhere(way)
      PROVE  DeckInv' /\ Deliberate
  BY <1>6 DEF Arrow, WheelElsewhere, SetPage, ResetWheelBoundary, DeckInv, Deliberate
<1>7. ASSUME NEW dy \in Directions, WheelScrolls(dy) PROVE DeckInv' /\ Deliberate
  BY <1>7 DEF WheelScrolls, ResetWheelBoundary, DeckInv, Deliberate
<1>8. ASSUME NEW dy \in Directions, NEW way \in Directions, WheelArms(dy, way)
      PROVE  DeckInv' /\ Deliberate
  BY <1>8 DEF WheelArms, DeckInv, Deliberate
<1>9. ASSUME NEW dy \in Directions, NEW way \in Directions, WheelTurns(dy, way)
      PROVE  DeckInv' /\ Deliberate
  BY <1>9 DEF WheelTurns, StillArmed, SetPage, ResetWheelBoundary, AtEnd, Clamped, DeckInv,
              Deliberate, Directions
<1>10. ASSUME NEW dy \in Directions, NEW dx \in -1..1 PROVE WheelWay(dy, dx) \in Directions
  BY DEF WheelWay, Directions
<1>11. CASE UNCHANGED deckVars
  BY <1>11 DEF deckVars, DeckInv
<1> QED BY <1>1, <1>2, <1>3, <1>4, <1>5, <1>6, <1>7, <1>8, <1>9, <1>10, <1>11 DEF DeckNext

\* The wheel turns the results page only after a pause and only the way it was
\* pushed at an end of the list, whatever happened in between.
THEOREM TurnsAreDeliberate == PageSpec => DeliberateTurns
<1>1. PageInit => DeckInv
  BY DEF PageInit, DeckInit, DeckInv
<1>2. DeckInv /\ [PageNext]_pageVars => DeckInv' /\ [Deliberate]_deckVars
  BY StepsOfParts, DeckStep
<1> QED BY <1>1, <1>2, PTL DEF PageSpec, DeliberateTurns, Deliberate

-----------------------------------------------------------------------------
(* The bubbles.  Whatever was laid out last lies within the bounds it was  *)
(* laid out in, at rest and expanded.                                      *)

Within(at, w) == Rest + Grown <= w => Rest <= at /\ at + Rest <= w

MotionInv ==
    /\ canvas \in Widths /\ {scale, target} \subseteq {Rest, Grown}
    /\ physicsItems = "now" =>
           bounds \in Widths /\ x \in Int /\ Within(x, bounds)
    /\ bubbles /\ layout = "none" => physicsItems = "now" /\ bounds = canvas

\* A pass over the walls leaves a bubble inside them, pulled or pushed wherever,
\* if there is room: the walls are met with the larger radius, and the smaller
\* one is what the bubble comes to rest with.
LEMMA WallsHold ==
    ASSUME NEW radius \in {Rest, Grown}, NEW w \in Widths, NEW at \in Reach(radius, w)
    PROVE  at \in Int /\ Within(at, w)
<1>1. /\ Rest \in Nat /\ Grown \in Nat /\ radius \in Nat /\ w \in Nat
      /\ Rest <= radius /\ radius <= Grown
  BY MotionConstants
<1>2. PICK from \in -1 .. w + 1 : at = ResolveWalls(from, radius, w)
  BY DEF Reach
<1> QED BY <1>1, <1>2 DEF ResolveWalls, Within

LEMMA MotionStep ==
    ASSUME MotionInv, [MotionNext]_motionVars
    PROVE  MotionInv'
<1>1. CASE LayoutNothing
  BY <1>1 DEF LayoutNothing, MotionInv
<1>2. CASE LayOut
  <2>1. x' \in Int /\ Within(x', canvas)
    BY <1>2, WallsHold DEF LayOut, MotionInv
  <2> QED BY <1>2, <2>1 DEF LayOut, MotionInv
<1>3. CASE WheelOverResults \/ GlideStep
  BY <1>3 DEF WheelOverResults, GlideStep, bubbleVars, MotionInv
<1>4. ASSUME NEW b \in BOOLEAN, Rerender(b) PROVE MotionInv'
  BY <1>4 DEF Rerender, ScheduleBubblePhysics, MotionInv
<1>5. ASSUME NEW b \in BOOLEAN, TurnTo(b) PROVE MotionInv'
  BY <1>5 DEF TurnTo, ScheduleBubblePhysics, bubbleVars, MotionInv
<1>6. ASSUME NEW b \in BOOLEAN, PointerEntersBubble(b) \/ PointerLeavesBubble(b)
      PROVE  MotionInv'
  BY <1>6 DEF PointerEntersBubble, PointerLeavesBubble, MotionInv
<1>7. ASSUME NEW w \in Widths, Resize(w) PROVE MotionInv'
  BY <1>7 DEF Resize, ScheduleBubblePhysics, bubbleVars, MotionInv
<1>8. ASSUME NEW f \in frames, Move(f), {scale', target'} \subseteq {scale, target},
             UNCHANGED <<bubbles, canvas, layout, physicsItems, bounds>>
      PROVE  MotionInv'
  <2>1. physicsItems = "now" => x' \in Int /\ Within(x', bounds)
    BY <1>8, WallsHold DEF Move, MotionInv
  <2> QED BY <1>8, <2>1 DEF MotionInv
<1>9. ASSUME NEW f \in frames, FrameGoesOn(f) \/ FrameSettles(f) PROVE MotionInv'
  BY <1>8, <1>9 DEF FrameGoesOn, FrameSettles
<1>10. CASE UNCHANGED motionVars
  BY <1>10 DEF motionVars, bubbleVars, MotionInv
<1>11. CASE LayOutAtRest \/ LayOutRunning
  BY <1>2, <1>11 DEF LayOutAtRest, LayOutRunning
<1> QED BY <1>1, <1>3, <1>4, <1>5, <1>6, <1>7, <1>9, <1>10, <1>11 DEF MotionNext

\* Every bubble on the page is placed for the canvas as it is now, and within it
\* if there is room, or a layout is due: for all widths and radii.
THEOREM BubblesArePlaced == PageSpec => []PlacedOrDue
<1>1. PageInit => MotionInv
  BY DEF PageInit, MotionInit, MotionInv
<1>2. MotionInv /\ [PageNext]_pageVars => MotionInv'
  BY StepsOfParts, MotionStep
<1>3. MotionInv => PlacedOrDue
  BY DEF MotionInv, PlacedOrDue, Within
<1> QED BY <1>1, <1>2, <1>3, PTL DEF PageSpec
-----------------------------------------------------------------------------
(* Packing the groups.  The cells of all bubbles placed are taken, and the *)
(* rows taken are above the height.                                        *)

PackInv ==
    /\ \A i \in todo : i.span \in 2..4
    /\ height \in Nat /\ \A cell \in occupied : cell[2] \in Int /\ cell[2] < height
    /\ \A b \in placed :
           /\ b.span \in 2..4 /\ b.col \in Nat /\ b.row \in Nat
           /\ b.col >= 1 /\ b.row >= 1 /\ b.col + b.span - 1 <= Columns
           /\ Cells(b.col, b.row, b.span) \subseteq occupied
    /\ \A b, c \in placed :
           b # c => Cells(b.col, b.row, b.span) \cap Cells(c.col, c.row, c.span) = {}

Slots == (Nat \ {0}) \X (Nat \ {0})

LEMMA PreferredAreSlots ==
    ASSUME NEW span \in 2..4
    PROVE  PreferredBubblePlacements(span) \in Seq(Slots)
<1> DEFINE Chosen4 == <<<<3,1>>, <<7,3>>, <<1,1>>, <<5,1>>, <<1,3>>, <<9,1>>>>
           Chosen3 == <<<<7,1>>, <<10,1>>, <<1,3>>, <<5,4>>, <<9,4>>, <<1,1>>>>
           Chosen2 == <<<<1,1>>, <<1,3>>, <<7,1>>, <<9,1>>, <<11,1>>, <<7,3>>,
                        <<11,3>>, <<1,5>>, <<3,5>>, <<5,5>>, <<10,5>>>>
<1>1. Chosen4 \in Seq(Slots) /\ Chosen3 \in Seq(Slots) /\ Chosen2 \in Seq(Slots)
  BY DEF Slots
<1>2. PreferredBubblePlacements(span) =
         IF span = 4 THEN Chosen4 ELSE IF span = 3 THEN Chosen3 ELSE Chosen2
  BY DEF PreferredBubblePlacements
<1> HIDE DEF Chosen4, Chosen3, Chosen2
<1> QED BY <1>1, <1>2

LEMMA AllAreSlots ==
    ASSUME NEW span \in 2..4
    PROVE  AllBubblePlacements(span) \in Seq(Slots)
<1> DEFINE width == Columns - span + 1
<1>1. width \in Nat /\ width >= 1
  BY PackingConstants
<1>2. LastRow * width \in Nat
  BY <1>1, PackingConstants
<1>3. ASSUME NEW i \in 1..(LastRow * width)
      PROVE  <<1 + ((i - 1) % width), 1 + ((i - 1) \div width)>> \in Slots
  <2>1. i - 1 \in Nat
    BY <1>2
  <2>2. (i - 1) % width \in Nat /\ (i - 1) \div width \in Nat
    BY <1>1, <2>1
  <2> HIDE DEF width
  <2> QED BY <2>2 DEF Slots
<1>4. AllBubblePlacements(span) =
         [i \in 1..(LastRow * width) |-> <<1 + ((i - 1) % width), 1 + ((i - 1) \div width)>>]
  BY DEF AllBubblePlacements
<1> HIDE DEF width
<1>5. AllBubblePlacements(span) \in [1..(LastRow * width) -> Slots]
  BY <1>3, <1>4
<1> QED BY <1>2, <1>5

LEMMA CandidatesAreSlots ==
    ASSUME NEW span \in 2..4, NEW i \in DOMAIN Candidates(span)
    PROVE  /\ Candidates(span)[i][1] \in Nat /\ Candidates(span)[i][2] \in Nat
           /\ Candidates(span)[i][1] >= 1 /\ Candidates(span)[i][2] >= 1
<1>1. Candidates(span) \in Seq(Slots)
  BY PreferredAreSlots, AllAreSlots DEF Candidates
<1>2. Candidates(span)[i] \in Slots
  BY <1>1
<1> QED BY <1>2 DEF Slots

\* Whatever slot is taken that was free, in the columns, keeps the packing.
LEMMA PutKeeps ==
    ASSUME PackInv, NEW item \in todo, NEW col \in Nat, NEW row \in Nat,
           col >= 1, row >= 1, col + item.span - 1 <= Columns,
           Cells(col, row, item.span) \cap occupied = {}, Put(item, col, row)
    PROVE  PackInv'
<1> DEFINE span == item.span
           new == [name |-> item.name, span |-> span, col |-> col, row |-> row]
<1>1. span \in 2..4
  BY DEF PackInv
<1>2. /\ placed' = placed \cup {new} /\ todo' \subseteq todo
      /\ occupied' = occupied \cup Cells(col, row, span)
      /\ height' = IF row + span > height THEN row + span ELSE height
  BY DEF Put, OccupyBubbleSlot
<1>3. new.span = span /\ new.col = col /\ new.row = row
  OBVIOUS
<1>4. \A cell \in Cells(col, row, span) : cell[2] \in Int /\ cell[2] < row + span
  BY <1>1 DEF Cells
<1> HIDE DEF new, span
<1>5. height' \in Nat /\ \A cell \in occupied' : cell[2] \in Int /\ cell[2] < height'
  <2>1. height' \in Nat /\ height <= height' /\ row + span <= height'
    BY <1>1, <1>2 DEF PackInv
  <2>2. ASSUME NEW cell \in occupied PROVE cell[2] \in Int /\ cell[2] < height'
    BY <2>1, <2>2 DEF PackInv
  <2>3. ASSUME NEW cell \in Cells(col, row, span)
        PROVE  cell[2] \in Int /\ cell[2] < height'
    BY <1>1, <1>4, <2>1
  <2> QED BY <1>2, <2>1, <2>2, <2>3
<1>6. \A b \in placed : Cells(b.col, b.row, b.span) \cap Cells(col, row, span) = {}
  BY DEF PackInv, span
<1>7. \A b, c \in placed' :
         b # c => Cells(b.col, b.row, b.span) \cap Cells(c.col, c.row, c.span) = {}
  BY <1>2, <1>3, <1>6 DEF PackInv
<1>8. \A b \in placed' :
         /\ b.span \in 2..4 /\ b.col \in Nat /\ b.row \in Nat
         /\ b.col >= 1 /\ b.row >= 1 /\ b.col + b.span - 1 <= Columns
         /\ Cells(b.col, b.row, b.span) \subseteq occupied'
  BY <1>1, <1>2, <1>3 DEF PackInv, span
<1> QED BY <1>2, <1>5, <1>7, <1>8 DEF PackInv

LEMMA PackStep ==
    ASSUME PackInv, [PackNext]_packVars
    PROVE  PackInv'
<1>1. ASSUME NEW item \in todo, PlaceInFirstSlot(item) PROVE PackInv'
  <2>1. item.span \in 2..4
    BY DEF PackInv
  <2>2. PICK i \in DOMAIN Candidates(item.span) :
           /\ Fits(item.span, i)
           /\ Put(item, Candidates(item.span)[i][1], Candidates(item.span)[i][2])
    BY <1>1 DEF PlaceInFirstSlot
  <2> QED BY <2>1, <2>2, CandidatesAreSlots, PutKeeps DEF Fits, BubbleSlotFits
<1>2. ASSUME NEW item \in todo, PlaceBelow(item) PROVE PackInv'
  <2>1. item.span \in 2..4 /\ height \in Nat
    BY DEF PackInv
  <2>2. \A cell \in Cells(1, height + 1, item.span) : ~(cell[2] < height)
    BY <2>1 DEF Cells
  <2>3. Cells(1, height + 1, item.span) \cap occupied = {}
    BY <2>2 DEF PackInv
  <2>4. Put(item, 1, height + 1) /\ 1 + item.span - 1 <= Columns
    BY <1>2, <2>1, PackingConstants DEF PlaceBelow
  <2> QED BY <2>1, <2>3, <2>4, PutKeeps
<1>3. CASE UNCHANGED packVars
  BY <1>3 DEF packVars, PackInv
<1> QED BY <1>1, <1>2, <1>3 DEF PackNext

LEMMA PackStarts == ASSUME NEW counts, PackInit(counts) PROVE PackInv
<1>1. ASSUME NEW count, NEW most PROVE BubbleSpan(count, most) \in 2..4
  BY DEF BubbleSpan
<1>2. ASSUME NEW i \in todo PROVE i.span \in 2..4
  <2> DEFINE present == {n \in Names : counts[n] > 0}
             most == CHOOSE m \in {counts[n] : n \in present} :
                         \A n \in present : counts[n] <= m
             item(n) == [name |-> n, count |-> counts[n], span |-> BubbleSpan(counts[n], most)]
  <2>1. todo = {item(n) : n \in present}
    BY DEF PackInit, Items
  <2> HIDE DEF most
  <2>2. PICK n \in present : i = item(n)
    BY <2>1
  <2>3. i.span = BubbleSpan(counts[n], most)
    BY <2>2
  <2> QED BY <1>1, <2>3
<1> QED BY <1>2 DEF PackInit, PackInv

\* No two bubbles overlap and none leaves the columns, for any groups, any
\* number of columns from four on and any number of rows offered before the
\* placement falls back to the first row below all others.
THEOREM PackingIsTight == PageSpec => []WellPacked
<1>1. PageInit => PackInv
  BY PackStarts DEF PageInit
<1>2. PackInv /\ [PageNext]_pageVars => PackInv'
  BY StepsOfParts, PackStep
<1>3. PackInv => WellPacked
  BY DEF PackInv, WellPacked
<1> QED BY <1>1, <1>2, <1>3, PTL DEF PageSpec
-----------------------------------------------------------------------------
(* The picture.  What a live render does not write (Skeleton) is right     *)
(* while only a live render is due; then it completes the picture.         *)

RenderInv ==
    /\ settings \in [RGroups -> RSettings]
    /\ viewMode \in {"groups", "ip"} /\ renderPending \in BOOLEAN
    /\ pendingReason \in {"sample", "structure"}
    /\ ~renderPending => pendingReason = "sample" /\ dom = Picture(viewMode)
    /\ dom = [mode |-> dom.mode, sections |-> dom.sections, cards |-> dom.cards]
    /\ dom.mode # "groups" => dom.sections = {} /\ marked = {}
    /\ pendingReason = "sample" => Skeleton(dom) = Skeleton(Picture(viewMode))
    /\ \A g \in marked : renderPending \/ \E t \in toggles : t.name = g /\ t.fresh
    /\ dom.mode = "groups" /\ tip.state # "none" => tip.of \in Standing

LEMMA PictureIsRecord ==
    ASSUME NEW m \in {"groups", "ip"}
    PROVE  /\ Picture(m) = [mode |-> Picture(m).mode, sections |-> Picture(m).sections,
                            cards |-> Picture(m).cards]
           /\ Picture(m).mode # "groups" => Picture(m).sections = {}
BY DEF Picture, Present

\* A live render makes the right skeleton the right picture.
LEMMA LiveCompletes ==
    ASSUME NEW m \in {"groups", "ip"}, Skeleton(dom) = Skeleton(Picture(m)),
           dom = [mode |-> dom.mode, sections |-> dom.sections, cards |-> dom.cards]
    PROVE  UpdateHostCards = Picture(m)
<1> DEFINE P == Picture(m)
<1>1. /\ dom.mode = P.mode
      /\ {s.name : s \in dom.sections} = {s.name : s \in P.sections}
      /\ {<<c.host, c.within>> : c \in dom.cards} = {<<c.host, c.within>> : c \in P.cards}
  BY DEF Skeleton
<1>2. \A s \in P.sections : s = Section(s.name)
  <2>1. P.sections = IF m = "ip" THEN {} ELSE {Section(place[h]) : h \in Present}
    BY DEF Picture
  <2>2. ASSUME NEW g PROVE Section(g).name = g
    BY DEF Section
  <2> HIDE DEF P
  <2> QED BY <2>1, <2>2
<1>3. \A c \in P.cards : c.host \in Present /\ c = Card(c.host, c.within)
  BY DEF Picture, Card
<1> DEFINE pair(c) == <<c.host, c.within>>
<1>1a. {pair(c) : c \in dom.cards} = {pair(c) : c \in P.cards}
  BY <1>1
<1> HIDE DEF P, pair
<1>4. {Section(s.name) : s \in dom.sections} = P.sections
  <2>1. ASSUME NEW s \in dom.sections PROVE Section(s.name) \in P.sections
    <3>1. PICK q \in P.sections : q.name = s.name
      BY <1>1
    <3> QED BY <1>2, <3>1
  <2>2. ASSUME NEW q \in P.sections PROVE \E s \in dom.sections : q = Section(s.name)
    <3>1. PICK s \in dom.sections : s.name = q.name
      BY <1>1
    <3> QED BY <1>2, <3>1
  <2> QED BY <2>1, <2>2
<1>5. {IF c.host \in Present THEN Card(c.host, c.within) ELSE c : c \in dom.cards} = P.cards
  <2>1. ASSUME NEW c \in dom.cards
        PROVE  c.host \in Present /\ Card(c.host, c.within) \in P.cards
    <3>1. PICK q \in P.cards : pair(c) = pair(q)
      BY <1>1a
    <3>2. q.host = c.host /\ q.within = c.within
      BY <3>1 DEF pair
    <3> QED BY <1>3, <3>2
  <2>2. ASSUME NEW q \in P.cards
        PROVE  \E c \in dom.cards : c.host \in Present /\ q = Card(c.host, c.within)
    <3>1. PICK c \in dom.cards : pair(c) = pair(q)
      BY <1>1a
    <3>2. q.host = c.host /\ q.within = c.within
      BY <3>1 DEF pair
    <3> QED BY <1>3, <3>2
  <2> QED BY <2>1, <2>2
<1>6. UpdateHostCards = [mode |-> P.mode, sections |-> P.sections, cards |-> P.cards]
  <2>1. UpdateHostCards =
           [mode |-> dom.mode, sections |-> {Section(s.name) : s \in dom.sections},
            cards |-> {IF c.host \in Present THEN Card(c.host, c.within) ELSE c :
                          c \in dom.cards}]
    <3> DEFINE S == {Section(s.name) : s \in dom.sections}
               C == {IF c.host \in Present THEN Card(c.host, c.within) ELSE c : c \in dom.cards}
    <3>1. UpdateHostCards = [dom EXCEPT !.cards = C, !.sections = S]
      BY Zenon DEF UpdateHostCards
    <3> HIDE DEF S, C
    <3>2. UpdateHostCards = [mode |-> dom.mode, sections |-> S, cards |-> C]
      <4>1. ASSUME NEW M, NEW A, NEW B
            PROVE  [[mode |-> M, sections |-> A, cards |-> B] EXCEPT !.cards = C]
                      = [mode |-> M, sections |-> A, cards |-> C]
        OBVIOUS
      <4>2. ASSUME NEW M, NEW A
            PROVE  [[mode |-> M, sections |-> A, cards |-> C] EXCEPT !.sections = S]
                      = [mode |-> M, sections |-> S, cards |-> C]
        OBVIOUS
      <4>3. [dom EXCEPT !.cards = C, !.sections = S] = [[dom EXCEPT !.cards = C] EXCEPT !.sections = S]
        OBVIOUS
      <4> QED BY <3>1, <4>1, <4>2, <4>3
    <3> QED BY <3>2 DEF S, C
  <2> QED BY <1>1, <1>4, <1>5, <2>1
<1> QED BY <1>6, PictureIsRecord DEF P

\* The parts that no step but a render touches.
LEMMA StoreStep ==
    ASSUME RenderInv, settings' \in [RGroups -> RSettings], Notify("structure"),
           UNCHANGED <<dom, marked, tip>>
    PROVE  RenderInv'
BY DEF RenderInv, Notify, Standing

LEMMA RenderStep ==
    ASSUME RenderInv, NEW m \in {"groups", "ip"}, Rebuild(m), viewMode' = m,
           UNCHANGED storeVars, renderPending' \in BOOLEAN,
           pendingReason' \in {"sample", "structure"},
           ~renderPending' => pendingReason' = "sample"
    PROVE  RenderInv'
<1>1. dom' = Picture(m) /\ Picture(viewMode)' = Picture(m)
  BY DEF Rebuild, storeVars, Picture, Section, Card, Members, Present
<1>2. Skeleton(dom)' = Skeleton(Picture(viewMode))'
  BY <1>1 DEF Skeleton
<1>3. tip' = NoTip \/ dom'.mode # "groups"
  BY <1>1 DEF Rebuild, Picture
<1>4. marked' = {}
  BY DEF Rebuild
<1> QED BY <1>1, <1>2, <1>3, <1>4, PictureIsRecord DEF RenderInv, NoTip, storeVars
\* What a live render does not write depends on places and settings only.
LEMMA SkeletonStays ==
    ASSUME NEW m \in {"groups", "ip"}, UNCHANGED <<place, settings>>
    PROVE  Skeleton(Picture(m))' = Skeleton(Picture(m))
<1>1. Present' = Present
  BY DEF Present
<1>2. Picture(m)'.mode = Picture(m).mode
  BY <1>1 DEF Picture
<1>3. {s.name : s \in Picture(m)'.sections} = {s.name : s \in Picture(m).sections}
  <2> DEFINE called(s) == s.name
  <2>1. ASSUME NEW g PROVE called(Section(g)) = g /\ called(Section(g)') = g
    BY DEF Section
  <2>2. Picture(m).sections = IF m = "ip" THEN {} ELSE {Section(place[h]) : h \in Present}
    BY DEF Picture
  <2>3. Picture(m)'.sections = IF m = "ip" THEN {} ELSE {Section(place[h])' : h \in Present}
    BY <1>1 DEF Picture
  <2> HIDE DEF called
  <2>4. {called(s) : s \in {Section(place[h]) : h \in Present}}
           = {called(s) : s \in {Section(place[h])' : h \in Present}}
    BY <2>1
  <2>5. {called(s) : s \in Picture(m)'.sections} = {called(s) : s \in Picture(m).sections}
    BY <2>2, <2>3, <2>4
  <2> QED BY <2>5 DEF called
<1>4. {<<c.host, c.within>> : c \in Picture(m)'.cards}
         = {<<c.host, c.within>> : c \in Picture(m).cards}
  <2> DEFINE carded == {h \in Present : ~settings[place[h]].collapsed}
             pair(c) == <<c.host, c.within>>
  <2>1. ASSUME NEW h, NEW g
        PROVE  pair(Card(h, g)) = <<h, g>> /\ pair(Card(h, g)') = <<h, g>>
    BY DEF Card
  <2>2. Picture(m).cards = IF m = "ip" THEN {Card(h, Nowhere) : h \in Present}
                           ELSE {Card(h, place[h]) : h \in carded}
    BY DEF Picture
  <2>3. Picture(m)'.cards = IF m = "ip" THEN {Card(h, Nowhere)' : h \in Present}
                            ELSE {Card(h, place[h])' : h \in carded}
    BY <1>1 DEF Picture
  <2> HIDE DEF carded, pair
  <2>4. {pair(c) : c \in {Card(h, Nowhere) : h \in Present}}
           = {pair(c) : c \in {Card(h, Nowhere)' : h \in Present}}
    BY <2>1
  <2>5. {pair(c) : c \in {Card(h, place[h]) : h \in carded}}
           = {pair(c) : c \in {Card(h, place[h])' : h \in carded}}
    BY <2>1
  <2>6. {pair(c) : c \in Picture(m)'.cards} = {pair(c) : c \in Picture(m).cards}
    BY <2>2, <2>3, <2>4, <2>5
  <2> QED BY <2>6 DEF pair
<1> QED BY <1>2, <1>3, <1>4 DEF Skeleton

LEMMA SampleStep ==
    ASSUME RenderInv, NEW reason \in {"sample", "group"}, Notify(reason),
           UNCHANGED <<place, settings, dom, marked, tip>>
    PROVE  RenderInv'
<1>1. PICK m \in {"groups", "ip"} : m = viewMode /\ m = viewMode'
  BY DEF RenderInv, Notify
<1>2. Skeleton(Picture(m))' = Skeleton(Picture(m))
  BY SkeletonStays
<1>3. Skeleton(Picture(viewMode))' = Skeleton(Picture(viewMode)) /\ Skeleton(dom)' = Skeleton(dom)
  BY <1>1, <1>2 DEF Skeleton
<1> QED BY <1>3 DEF RenderInv, Notify, Standing

\* A record that comes back as it was asks for less than one that changed.
LEMMA UpsertStep ==
    ASSUME RenderInv, NEW g, NEW r \in RSettings, UpsertGroup(g, r),
           UNCHANGED <<dom, marked, tip>>
    PROVE  RenderInv'
<1>1. settings' = [settings EXCEPT ![g] = r] /\ settings' \in [RGroups -> RSettings]
      /\ UNCHANGED place
  BY DEF UpsertGroup, RenderInv
<1>2. CASE r # settings[g]
  BY <1>1, <1>2, StoreStep DEF UpsertGroup
<1>3. CASE r = settings[g]
  <2>1. settings' = settings
    BY <1>1, <1>3 DEF RenderInv
  <2> QED BY <1>1, <1>3, <2>1, SampleStep DEF UpsertGroup
<1> QED BY <1>2, <1>3

LEMMA FrameStep == ASSUME RenderInv, AnimationFrame PROVE RenderInv'
<1>1. viewMode \in {"groups", "ip"} /\ viewMode' = viewMode /\ UNCHANGED storeVars
      /\ renderPending' = FALSE /\ pendingReason' = "sample"
  BY DEF RenderInv, AnimationFrame
<1>2. CASE pendingReason = "structure"
  <2>1. Rebuild(viewMode)
    BY <1>2 DEF AnimationFrame
  <2>2. PICK m \in {"groups", "ip"} : m = viewMode
    BY <1>1
  <2> QED BY <1>1, <2>1, <2>2, RenderStep
<1>3. CASE pendingReason = "sample"
  <2>1. RenderLive
    BY <1>3 DEF AnimationFrame
  <2>2. PICK m \in {"groups", "ip"} : m = viewMode
    BY <1>1
  <2>3. Skeleton(dom) = Skeleton(Picture(m))
        /\ dom = [mode |-> dom.mode, sections |-> dom.sections, cards |-> dom.cards]
    BY <1>3, <2>2 DEF RenderInv
  <2>4. dom' = Picture(m)
    BY <2>1, <2>3, LiveCompletes DEF RenderLive
  <2>5. Picture(viewMode)' = Picture(m)
    BY <1>1, <2>2 DEF storeVars, Picture, Section, Card, Members, Present
  <2>6. dom'.mode = dom.mode /\ Standing' = Standing
    <3>1. Picture(m).mode = dom.mode
          /\ {s.name : s \in Picture(m).sections} = {s.name : s \in dom.sections}
      BY <2>3 DEF Skeleton
    <3> QED BY <2>4, <3>1 DEF Standing
  <2>7. marked' = {} /\ UNCHANGED <<toggles, tip>>
    BY <2>1 DEF RenderLive, RenderInv
  <2>8. Skeleton(dom)' = Skeleton(Picture(viewMode))'
    BY <2>4, <2>5 DEF Skeleton
  <2> QED BY <1>1, <2>4, <2>5, <2>6, <2>7, <2>8, PictureIsRecord DEF RenderInv, storeVars
<1> QED BY <1>2, <1>3 DEF RenderInv

LEMMA ChangeStep == ASSUME RenderInv, StoreChanges PROVE RenderInv'
<1>1. ASSUME NEW list, SetHosts(list) PROVE RenderInv'
  BY <1>1, StoreStep DEF SetHosts, domVars, RenderInv
<1>2. ASSUME NEW list \in [RGroups -> RSettings], SetGroups(list) PROVE RenderInv'
  BY <1>2, StoreStep DEF SetGroups, domVars
<1>3. ASSUME NEW h \in RHosts, DeleteHost(h) PROVE RenderInv'
  BY <1>3, StoreStep DEF DeleteHost, domVars, RenderInv
<1>4. ASSUME NEW h \in RHosts, NEW g \in RGroups, UpsertHost(h, g) PROVE RenderInv'
  BY <1>4, StoreStep DEF UpsertHost, domVars, RenderInv
<1>5. ASSUME NEW h \in RHosts, NEW online \in BOOLEAN, AddSample(h, online)
      PROVE  RenderInv'
  BY <1>5, SampleStep DEF AddSample, domVars
<1>6. ASSUME NEW g \in RGroups, DeleteGroup(g) PROVE RenderInv'
  <2>1. settings' \in [RGroups -> RSettings]
    BY <1>6, RenderingConstants DEF DeleteGroup, RenderInv
  <2> QED BY <1>6, <2>1, StoreStep DEF DeleteGroup, domVars
<1>7. ASSUME NEW g \in RGroups, NEW r \in RSettings, UpsertGroup(g, r), UNCHANGED domVars
      PROVE  RenderInv'
  BY <1>7, UpsertStep DEF domVars
<1> QED BY <1>1, <1>2, <1>3, <1>4, <1>5, <1>6, <1>7 DEF StoreChanges

LEMMA RenderStarts == ASSUME RenderingInit PROVE RenderInv
<1>1. dom = Picture("groups") /\ viewMode = "groups"
  BY DEF RenderingInit
<1>2. settings \in [RGroups -> RSettings]
  BY RenderingConstants DEF RenderingInit
<1>3. dom = Picture(viewMode) /\ Skeleton(dom) = Skeleton(Picture(viewMode))
  BY <1>1
<1>4. /\ dom = [mode |-> dom.mode, sections |-> dom.sections, cards |-> dom.cards]
      /\ dom.mode # "groups" => dom.sections = {}
  BY <1>1, PictureIsRecord
<1>5. tip.state = "none"
  BY DEF RenderingInit, NoTip
<1> QED BY <1>2, <1>3, <1>4, <1>5 DEF RenderingInit, RenderInv

LEMMA RenderingStep ==
    ASSUME RenderInv, [RenderingNext]_renderVars
    PROVE  RenderInv'
<1>1. CASE StoreChanges
  BY <1>1, ChangeStep
<1>2. CASE AnimationFrame
  BY <1>2, FrameStep
<1>3. ASSUME NEW mode \in {"groups", "ip"}, SetView(mode) PROVE RenderInv'
  BY <1>3, RenderStep DEF SetView, RenderInv
<1>4. ASSUME NEW g \in RGroups, ContextMenu(g) PROVE RenderInv'
  <2>1. [name |-> g, fresh |-> TRUE].name = g /\ [name |-> g, fresh |-> TRUE].fresh
    OBVIOUS
  <2>2. \A n \in marked' : renderPending' \/ \E t \in toggles' : t.name = n /\ t.fresh
    BY <1>4, <2>1 DEF ContextMenu, RenderInv, frameVars
  <2>3. dom.mode = "groups"
    BY <1>4 DEF ContextMenu, Standing, RenderInv
  <2>4. Skeleton(dom)' = Skeleton(dom) /\ Standing' = Standing
        /\ Picture(viewMode)' = Picture(viewMode)
    BY <1>4 DEF ContextMenu, Skeleton, Standing, Picture, Section, Card, Members, Present,
                frameVars, storeVars
  <2>5. Skeleton(Picture(viewMode))' = Skeleton(Picture(viewMode))
    BY <2>4 DEF Skeleton
  <2> QED BY <1>4, <2>2, <2>3, <2>4, <2>5 DEF ContextMenu, RenderInv, frameVars, storeVars
<1>5. ASSUME NEW t \in toggles, NEW r \in RSettings, ToggleAnswered(t, r) PROVE RenderInv'
  BY <1>5, UpsertStep DEF ToggleAnswered
<1>6. CASE /\ UNCHANGED <<dom, frameVars, storeVars>>
           /\ tip' = tip \/ dom.mode # "groups" \/ tip' = NoTip \/ tip'.of \in Standing
           /\ marked' \subseteq marked
           /\ \A g \in marked' : renderPending \/ \E t \in toggles' : t.name = g /\ t.fresh
  <2>1. Skeleton(dom)' = Skeleton(dom) /\ Standing' = Standing
        /\ Picture(viewMode)' = Picture(viewMode)
    BY <1>6 DEF Skeleton, Standing, Picture, Section, Card, Members, Present,
                frameVars, storeVars
  <2>2. Skeleton(Picture(viewMode))' = Skeleton(Picture(viewMode))
    BY <2>1 DEF Skeleton
  <2> QED BY <1>6, <2>1, <2>2 DEF RenderInv, frameVars, storeVars, NoTip
<1>7. ASSUME NEW t \in toggles, ToggleFails(t) PROVE RenderInv'
  BY <1>6, <1>7 DEF ToggleFails, RenderInv
<1>8. ASSUME NEW g \in RGroups, PointerEnters(g) PROVE RenderInv'
  BY <1>6, <1>8 DEF PointerEnters, RenderInv
<1>9. CASE PointerLeaves
  BY <1>6, <1>9 DEF PointerLeaves, RenderInv
<1>10. CASE TooltipTimer
  <2>1. [tip EXCEPT !.state = "shown"].of = tip.of
    BY <1>10 DEF TooltipTimer
  <2> QED BY <1>6, <1>10, <2>1 DEF TooltipTimer, RenderInv
<1>11. CASE UNCHANGED renderVars
  BY <1>6, <1>11 DEF renderVars, domVars, RenderInv
<1> QED BY <1>1, <1>2, <1>3, <1>4, <1>5, <1>7, <1>8, <1>9, <1>10, <1>11 DEF RenderingNext
-----------------------------------------------------------------------------
(* The view of one host.                                                   *)

LEMMA DrillStep ==
    ASSUME DrillFollowsHost, [DrillNext]_drillVars
    PROVE  DrillFollowsHost'
<1>1. CASE CloseButton
  BY <1>1 DEF CloseButton, CloseDrill, DrillFollowsHost
<1>2. ASSUME NEW h \in DHosts, OpenCard(h) PROVE DrillFollowsHost'
  BY <1>2 DEF OpenCard, OpenDrill, DrillFollowsHost
<1>3. ASSUME NEW h, HashChange(h) PROVE DrillFollowsHost'
  BY <1>3 DEF HashChange, OpenDrill, DrillFollowsHost
<1>4. ASSUME Follow PROVE DrillFollowsHost'
  BY <1>4 DEF Follow, CloseDrill, DrillFollowsHost
<1>5. CASE UNCHANGED drillVars
  BY <1>5 DEF drillVars, DrillFollowsHost
<1> QED BY <1>1, <1>2, <1>3, <1>4, <1>5 DEF DrillNext, StoreSample, StoreHosts

\* The groups page and the view of one host show what the Store has, for any
\* hosts and groups and whatever order of changes, frames, clicks and answers.
THEOREM PageIsCurrent == PageSpec => []PageShowsStore
<1>1. PageInit => RenderInv /\ DrillFollowsHost
  <2>1. RenderingInit => RenderInv
    BY RenderStarts
  <2>2. DrillInit => DrillFollowsHost
    BY DEF DrillInit, DrillFollowsHost
  <2> QED BY <2>1, <2>2 DEF PageInit
<1>2. RenderInv /\ DrillFollowsHost /\ [PageNext]_pageVars => RenderInv' /\ DrillFollowsHost'
  BY StepsOfParts, RenderingStep, DrillStep
<1>3. RenderInv /\ DrillFollowsHost => PageShowsStore
  BY DEF RenderInv, PageShowsStore, PictureInPlace
<1> QED BY <1>1, <1>2, <1>3, PTL DEF PageSpec
=============================================================================
