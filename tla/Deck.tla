-------------------------------- MODULE Deck --------------------------------
(***************************************************************************)
(* The three pages of the application and how the user turns them          *)
(* (design-examples.js): buttons, arrow keys, and the wheel, which on the  *)
(* results page turns the page only at the end of the list and after a     *)
(* pause.                                                                  *)
(***************************************************************************)
EXTENDS Integers

VARIABLES
    page,       \* main.dataset.page: 0 hero, 1 results, 2 dashboard
    spot,       \* where the list of the results page is scrolled to
    direction,  \* wheelBoundaryDirection
    phase,      \* now against wheelBoundaryReadyAt and the window after it
    turnTimer,  \* wheelBoundaryTimer is set
    pushed,     \* history: the push at the end of the list, and whether the
                \* pause has passed since it began
    turned      \* history: whether the last step was the wheel turning the page

deckVars == <<page, spot, direction, phase, turnTimer, pushed, turned>>

Pages == 0..2
Directions == {-1, 1}
Spots == {"fits", "top", "middle", "bottom"}

NoPush == [way |-> 0, paused |-> FALSE]

DeckTypeOK ==
    /\ page \in Pages /\ spot \in Spots
    /\ direction \in Directions \cup {0}
    /\ phase \in {"idle", "waiting", "ready", "late"}
    /\ turnTimer \in BOOLEAN
    /\ pushed \in [way : Directions \cup {0}, paused : BOOLEAN]
    /\ turned \in BOOLEAN

DeckInit ==
    /\ page = 0 /\ spot \in Spots
    /\ direction = 0 /\ phase = "idle" /\ turnTimer = FALSE
    /\ pushed = NoPush /\ turned = FALSE

Clamped(p) == IF p < 0 THEN 0 ELSE IF p > 2 THEN 2 ELSE p

ResetWheelBoundary ==
    direction' = 0 /\ phase' = "idle" /\ turnTimer' = FALSE

SetPage(p) == ResetWheelBoundary /\ page' = p

\* The list cannot be scrolled further that way.
AtEnd(way) ==
    \/ spot = "fits"
    \/ spot = IF way < 0 THEN "top" ELSE "bottom"

-----------------------------------------------------------------------------
(* Buttons and arrow keys.                                                 *)

Button ==
    /\ \/ page = 0 /\ SetPage(1)
       \/ page = 1 /\ (SetPage(0) \/ SetPage(2))
       \/ page = 2 /\ SetPage(1)
    /\ pushed' = NoPush /\ turned' = FALSE /\ UNCHANGED spot

Arrow(way) ==
    /\ SetPage(Clamped(page + way))
    /\ pushed' = NoPush /\ turned' = FALSE /\ UNCHANGED spot

\* The answer to START shows the results, without setPage
\* (monitoring.js:61-62).
StartAnswered ==
    /\ page' = 1
    /\ turned' = FALSE /\ UNCHANGED <<spot, direction, phase, turnTimer, pushed>>

-----------------------------------------------------------------------------
(* The wheel, turned by dy and, slightly, by dx.                           *)

WheelWay(dy, dx) == IF dy > 0 \/ dx > 0 THEN 1 ELSE -1

\* Mutant: the direction of the push is not compared.
StillArmedEitherWay(way) == phase \in {"waiting", "ready"}
StillArmed(way) == direction = way /\ phase \in {"waiting", "ready"}

\* The list scrolls, the page stays.
WheelScrolls(dy) ==
    /\ page = 1 /\ ~AtEnd(dy)
    /\ ResetWheelBoundary
    /\ spot' \in {"middle", IF dy < 0 THEN "top" ELSE "bottom"}
    /\ pushed' = NoPush /\ turned' = FALSE /\ UNCHANGED page

WheelArms(dy, way) ==
    /\ page = 1 /\ AtEnd(dy) /\ ~StillArmed(way)
    /\ direction' = way /\ phase' = "waiting" /\ turnTimer' = TRUE
    /\ pushed' = [way |-> way, paused |-> FALSE]
    /\ turned' = FALSE /\ UNCHANGED <<page, spot>>

WheelTurns(dy, way) ==
    /\ page = 1 /\ AtEnd(dy) /\ StillArmed(way) /\ phase = "ready"
    /\ SetPage(Clamped(page + way))
    /\ pushed' = NoPush /\ turned' = TRUE /\ UNCHANGED spot

\* On the other pages, or mostly sideways, the wheel turns at once.
WheelElsewhere(way) ==
    /\ SetPage(Clamped(page + way))
    /\ pushed' = NoPush /\ turned' = FALSE /\ UNCHANGED spot

\* The timer of armWheelBoundary.
TurnTimerFires ==
    /\ turnTimer /\ phase \in {"ready", "late"}
    /\ IF page = 1 /\ AtEnd(direction)
       THEN SetPage(Clamped(page + direction)) /\ pushed' = NoPush /\ turned' = TRUE
       ELSE turnTimer' = FALSE /\ turned' = FALSE
            /\ UNCHANGED <<page, direction, phase, pushed>>
    /\ UNCHANGED spot

\* 520 ms after arming the boundary is ready, and 4200 ms later it is no
\* longer armed.
TimePasses ==
    /\ phase \in {"waiting", "ready"}
    /\ phase' = IF phase = "waiting" THEN "ready" ELSE "late"
    /\ pushed' = [pushed EXCEPT !.paused = TRUE]
    /\ turned' = FALSE /\ UNCHANGED <<page, spot, direction, turnTimer>>

\* By scrollbar, key or touch, or because hosts come and go: no wheel event.
SpotMoves ==
    /\ spot' \in Spots
    /\ turned' = FALSE /\ UNCHANGED <<page, direction, phase, turnTimer, pushed>>

DeckNext ==
    \/ Button \/ StartAnswered \/ TurnTimerFires \/ TimePasses \/ SpotMoves
    \/ \E way \in Directions : Arrow(way) \/ WheelElsewhere(way)
    \/ \E dy \in Directions, dx \in -1..1 :
           \/ WheelScrolls(dy)
           \/ WheelArms(dy, WheelWay(dy, dx)) \/ WheelTurns(dy, WheelWay(dy, dx))

-----------------------------------------------------------------------------
\* The wheel turns the results page only at an end of the list, and only in
\* the direction of a push that began there a pause earlier, whether the next
\* wheel event or the timer turns it, and whatever else moved the list or the
\* page meanwhile.
DeliberateTurns ==
    [][turned' =>
          /\ page = 1 /\ spot # "middle"
          /\ pushed.paused /\ page' = page + pushed.way]_deckVars
=============================================================================
