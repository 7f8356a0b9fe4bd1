----------------------------- MODULE BubbleMotion -----------------------------
(***************************************************************************)
(* The motion of the group bubbles (bubble-physics.js): a layout that is   *)
(* due in an animation frame, a loop of frames that moves the bubbles laid *)
(* out and comes to rest, hovering that wakes it, and the scroll that      *)
(* brings a hovered bubble into focus.  Sections are rebuilt, pages turned *)
(* and windows resized while frames are pending.                           *)
(*                                                                         *)
(* One bubble is followed, along one axis; the pull of the centre and the  *)
(* collisions with the others move it anywhere, the walls are exact.       *)
(***************************************************************************)
EXTENDS Integers, FiniteSets

CONSTANTS Widths, Rest, Grown    \* canvas widths, radius at rest and expanded

ASSUME MotionConstants ==
    /\ Rest \in Nat /\ Grown \in Nat /\ Rest <= Grown
    /\ Widths \subseteq Nat

VARIABLES
    onResults,  \* the results page is shown
    bubbles,    \* #groups holds bubbles
    bound,      \* those have their pointer handlers
    canvas,     \* its width now
    layout,     \* the layout that is due: "none", "run" or "rest"
    physicsItems,   \* bubblePhysicsItems: "none", "old" (removed elements), "now"
    bounds,     \* bubblePhysicsBounds: the width they were laid out in
    x, scale, target,       \* the followed bubble; scale and targetScale by
                            \* the radius they give
    attr,       \* dataset.bubblePhysics
    frames,     \* pending frames of loops, [id, over]; one of an earlier run
                \* does nothing (the runId guard) and is left out
    handle,     \* bubblePhysicsFrame, 0 for none
    gliding,    \* bubbleFocusScrollTarget is set
    glides,     \* pending frames of focus scrolls
    glideHandle \* bubbleFocusScrollFrame is one of them

bubbleVars == <<physicsItems, bounds, x, scale, target>>
loopVars == <<attr, frames, handle>>
glideVars == <<gliding, glides, glideHandle>>
motionVars == <<onResults, bubbles, bound, canvas, layout, bubbleVars, loopVars, glideVars>>

MotionTypeOK ==
    /\ canvas \in Widths /\ bounds \in Widths \cup {0}
    /\ layout \in {"none", "run", "rest"} /\ physicsItems \in {"none", "old", "now"}
    /\ x \in Int /\ {scale, target} \subseteq {Rest, Grown}
    /\ attr \in {"idle", "running", "settled"}
    /\ frames \subseteq [id : Nat, over : {"old", "now"}]

MotionInit ==
    /\ onResults = FALSE /\ bubbles = FALSE /\ bound = FALSE
    /\ canvas \in Widths
    /\ layout = "none" /\ physicsItems = "none" /\ bounds = 0
    /\ x = 0 /\ scale = Rest /\ target = Rest
    /\ attr = "idle" /\ frames = {} /\ handle = 0
    /\ gliding = FALSE /\ glides = 0 /\ glideHandle = FALSE

-----------------------------------------------------------------------------
ScheduleBubblePhysics(run) == layout' = IF run THEN "run" ELSE "rest"

\* resolveBubbleWalls: the first wall goes first.
ResolveWalls(at, radius, width) ==
    IF at - radius < 0 THEN radius
    ELSE IF at + radius > width THEN width - radius ELSE at

\* Where a bubble may be after one pass over collisions and walls.
Reach(radius, width) == {ResolveWalls(at, radius, width) : at \in -1 .. width + 1}

\* Mutant: a new loop is started beside the one that runs.
KeptAll == frames
Kept == {f \in frames : f.id # handle}      \* cancelAnimationFrame

FreshId == CHOOSE i \in 1..4 : \A f \in frames : f.id # i

Request(pending, over) ==
    /\ frames' = pending \cup {[id |-> FreshId, over |-> over]}
    /\ handle' = FreshId

StartLoop == attr' = "running" /\ Request(Kept, "now")

\* cancelBubblePhysics: a new run.
CancelLoop == frames' = {} /\ handle' = 0

CancelGlide ==
    /\ gliding' = FALSE /\ glideHandle' = FALSE
    /\ glides' = IF glideHandle THEN glides - 1 ELSE glides

-----------------------------------------------------------------------------
(* Rebuilt sections, turned pages, resized windows.                        *)

\* innerHTML is replaced: with bubbles, that are to be laid out, or with the
\* note that there are none.
Rerender(some) ==
    /\ bubbles' = some /\ bound' = FALSE /\ attr' = "idle"
    /\ physicsItems' = IF physicsItems = "now" THEN "old" ELSE physicsItems
    /\ frames' = {[f EXCEPT !.over = "old"] : f \in frames}
    /\ IF some THEN ScheduleBubblePhysics(onResults) ELSE UNCHANGED layout
    /\ UNCHANGED <<onResults, canvas, bounds, x, scale, target, handle, glideVars>>

\* The MutationObserver on data-page, also when the page is set again.
TurnTo(results) ==
    /\ onResults' = results
    /\ IF results THEN ScheduleBubblePhysics(TRUE) ELSE UNCHANGED layout
    /\ UNCHANGED <<bubbles, bound, canvas, bubbleVars, loopVars, glideVars>>

\* Mutant: only the hidden page is laid out anew.
ResizeUnplaced(w) ==
    /\ canvas' = w
    /\ IF onResults THEN UNCHANGED layout ELSE ScheduleBubblePhysics(FALSE)
    /\ UNCHANGED <<onResults, bubbles, bound, bubbleVars, loopVars, glideVars>>
Resize(w) ==
    /\ canvas' = w /\ ScheduleBubblePhysics(FALSE)
    /\ UNCHANGED <<onResults, bubbles, bound, bubbleVars, loopVars, glideVars>>

-----------------------------------------------------------------------------
(* The layout that was due.                                                *)

LayoutNothing ==
    /\ layout # "none" /\ layout' = "none" /\ ~bubbles
    /\ physicsItems' = "none" /\ bounds' = 0
    /\ CancelLoop /\ CancelGlide
    /\ UNCHANGED <<onResults, bubbles, bound, canvas, x, scale, target, attr>>

LayOut ==
    /\ layout # "none" /\ layout' = "none" /\ bubbles
    /\ physicsItems' = "now" /\ bounds' = canvas /\ bound' = TRUE
    /\ scale' = Rest /\ target' = Rest
    /\ x' \in Reach(Rest, canvas)
    /\ CancelGlide
    /\ UNCHANGED <<onResults, bubbles, canvas>>

\* Wanted at rest, or motion is to be reduced (the user's preference).
LayOutAtRest ==
    /\ LayOut
    /\ attr' = "settled" /\ CancelLoop

LayOutRunning ==
    /\ LayOut /\ layout = "run"
    /\ attr' = "running" /\ Request({}, "now")

-----------------------------------------------------------------------------
(* Frames of the loop.                                                     *)

Move(f) ==
    IF f.over = "now" THEN x' \in Reach(scale, bounds) ELSE UNCHANGED x

FrameGoesOn(f) ==
    /\ Move(f)
    /\ scale' \in IF f.over = "now" THEN {scale, target} ELSE {scale}
    /\ Request(frames \ {f}, f.over)
    /\ UNCHANGED <<onResults, bubbles, bound, canvas, layout, physicsItems, bounds, target,
                   attr, glideVars>>

FrameSettles(f) ==
    /\ Move(f)
    /\ scale' = IF f.over = "now" THEN target ELSE scale
    /\ attr' = "settled" /\ handle' = 0
    /\ frames' = frames \ {f}
    /\ UNCHANGED <<onResults, bubbles, bound, canvas, layout, physicsItems, bounds, target,
                   glideVars>>

-----------------------------------------------------------------------------
(* The pointer.                                                            *)

ScrollIntoFocus ==
    \/ UNCHANGED glideVars
    \/ /\ gliding' = TRUE /\ glideHandle' = TRUE
       /\ glides' = IF glideHandle THEN glides ELSE glides + 1

PointerEntersBubble(followed) ==
    /\ bound /\ physicsItems = "now"
    /\ target' = IF followed THEN Grown ELSE target
    /\ StartLoop /\ ScrollIntoFocus
    /\ UNCHANGED <<onResults, bubbles, bound, canvas, layout, physicsItems, bounds, x, scale>>

PointerLeavesBubble(followed) ==
    /\ bound /\ physicsItems = "now"
    /\ target' = IF followed THEN Rest ELSE target
    /\ StartLoop /\ CancelGlide
    /\ UNCHANGED <<onResults, bubbles, bound, canvas, layout, physicsItems, bounds, x, scale>>

WheelOverResults ==
    /\ CancelGlide
    /\ UNCHANGED <<onResults, bubbles, bound, canvas, layout, bubbleVars, loopVars>>

GlideStep ==
    /\ glides > 0
    /\ \/ gliding /\ UNCHANGED glideVars
       \/ gliding' = FALSE /\ glides' = glides - 1 /\ glideHandle' = FALSE
    /\ UNCHANGED <<onResults, bubbles, bound, canvas, layout, bubbleVars, loopVars>>

MotionNext ==
    \/ LayoutNothing \/ LayOutAtRest \/ LayOutRunning \/ WheelOverResults \/ GlideStep
    \/ \E b \in BOOLEAN : Rerender(b) \/ TurnTo(b) \/ PointerEntersBubble(b) \/ PointerLeavesBubble(b)
    \/ \E w \in Widths : Resize(w)
    \/ \E f \in frames : FrameGoesOn(f) \/ FrameSettles(f)

-----------------------------------------------------------------------------
\* What bubblePhysics says is so: one frame at most is pending and it is the
\* one that the next layout or hover can cancel; "running" means that a loop
\* moves the bubbles on the page, "settled" that none does and that they have
\* their final size; and a focus scroll goes on exactly while it has a target,
\* so that the wheel or the pointer's leaving really ends it.
MotionIsTruthful ==
    /\ \A f \in frames : f.id = handle
    /\ attr = "running" => physicsItems = "now" /\ \E f \in frames : f.over = "now"
    /\ attr = "settled" =>
           /\ \A f \in frames : f.over # "now"
           /\ physicsItems = "now" => scale = target
    /\ glides = IF gliding THEN 1 ELSE 0

\* Unless a layout is due, every bubble on the page has been placed, for the
\* width the canvas has now: rebuilding, turning and resizing in any order, with
\* old loops still running, leaves none at its starting point.  And it lies
\* within the canvas, if its radius at rest and the expanded one have room there
\* together; they may have not, as a bubble is at least as wide as its hosts
\* need (bubble-physics.js:147-149, 170).
PlacedOrDue ==
    bubbles /\ layout = "none" =>
        /\ physicsItems = "now" /\ bounds = canvas
        /\ Rest + Grown <= canvas => x >= Rest /\ x + Rest <= canvas
=============================================================================
