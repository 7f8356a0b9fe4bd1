------------------------------ MODULE Rendering ------------------------------
(***************************************************************************)
(* From the Store to the page: store.js changes and notifies, app.js       *)
(* gathers the notifications into one render per animation frame, and      *)
(* dashboard.js rebuilds the sections ("structure") or writes new values   *)
(* into the ones that stand (live).  A change that needs the first and     *)
(* only gets the second leaves a picture of a Store that no longer is.     *)
(***************************************************************************)
EXTENDS FiniteSets, Naturals

CONSTANTS
    RHosts, RGroups, Nowhere,
    RSettings       \* the group records that messages and answers carry

Settings == [enabled : BOOLEAN, collapsed : BOOLEAN]
DefaultSettings == [enabled |-> TRUE, collapsed |-> FALSE]

ASSUME RenderingConstants ==
    Nowhere \notin RGroups /\ DefaultSettings \in RSettings /\ RSettings \subseteq Settings

VARIABLES
    place,          \* Store.hosts: the group of each host, or Nowhere
    settings,       \* Store.groups, with the defaults of groupState
    up,             \* Store.samples: the hosts derived as online or slow
    viewMode, renderPending, pendingReason,
    dom,            \* the sections and host cards inside #groups
    marked,         \* sections with data-pending
    toggles,        \* right-click toggles without an answer; fresh: the
                    \* section clicked still stands
    tip             \* the tooltip and the section it is for

storeVars == <<place, settings, up>>
frameVars == <<viewMode, renderPending, pendingReason>>
domVars == <<dom, marked, toggles, tip>>
renderVars == <<storeVars, frameVars, domVars>>

NoTip == [state |-> "none", of |-> Nowhere]

RenderingTypeOK ==
    /\ place \in [RHosts -> RGroups \cup {Nowhere}]
    /\ settings \in [RGroups -> RSettings] /\ up \subseteq RHosts
    /\ viewMode \in {"groups", "ip"} /\ renderPending \in BOOLEAN
    /\ pendingReason \in {"sample", "structure"}
    /\ marked \subseteq RGroups
    /\ toggles \subseteq [name : RGroups, fresh : BOOLEAN]
    /\ tip \in [state : {"none", "due", "shown"}, of : RGroups \cup {Nowhere}]

-----------------------------------------------------------------------------
(* What render() builds and what renderLive() writes.                      *)

Members(g) == {h \in RHosts : place[h] = g}
Present == {h \in RHosts : place[h] # Nowhere}

Section(g) ==
    [name |-> g, enabled |-> settings[g].enabled, collapsed |-> settings[g].collapsed,
     count |-> Cardinality(Members(g)), online |-> Cardinality(Members(g) \cap up)]

Card(h, g) == [host |-> h, within |-> g, online |-> h \in up]

Picture(mode) ==
    [mode |-> IF Present = {} THEN "empty" ELSE mode,
     sections |-> IF mode = "ip" THEN {} ELSE {Section(place[h]) : h \in Present},
     cards |-> IF mode = "ip" THEN {Card(h, Nowhere) : h \in Present}
               ELSE {Card(h, place[h]) : h \in {i \in Present : ~settings[place[i]].collapsed}}]

UpdateHostCards ==
    [dom EXCEPT
        !.cards = {IF c.host \in Present THEN Card(c.host, c.within) ELSE c : c \in @},
        !.sections = {Section(s.name) : s \in @}]

\* Only renderGroups with at least one group hides the tooltip.
Rebuild(mode) ==
    /\ dom' = Picture(mode)
    /\ marked' = {}
    /\ toggles' = {[t EXCEPT !.fresh = FALSE] : t \in toggles}
    /\ tip' = IF Picture(mode).mode = "groups" \/ tip.state = "none" THEN NoTip
              ELSE [tip EXCEPT !.of = Nowhere]

RenderLive ==
    /\ dom' = UpdateHostCards
    /\ marked' = IF dom.mode = "groups" THEN {} ELSE marked
    /\ UNCHANGED <<toggles, tip>>

RenderingInit ==
    /\ place = [h \in RHosts |-> Nowhere]
    /\ settings = [g \in RGroups |-> DefaultSettings]
    /\ up = {} /\ viewMode = "groups"
    /\ renderPending = FALSE /\ pendingReason = "sample"
    /\ dom = Picture("groups") /\ marked = {} /\ toggles = {} /\ tip = NoTip

-----------------------------------------------------------------------------
(* The Store changes: messages, answers, reloads.                          *)

\* Mutant: the last notification before the frame decides how to render.
NotifyLatest(reason) ==
    /\ pendingReason' = IF reason = "structure" THEN "structure" ELSE "sample"
    /\ renderPending' = TRUE
    /\ UNCHANGED viewMode
Notify(reason) ==
    /\ pendingReason' = IF reason = "structure" THEN "structure" ELSE pendingReason
    /\ renderPending' = TRUE
    /\ UNCHANGED viewMode

SetHosts(list) ==
    /\ place' = list
    /\ up' = {h \in up : list[h] # Nowhere}
    /\ Notify("structure") /\ UNCHANGED <<settings, domVars>>

UpsertHost(h, g) ==
    /\ place' = [place EXCEPT ![h] = g]
    /\ Notify("structure") /\ UNCHANGED <<settings, up, domVars>>

DeleteHost(h) ==
    /\ place' = [place EXCEPT ![h] = Nowhere] /\ up' = up \ {h}
    /\ Notify("structure") /\ UNCHANGED <<settings, domVars>>

SetGroups(list) ==
    /\ settings' = list
    /\ Notify("structure") /\ UNCHANGED <<place, up, domVars>>

UpsertGroup(g, record) ==
    /\ settings' = [settings EXCEPT ![g] = record]
    /\ Notify(IF record # settings[g] THEN "structure" ELSE "group")
    /\ UNCHANGED <<place, up>>

DeleteGroup(g) ==
    /\ settings' = [settings EXCEPT ![g] = DefaultSettings]
    /\ place' = [h \in RHosts |-> IF place[h] = g THEN Nowhere ELSE place[h]]
    /\ up' = up \ Members(g)
    /\ Notify("structure") /\ UNCHANGED domVars

AddSample(h, online) ==
    /\ up' = IF online THEN up \cup {h} ELSE up \ {h}
    /\ Notify("sample") /\ UNCHANGED <<place, settings, domVars>>

StoreChanges ==
    \/ \E list \in [RHosts -> RGroups \cup {Nowhere}] : SetHosts(list)
    \/ \E list \in [RGroups -> RSettings] : SetGroups(list)
    \/ \E h \in RHosts : \/ DeleteHost(h)
                         \/ \E g \in RGroups : UpsertHost(h, g)
                         \/ \E online \in BOOLEAN : AddSample(h, online)
    \/ \E g \in RGroups : \/ DeleteGroup(g)
                          \/ \E r \in RSettings : UpsertGroup(g, r) /\ UNCHANGED domVars

-----------------------------------------------------------------------------
(* The browser.                                                            *)

AnimationFrame ==
    /\ renderPending
    /\ renderPending' = FALSE /\ pendingReason' = "sample"
    /\ IF pendingReason = "structure" THEN Rebuild(viewMode) ELSE RenderLive
    /\ UNCHANGED <<viewMode, storeVars>>

\* Renders at once, and leaves a render that is due where it is.
SetView(mode) ==
    /\ viewMode' = mode /\ Rebuild(mode)
    /\ UNCHANGED <<renderPending, pendingReason, storeVars>>

Standing == {s.name : s \in dom.sections}

\* Bound: one toggle under way.
ContextMenu(g) ==
    /\ g \in Standing /\ toggles = {}
    /\ marked' = marked \cup {g}
    /\ toggles' = toggles \cup {[name |-> g, fresh |-> TRUE]}
    /\ UNCHANGED <<dom, tip, frameVars, storeVars>>

ToggleAnswered(t, record) ==
    /\ UpsertGroup(t.name, record)
    /\ toggles' = toggles \ {t} /\ UNCHANGED <<dom, marked, tip>>

ToggleFails(t) ==
    /\ toggles' = toggles \ {t}
    /\ marked' = IF t.fresh THEN marked \ {t.name} ELSE marked
    /\ UNCHANGED <<dom, tip, frameVars, storeVars>>

PointerEnters(g) ==
    /\ g \in Standing /\ tip' = [state |-> "due", of |-> g]
    /\ UNCHANGED <<dom, marked, toggles, frameVars, storeVars>>

\* A section that was removed under the pointer sends no event.
PointerLeaves ==
    /\ tip.state # "none" /\ tip.of \in Standing /\ tip' = NoTip
    /\ UNCHANGED <<dom, marked, toggles, frameVars, storeVars>>

TooltipTimer ==
    /\ tip.state = "due" /\ tip' = [tip EXCEPT !.state = "shown"]
    /\ UNCHANGED <<dom, marked, toggles, frameVars, storeVars>>

RenderingNext ==
    \/ StoreChanges \/ AnimationFrame \/ PointerLeaves \/ TooltipTimer
    \/ \E mode \in {"groups", "ip"} : SetView(mode)
    \/ \E g \in RGroups : ContextMenu(g) \/ PointerEnters(g)
    \/ \E t \in toggles : \/ ToggleFails(t)
                          \/ \E r \in RSettings : ToggleAnswered(t, r)

-----------------------------------------------------------------------------
\* The parts of a picture that only a rebuild can change.
Skeleton(d) ==
    [mode |-> d.mode, sections |-> {s.name : s \in d.sections},
     cards |-> {<<c.host, c.within>> : c \in d.cards}]

\* Once no render is due the page is the picture of the Store in the view
\* chosen, whatever changed in between and in whatever order; while only a live
\* render is due its sections and cards are the right ones already.  The mark
\* of a toggle stays only while the toggle or a render is under way, and on a
\* page of groups the tooltip belongs to a section that stands.
PictureInPlace ==
    /\ ~renderPending => dom = Picture(viewMode)
    /\ pendingReason = "sample" => Skeleton(dom) = Skeleton(Picture(viewMode))
    /\ \A g \in marked : renderPending \/ \E t \in toggles : t.name = g
    /\ dom.mode = "groups" /\ tip.state # "none" => tip.of \in Standing
=============================================================================
