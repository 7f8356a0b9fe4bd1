------------------------------ MODULE DrillDown ------------------------------
(***************************************************************************)
(* The full-screen view of one host (drilldown.js): opened from a card or  *)
(* from the address bar, it follows the Store by a subscription of its     *)
(* own, and closes when its host is gone.                                  *)
(***************************************************************************)
EXTENDS Naturals

CONSTANTS DHosts, NoHost

ASSUME DrillConstants == NoHost \notin DHosts

VARIABLES
    stored,     \* Store.hosts
    latest,     \* Store.samples, by two marks that alternate
    shownHost,  \* currentHostId
    visible,    \* panel.style.display
    listeners,  \* the hosts captured by the subscriptions in Store.listeners
    chart,      \* whose samples refreshChart drew last, and which
    hash        \* location.hash: #host-<id>, or none

drillVars == <<stored, latest, shownHost, visible, listeners, chart, hash>>

Marks == {0, 1}
NoChart == [of |-> NoHost, mark |-> 0]

DrillTypeOK ==
    /\ stored \subseteq DHosts /\ latest \in [DHosts -> Marks]
    /\ {shownHost, hash} \subseteq DHosts \cup {NoHost} /\ visible \in BOOLEAN
    /\ listeners \subseteq DHosts
    /\ chart \in [of : DHosts \cup {NoHost}, mark : Marks]

DrillInit ==
    /\ stored = DHosts /\ latest = [h \in DHosts |-> 0]
    /\ shownHost = NoHost /\ visible = FALSE /\ listeners = {}
    /\ chart = NoChart /\ hash = NoHost

-----------------------------------------------------------------------------
\* Mutant: the subscription of the host shown before is not ended.
OpenDrillOver(h) ==
    IF h \in stored
    THEN /\ shownHost' = h /\ visible' = TRUE
         /\ listeners' = listeners \cup {h}
         /\ chart' = [of |-> h, mark |-> latest[h]]
    ELSE UNCHANGED <<shownHost, visible, listeners, chart>>
\* open: an unknown host leaves everything as it is.
OpenDrill(h) ==
    IF h \in stored
    THEN /\ shownHost' = h /\ visible' = TRUE
         /\ listeners' = (listeners \ {shownHost}) \cup {h}
         /\ chart' = [of |-> h, mark |-> latest[h]]
    ELSE UNCHANGED <<shownHost, visible, listeners, chart>>

CloseDrill ==
    /\ shownHost' = NoHost /\ visible' = FALSE
    /\ listeners' = listeners \ {shownHost}
    /\ hash' = NoHost /\ UNCHANGED chart

\* What the subscriptions do when the Store notifies of its new state.
Follow ==
    IF shownHost \notin listeners THEN UNCHANGED <<shownHost, visible, listeners, chart, hash>>
    ELSE IF shownHost \notin stored' THEN CloseDrill
    ELSE /\ chart' = [of |-> shownHost, mark |-> latest'[shownHost]]
         /\ UNCHANGED <<shownHost, visible, listeners, hash>>

-----------------------------------------------------------------------------
\* A card stands until the next frame: its host may be gone.  The click is
\* kept from following the link.
OpenCard(h) == OpenDrill(h) /\ UNCHANGED <<stored, latest, hash>>

HashChange(h) ==
    /\ hash' = h
    /\ IF h = NoHost THEN UNCHANGED <<shownHost, visible, listeners, chart>> ELSE OpenDrill(h)
    /\ UNCHANGED <<stored, latest>>

\* The arrow, and Escape.
CloseButton == visible /\ CloseDrill /\ UNCHANGED <<stored, latest>>

StoreSample(h) ==
    /\ latest' = [latest EXCEPT ![h] = 1 - @] /\ UNCHANGED stored /\ Follow

\* setHosts, deleteHost, deleteGroup, upsertHost.
StoreHosts(present) == stored' = present /\ UNCHANGED latest /\ Follow

DrillNext ==
    \/ CloseButton
    \/ \E h \in DHosts : OpenCard(h) \/ StoreSample(h)
    \/ \E h \in DHosts \cup {NoHost} : HashChange(h)
    \/ \E present \in SUBSET DHosts : StoreHosts(present)

-----------------------------------------------------------------------------
\* The panel is there for one host that the Store has, with the samples the
\* Store has of it, through one subscription; and a closed panel leaves no
\* subscription behind: one host after the other may be opened without closing,
\* opened when it is gone, deleted while it is shown, and come back.
DrillFollowsHost ==
    IF visible
    THEN /\ shownHost \in stored /\ listeners = {shownHost}
         /\ chart = [of |-> shownHost, mark |-> latest[shownHost]]
    ELSE shownHost = NoHost /\ listeners = {}
=============================================================================
