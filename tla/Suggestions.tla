----------------------------- MODULE Suggestions -----------------------------
(***************************************************************************)
(* The inbox of suggested groups (suggestions.js, app.js:72-87).  The      *)
(* bootstrap fetches it once and connects afterwards; then changes are     *)
(* announced by messages, gathered by a timer, and fetched; answers are    *)
(* shown in the order in which they come.                                  *)
(***************************************************************************)
EXTENDS Naturals, FiniteSets

CONSTANTS MaxVersions, MaxFetches   \* bounds: changes, requests under way

ASSUME SuggestionConstants == MaxVersions \in Nat \ {0} /\ MaxFetches \in Nat \ {0}

VARIABLES
    truth,      \* what the suggestions are on the server, by its changes
    news,       \* messages on their way
    link,       \* "boot", the bootstrap fetches; "opening", not connected yet;
                \* "open"; "deaf", open but dropped by the hub; "lost"
    timer,      \* suggestionsTimer is set
    fetches,    \* GETs under way: [id, served, at]
    acting,     \* "no", or a choice of the user is under way: "asked", and
                \* "accepted" or "dismissed" when the server has made it
    items,      \* the suggestions shown, 0 before the first answer
    newest,     \* history: the newest suggestions ever shown
    missed,     \* history: a fetch failed, or the bootstrap broke off before
                \* its own, and none was made since
    unheard     \* history: a change was made that nothing tells this page of,
                \* and no fetch was served since

inboxVars == <<truth, news, link, timer, fetches, acting, items, newest, missed, unheard>>

connected == link \in {"open", "deaf"}

SuggestionsTypeOK ==
    /\ {truth, news, items, newest} \subseteq 0..MaxVersions
    /\ {timer, missed, unheard} \subseteq BOOLEAN
    /\ link \in {"boot", "opening", "open", "deaf", "lost"}
    /\ acting \in {"no", "asked", "accepted", "dismissed"}
    /\ fetches \subseteq [id : 1..MaxFetches, served : BOOLEAN, at : 0..MaxVersions]

\* The bootstrap has come to its fetch, or has thrown before.
SuggestionsInit ==
    /\ truth = 1 /\ news = 0 /\ timer = FALSE /\ acting = "no"
    /\ items = 0 /\ newest = 0 /\ unheard = FALSE
    /\ \/ link = "boot" /\ fetches = {[id |-> 1, served |-> FALSE, at |-> 0]} /\ missed = FALSE
       \/ link = "opening" /\ fetches = {} /\ missed = TRUE

-----------------------------------------------------------------------------
Refresh ==
    \E id \in 1..MaxFetches :
        /\ \A f \in fetches : f.id # id
        /\ fetches' = fetches \cup {[id |-> id, served |-> FALSE, at |-> 0]}
        /\ missed' = FALSE

Changes == truth < MaxVersions /\ truth' = truth + 1

\* A host, a group or its ranges change, and all browsers in the hub are told.
\* One that has not joined yet, or was dropped, is not; one whose connection is
\* lost will fetch when it has another.
Announced ==
    /\ Changes
    /\ news' = IF link = "open" THEN news + 1 ELSE news
    /\ unheard' = (unheard \/ link \in {"boot", "opening", "deaf"})

OthersChange ==
    Announced /\ UNCHANGED <<link, timer, fetches, acting, items, newest, missed>>

\* Another browser dismisses a suggestion, or a request, one of this page's
\* included, fails between its change and the announcement.  Nobody is told.
ChangesSilently ==
    /\ Changes /\ unheard' = TRUE
    /\ UNCHANGED <<news, link, timer, fetches, acting, items, newest, missed>>

ScheduleSuggestionsRefresh ==
    /\ news > 0 /\ news' = news - 1 /\ timer' = TRUE
    /\ UNCHANGED <<truth, link, fetches, acting, items, newest, missed, unheard>>

TimerFires ==
    /\ timer /\ timer' = FALSE /\ Refresh
    /\ UNCHANGED <<truth, news, link, acting, items, newest, unheard>>

\* The first of the three reads that the answer is computed from: it has what
\* was committed before, and may have some of what is committed until the last.
Served(f) ==
    /\ ~f.served
    /\ fetches' = (fetches \ {f}) \cup {[f EXCEPT !.served = TRUE, !.at = truth]}
    /\ unheard' = FALSE
    /\ UNCHANGED <<truth, news, link, timer, acting, items, newest, missed>>

\* With the answer of its fetch, or the failure, the bootstrap goes on.
BootstrapGoesOn == link' = IF link = "boot" THEN "opening" ELSE link

Shown(f) ==
    /\ f.served /\ fetches' = fetches \ {f} /\ items' = f.at
    /\ newest' = IF f.at > newest THEN f.at ELSE newest
    /\ BootstrapGoesOn
    /\ UNCHANGED <<truth, news, timer, acting, missed, unheard>>

FetchFails(f) ==
    /\ fetches' = fetches \ {f} /\ missed' = TRUE
    /\ BootstrapGoesOn
    /\ UNCHANGED <<truth, news, timer, acting, items, newest, unheard>>

\* Bound: one choice of the user at a time.
Act ==
    /\ items > 0 /\ acting = "no" /\ acting' = "asked"
    /\ UNCHANGED <<truth, news, link, timer, fetches, items, newest, missed, unheard>>

\* Accepting is announced, dismissing is not.
AcceptDone ==
    /\ acting = "asked" /\ acting' = "accepted" /\ Announced
    /\ UNCHANGED <<link, timer, fetches, items, newest, missed>>

DismissDone ==
    /\ acting = "asked" /\ acting' = "dismissed" /\ Changes
    /\ UNCHANGED <<news, link, timer, fetches, items, newest, missed, unheard>>

ActAnswered ==
    /\ acting \in {"accepted", "dismissed"} /\ acting' = "no" /\ Refresh
    /\ UNCHANGED <<truth, news, link, timer, items, newest, unheard>>

\* Refused, or the answer is lost; nothing is fetched.
ActFails ==
    /\ acting # "no" /\ acting' = "no"
    /\ unheard' = (unheard \/ acting = "dismissed")
    /\ UNCHANGED <<truth, news, link, timer, fetches, items, newest, missed>>

\* The first connection; the bootstrap has loaded everything, it is assumed.
Connect ==
    /\ link = "opening" /\ link' = "open"
    /\ UNCHANGED <<truth, news, timer, fetches, acting, items, newest, missed, unheard>>

\* A send took too long.  The browser hears nothing of it.
HubDrops ==
    /\ link = "open" /\ link' = "deaf"
    /\ UNCHANGED <<truth, news, timer, fetches, acting, items, newest, missed, unheard>>

Disconnect ==
    /\ connected /\ link' = "lost" /\ news' = 0
    /\ UNCHANGED <<truth, timer, fetches, acting, items, newest, missed, unheard>>

\* Mutant: what was announced while disconnected is not fetched.
ReconnectUnrefreshed ==
    /\ link = "lost" /\ link' = "open"
    /\ UNCHANGED <<truth, news, timer, fetches, acting, items, newest, missed, unheard>>

Reconnect ==
    /\ link = "lost" /\ link' = "open" /\ Refresh
    /\ UNCHANGED <<truth, news, timer, acting, items, newest, unheard>>

SuggestionsNext ==
    \/ OthersChange \/ ChangesSilently \/ ScheduleSuggestionsRefresh \/ TimerFires
    \/ Act \/ AcceptDone \/ DismissDone \/ ActAnswered \/ ActFails
    \/ Connect \/ HubDrops \/ Disconnect \/ Reconnect
    \/ \E f \in fetches : Served(f) \/ Shown(f) \/ FetchFails(f)

-----------------------------------------------------------------------------
\* Connected and with nothing under way, the inbox shows the suggestions there
\* are, or older ones than it has shown before: a burst of messages, a change
\* while the page fetches, a lost connection or a choice of the user leaves
\* none out.  What may is an answer that overtook a newer one, a fetch that
\* failed or was never made, and a change that nothing tells the page of: one
\* between the fetch of the bootstrap and the first connection, a dismissal in
\* another browser or whose answer was lost, one whose request failed before it
\* told anybody, and any while the hub has dropped the connection; even those
\* are shown with the next fetch.
InboxCurrent ==
    connected /\ news = 0 /\ ~timer /\ fetches = {} /\ acting = "no" /\ ~missed /\ ~unheard =>
        items = truth \/ items < newest
=============================================================================
