--------------------------- MODULE NetworkInterface ---------------------------
(***************************************************************************)
(* The choice of the network interface: the menu of the hero               *)
(* (network-interface.js), the request that stores the choice, resolves    *)
(* the binding and hands it to the scheduler (api.py:180-195), whose loops *)
(* read it at every ping, and the start of the server, which resolves the  *)
(* stored choice again (app.py:90-93).  Nobody is told of a choice but the *)
(* browser that made it.                                                   *)
(***************************************************************************)
EXTENDS Naturals, FiniteSets

CONSTANTS
    Interfaces, AutoInterface,
    NoLabel,        \* "interface unavailable"
    MaxChoices      \* bound: requests under way

ASSUME InterfaceConstants == AutoInterface \in Interfaces /\ MaxChoices \in Nat

VARIABLES
    setting,    \* the setting ping_interface in the database
    binding,    \* scheduler.ping_interface; AutoInterface binds to none
    choices,    \* requests under way: [id, name, at, mine], those of other
                \* browsers included
    label,      \* the interface selected on the page
    raced,      \* history: since the last request made alone, or the last
                \* start of the server, requests overlapped or broke off
    unshown     \* history: since the page was loaded, or made a request
                \* alone, another browser made one or a request broke off,
                \* that of the page as it was loaded included

interfaceVars == <<setting, binding, choices, label, raced, unshown>>

Stations == {"save", "bind", "answer"}

InterfaceTypeOK ==
    /\ {setting, binding} \subseteq Interfaces /\ label \in Interfaces \cup {NoLabel}
    /\ {raced, unshown} \subseteq BOOLEAN
    /\ choices \subseteq [id : 1..MaxChoices, name : Interfaces, at : Stations, mine : BOOLEAN]

InterfaceInit ==
    /\ setting = AutoInterface /\ binding = AutoInterface /\ label = AutoInterface
    /\ choices = {} /\ raced = FALSE /\ unshown = FALSE

-----------------------------------------------------------------------------
\* The menu stays open, and its options alive, until the answer; it has none if
\* the page could not load them.  The check that the interface exists is passed
\* at once.
Choose(n, mine) ==
    /\ mine => label # NoLabel
    /\ \E id \in 1..MaxChoices :
           /\ \A c \in choices : c.id # id
           /\ choices' = choices \cup {[id |-> id, name |-> n, at |-> "save", mine |-> mine]}
    /\ raced' = (choices # {})
    /\ unshown' = (choices # {} \/ ~mine)
    /\ UNCHANGED <<setting, binding, label>>

At(c, station, next) ==
    /\ c.at = station
    /\ choices' = (choices \ {c}) \cup {[c EXCEPT !.at = next]}
    /\ UNCHANGED <<label, raced, unshown>>

SetSetting(c) == At(c, "save", "bind") /\ setting' = c.name /\ UNCHANGED binding

SetPingInterface(c) == At(c, "bind", "answer") /\ binding' = c.name /\ UNCHANGED setting

\* Refused, a read raises, also that of the reconcile, or the answer is lost.
ChoiceFails(c) ==
    /\ choices' = choices \ {c} /\ raced' = TRUE /\ unshown' = TRUE
    /\ UNCHANGED <<setting, binding, label>>

Chosen(c) ==
    /\ c.at = "answer" /\ choices' = choices \ {c}
    /\ label' = IF c.mine THEN c.name ELSE label
    /\ UNCHANGED <<setting, binding, raced, unshown>>

\* The page is loaded anew; answers to its requests no longer reach it.
Reload ==
    /\ choices' = {[c EXCEPT !.mine = FALSE] : c \in choices}
    /\ UNCHANGED <<setting, binding, raced>>

RefreshNetworkInterface == Reload /\ label' = setting /\ unshown' = (choices # {})

\* Its request fails.
RefreshFails == Reload /\ label' = NoLabel /\ unshown' = TRUE

\* Mutant: the binding is not resolved when the server starts.
RestartUnbound ==
    /\ binding' = AutoInterface /\ choices' = {}
    /\ raced' = FALSE /\ unshown' = (unshown \/ choices # {})
    /\ UNCHANGED <<setting, label>>

\* The server stops at any moment and starts again.
Restart ==
    /\ binding' = setting /\ choices' = {}
    /\ raced' = FALSE /\ unshown' = (unshown \/ choices # {})
    /\ UNCHANGED <<setting, label>>

InterfaceNext ==
    \/ RefreshNetworkInterface \/ RefreshFails \/ Restart
    \/ \E n \in Interfaces, mine \in BOOLEAN : Choose(n, mine)
    \/ \E c \in choices : SetSetting(c) \/ SetPingInterface(c) \/ ChoiceFails(c) \/ Chosen(c)

-----------------------------------------------------------------------------
\* Once no request is under way, the choice stored is the one the scheduler
\* pings with, whenever the server was stopped in between; only requests that
\* overlapped, or one that broke off, can part them.  And it is the one shown,
\* unless another browser has chosen since, or a request broke off.
ChoiceHolds ==
    choices = {} =>
        /\ ~raced => binding = setting
        /\ ~unshown => label = setting
=============================================================================
