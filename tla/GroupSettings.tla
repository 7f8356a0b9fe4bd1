---------------------------- MODULE GroupSettings ----------------------------
(***************************************************************************)
(* The settings dialog of a group (group-settings.js).  open() writes the  *)
(* title at once, waits for the list of CIDR ranges, and shows the dialog  *)
(* when the answer comes, whatever happened meanwhile; every change goes   *)
(* to currentName as it is at that moment.                                 *)
(***************************************************************************)
EXTENDS Naturals, FiniteSets

CONSTANTS
    SGroups, NoGroup,
    MaxLists,       \* bound: lists of ranges under way
    MaxRanges       \* bound: changes of ranges under way

ASSUME GroupSettingsConstants == 
    NoGroup \notin SGroups /\ MaxLists \in Nat /\ MaxRanges \in Nat

VARIABLES
    currentName, title,
    shown,      \* modal.style.display
    listed,     \* the group whose ranges fill the list
    lists,      \* lists asked for and not answered: [id, of, opens]
    adding,     \* ranges being added or deleted: [id, of]
    crossed,    \* history: opened or closed while an answer was outstanding,
                \* or one failed, since the dialog was last closed with none
    written     \* history: the group the last change went to, and the title
                \* it was made under

settingsVars == <<currentName, title, shown, listed, lists, adding, crossed, written>>

SNames == SGroups \cup {NoGroup}

GroupSettingsTypeOK ==
    /\ {currentName, title, listed} \subseteq SNames /\ {shown, crossed} \subseteq BOOLEAN
    /\ lists \subseteq [id : 1..MaxLists, of : SNames, opens : BOOLEAN]
    /\ adding \subseteq [id : 1..MaxRanges, of : SNames] /\ written \in [group : SNames, title : SNames]

GroupSettingsInit ==
    /\ currentName = NoGroup /\ title = NoGroup /\ shown = FALSE
    /\ listed = NoGroup /\ lists = {} /\ adding = {} /\ crossed = FALSE
    /\ written = [group |-> NoGroup, title |-> NoGroup]

-----------------------------------------------------------------------------
Outstanding == lists # {} \/ adding # {}

\* refreshCidrs, for the name as it is when it is called.
RefreshCidrs(pending, name, opens) ==
    \E id \in 1..MaxLists :
        /\ \A l \in pending : l.id # id
        /\ lists' = pending \cup {[id |-> id, of |-> name, opens |-> opens]}

\* Mutant: the title is written only when the dialog is not there yet.
OpenSettingsUntitled(g) ==
    /\ currentName' = g /\ title' = IF shown THEN title ELSE g
    /\ RefreshCidrs(lists, g, TRUE)
    /\ crossed' = (crossed \/ Outstanding)
    /\ UNCHANGED <<shown, listed, adding, written>>
OpenSettings(g) ==
    /\ currentName' = g /\ title' = g
    /\ RefreshCidrs(lists, g, TRUE)
    /\ crossed' = (crossed \/ Outstanding)
    /\ UNCHANGED <<shown, listed, adding, written>>

ListAnswered(l) ==
    /\ lists' = lists \ {l} /\ listed' = l.of
    /\ shown' = (shown \/ l.opens)
    /\ UNCHANGED <<currentName, title, adding, crossed, written>>

\* The dialog is shown all the same, with an error above the list it had.
ListFails(l) ==
    /\ lists' = lists \ {l}
    /\ shown' = (shown \/ l.opens) /\ crossed' = TRUE
    /\ UNCHANGED <<currentName, title, listed, adding, written>>

CloseSettings ==
    /\ shown /\ shown' = FALSE /\ currentName' = NoGroup
    /\ crossed' = Outstanding
    /\ UNCHANGED <<title, listed, lists, adding, written>>

\* "Enabled" and "Collapsed" are sent and nothing waits for the answer.
TickBox ==
    /\ shown /\ written' = [group |-> currentName, title |-> title]
    /\ UNCHANGED <<currentName, title, shown, listed, lists, adding, crossed>>

ChangeRange ==
    /\ shown /\ written' = [group |-> currentName, title |-> title]
    /\ \E id \in 1..MaxRanges :
           /\ \A a \in adding : a.id # id
           /\ adding' = adding \cup {[id |-> id, of |-> currentName]}
    /\ UNCHANGED <<currentName, title, shown, listed, lists, crossed>>

\* The list is asked for anew, of the group the dialog has by now.
RangeChanged(a) ==
    /\ adding' = adding \ {a} /\ RefreshCidrs(lists, currentName, FALSE)
    /\ UNCHANGED <<currentName, title, shown, listed, crossed, written>>

RangeRefused(a) ==
    /\ adding' = adding \ {a}
    /\ UNCHANGED <<currentName, title, shown, listed, lists, crossed, written>>

GroupSettingsNext ==
    \/ CloseSettings \/ TickBox \/ ChangeRange
    \/ \E g \in SGroups : OpenSettings(g)
    \/ \E a \in adding : RangeChanged(a) \/ RangeRefused(a)
    \/ \E l \in lists : ListAnswered(l) \/ ListFails(l)

-----------------------------------------------------------------------------
\* Unless the dialog was opened or closed while an answer was outstanding, or a
\* list failed, what the user changes goes to the group in the title, and once
\* its list has come the ranges are that group's.
SettingsOfTitle ==
    shown /\ ~crossed =>
        /\ currentName = title /\ title \in SGroups
        /\ listed = title \/ \E l \in lists : l.opens

\* In any case a change goes nowhere else than to the group in the title or,
\* after such a crossing, to no group at all ("null").
NeverAnotherGroup ==
    /\ written.group \in {written.title, NoGroup}
    /\ shown => currentName \in {title, NoGroup}
=============================================================================
