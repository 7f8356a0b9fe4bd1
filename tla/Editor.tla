-------------------------------- MODULE Editor --------------------------------
(***************************************************************************)
(* The dialog that adds or edits a host (editor.js).  Saving and deleting  *)
(* wait for the server with the dialog open and its buttons alive; the     *)
(* answer closes whichever dialog is open when it comes.                   *)
(***************************************************************************)
EXTENDS Naturals, FiniteSets

CONSTANTS EHosts, NewHost, MaxSends     \* bound: requests under way

ASSUME EditorConstants == NewHost \notin EHosts /\ MaxSends \in Nat

VARIABLES
    editing,    \* the host edited, or NewHost
    open,       \* modal.style.display
    form,       \* the host whose record was put into the fields
    sends       \* requests not answered: the host each is about, and the one
                \* that the fields were filled from

editorVars == <<editing, open, form, sends>>

Targets == EHosts \cup {NewHost}
Sends == [id : 1..MaxSends, target : Targets, from : Targets]

EditorTypeOK ==
    {editing, form} \subseteq Targets /\ open \in BOOLEAN /\ sends \subseteq Sends

EditorInit == editing = NewHost /\ open = FALSE /\ form = NewHost /\ sends = {}

-----------------------------------------------------------------------------
\* Mutant: openAdd relies on the last close() to have reset the host.
OpenEditorAsClosed(h) ==
    /\ editing' = IF h = NewHost THEN editing ELSE h
    /\ form' = h /\ open' = TRUE /\ UNCHANGED sends
\* openAdd, openEdit; a host that the Store no longer has opens "add".
OpenEditor(h) == editing' = h /\ form' = h /\ open' = TRUE /\ UNCHANGED sends

CloseEditor == open' = FALSE /\ editing' = NewHost /\ UNCHANGED form

Cancel == open /\ CloseEditor /\ UNCHANGED sends

\* Nothing keeps the buttons from being pressed again.
Send ==
    /\ open
    /\ \E s \in Sends : /\ s.target = editing /\ s.from = form
                        /\ \A other \in sends : other.id # s.id
                        /\ sends' = sends \cup {s}
    /\ UNCHANGED <<editing, open, form>>

Submit == Send
Delete == editing # NewHost /\ Send

Saved(s) == sends' = sends \ {s} /\ CloseEditor

\* The error is shown in the dialog as it is by now.
Refused(s) == sends' = sends \ {s} /\ UNCHANGED <<editing, open, form>>

EditorNext ==
    \/ Cancel \/ Submit \/ Delete
    \/ \E h \in Targets : OpenEditor(h)
    \/ \E s \in sends : Saved(s) \/ Refused(s)

-----------------------------------------------------------------------------
\* What is saved or deleted is the host that the fields were filled from, also
\* when the dialog is opened for another host, or is closed by the answer about
\* another, with requests under way.
SavesItsHost ==
    /\ \A s \in sends : s.target = s.from
    /\ open => editing = form
=============================================================================
