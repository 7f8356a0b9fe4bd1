----------------------------- MODULE HostStatus -----------------------------
(***************************************************************************)
(* What the tile of a host promises: the status follows from the samples   *)
(* the browser was sent, however few of them it keeps.                     *)
(***************************************************************************)
EXTENDS Naturals

CONSTANT Threshold  \* OFFLINE_FAIL_STREAK

VARIABLES
    streak,  \* failures since the last success, at most Threshold
    status   \* "idle", "online", "slow" or "offline"

Init == streak = 0 /\ status = "idle"

Success == streak' = 0 /\ status' \in {"online", "slow"}

\* A lost packet below the threshold keeps the status.
Failure ==
    /\ streak' = IF streak = Threshold THEN streak ELSE streak + 1
    /\ status' = IF streak' = Threshold THEN "offline" ELSE status

\* The page is loaded again, or the host leaves the list.
Forget == streak' = 0 /\ status' = "idle"

Next == Success \/ Failure \/ Forget

Spec == Init /\ [][Next]_<<streak, status>>
=============================================================================
