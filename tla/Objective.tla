------------------------------ MODULE Objective ------------------------------
(***************************************************************************)
(* What a run of the autonomy kernel promises, without its plan, tasks,    *)
(* application and counters: the workspace changes, verifications observe  *)
(* it, and the run ends with success only on a verification that no change *)
(* but the verification's own has followed, or gives up.                   *)
(***************************************************************************)
CONSTANTS Success, Failure, Open    \* how a run ends; Open: it has not

VARIABLES
    proven,       \* the last verification passed and nothing else changed since
    reason        \* how the run ended

objectiveVars == <<proven, reason>>

Init == proven = FALSE /\ reason = Open

(* The host observes the workspace, or a change undoes what it observed.   *)
Verify   == reason = Open /\ proven' \in BOOLEAN /\ reason' = reason

Succeed  == reason = Open /\ proven /\ reason' = Success /\ UNCHANGED proven

GiveUp   == reason = Open /\ reason' = Failure /\ proven' = FALSE

Next == Verify \/ Succeed \/ GiveUp

(* A run ends, whatever its models answer.                                 *)
Spec == Init /\ [][Next]_objectiveVars /\ <>(reason # Open)
=============================================================================
