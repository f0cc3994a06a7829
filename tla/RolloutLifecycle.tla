-------------------------- MODULE RolloutLifecycle --------------------------
(***************************************************************************)
(* The statuses of a rollout and the changes of status that the domain     *)
(* package allows: the table allowedTransitions of state_machine.go, which *)
(* the service never consults.  It is the abstract specification of a      *)
(* rollout's status.                                                       *)
(***************************************************************************)

VARIABLE status

Statuses == {"draft", "scheduled", "running", "paused", "completed",
             "failed", "cancelled", "rolled_back", "rolling_back"}

allowedTransitions(from) ==
    CASE from = "draft"        -> {"scheduled", "running", "cancelled"}
      [] from = "scheduled"    -> {"running", "cancelled"}
      [] from = "running"      -> {"paused", "completed", "failed", "cancelled", "rolling_back"}
      [] from = "paused"       -> {"running", "cancelled", "rolling_back"}
      [] from = "completed"    -> {"rolling_back"}
      [] from = "failed"       -> {"rolling_back"}
      [] from = "rolling_back" -> {"rolled_back", "failed"}
      [] OTHER                 -> {}

CanTransition(from, to) == to \in allowedTransitions(from)

Init == status = "draft"

Next == \E to \in Statuses : CanTransition(status, to) /\ status' = to

Spec == Init /\ [][Next]_status
=============================================================================
