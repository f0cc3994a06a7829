--------------------------- MODULE DeviceDelivery ---------------------------
(***************************************************************************)
(* How a device that polls gets its configurations when several rollouts   *)
(* run at once: PullPendingConfiguration lists the running rollouts, looks *)
(* into them one by one, and hands out the first target that waits.        *)
(*                                                                         *)
(* What else happens to a rollout and its targets is one step here each;   *)
(* the statements it consists of are those of RolloutControl.              *)
(***************************************************************************)
EXTENDS Integers, FiniteSets

CONSTANTS
    Devices,
    RolloutCount, \* rollouts, numbered in the order they were created in
    Targets,      \* pairs <<r, d>> such that d is a target of r
    Polling,      \* devices that poll and answer what they get
    ListCap       \* rollouts that a pull lists

Rollouts == 1..RolloutCount

ASSUME DeliveryAssumption ==
    /\ RolloutCount \in Nat
    /\ Targets \subseteq Rollouts \X Devices
    /\ Polling \subseteq Devices
    /\ ListCap \in Nat \ {0}

RolloutStatus == {"draft", "running", "paused", "completed", "cancelled", "rolling_back"}

\* "processed" is succeeded or failed.
TargetStatus == {"pending", "ready", "delivered", "processed", "rollback_pending"}

Waiting == {"ready", "rollback_pending"}

NotPulling == [pc |-> "idle", todo |-> {}]

VARIABLES
    rollout, \* status of each rollout
    target,  \* status of each target
    pull     \* the pull of each device: the rollouts it has still to look into

vars == <<rollout, target, pull>>

TypeOK ==
    /\ rollout \in [Rollouts -> RolloutStatus]
    /\ target \in [Targets -> TargetStatus]
    /\ pull \in [Polling -> [pc : {"idle", "look", "deliver"}, todo : SUBSET Rollouts]]

Init ==
    /\ rollout = [r \in Rollouts |-> "draft"]
    /\ target = [t \in Targets |-> "pending"]
    /\ pull = [d \in Polling |-> NotPulling]

TargetsOf(r) == {t \in Targets : t[1] = r}

-----------------------------------------------------------------------------
(* A pull.                                                                 *)

Running == {r \in Rollouts : rollout[r] = "running"}

\* ORDER BY created_at DESC LIMIT 200.
Page(S) == {r \in S : Cardinality({s \in S : s > r}) < ListCap}

Newest(r, S) == r \in S /\ \A s \in S : s <= r

\* ListRollouts with status running.  The statuses are not looked at again.
List(d) ==
    /\ pull[d].pc = "idle"
    /\ pull' = [pull EXCEPT ![d] = [pc |-> "look", todo |-> Page(Running)]]
    /\ UNCHANGED <<rollout, target>>

Answer(d) == pull' = [pull EXCEPT ![d] = NotPulling]

\* Slip: the pull is answered with nothing when the first target does not wait.
LookOnce(d, r) ==
    /\ pull[d].pc = "look"
    /\ Newest(r, pull[d].todo)
    /\ IF <<r, d>> \in Targets /\ target[<<r, d>>] \in Waiting
       THEN pull' = [pull EXCEPT ![d].pc = "deliver"]
       ELSE Answer(d)
    /\ UNCHANGED <<rollout, target>>

\* GetTarget.  When there is none it returns the repository's ErrNotFound, which
\* is not the ErrNotFound that the service compares it with: the pull fails.
Look(d, r) ==
    /\ pull[d].pc = "look"
    /\ Newest(r, pull[d].todo)
    /\ \/ /\ <<r, d>> \notin Targets
          /\ Answer(d)
       \/ /\ <<r, d>> \in Targets
          /\ target[<<r, d>>] \in Waiting
          /\ pull' = [pull EXCEPT ![d].pc = "deliver"]
       \/ /\ <<r, d>> \in Targets
          /\ target[<<r, d>>] \notin Waiting
          /\ pull' = [pull EXCEPT ![d].todo = @ \ {r}]
    /\ UNCHANGED <<rollout, target>>

NothingPending(d) ==
    /\ pull[d].pc = "look"
    /\ pull[d].todo = {}
    /\ Answer(d)
    /\ UNCHANGED <<rollout, target>>

\* GetConfiguration and UpdateTarget.
Deliver(d) ==
    /\ pull[d].pc = "deliver"
    /\ \E r \in Rollouts :
          /\ Newest(r, pull[d].todo)
          /\ target' = [target EXCEPT ![<<r, d>>] = "delivered"]
    /\ Answer(d)
    /\ UNCHANGED rollout

\* A statement fails, the request is cancelled, or the process dies.
Abort(d) ==
    /\ pull[d].pc # "idle"
    /\ Answer(d)
    /\ UNCHANGED <<rollout, target>>

-----------------------------------------------------------------------------
(* What the device, the operators and the scheduler do meanwhile.          *)

Submit(d) ==
    /\ \E r \in Rollouts :
          /\ <<r, d>> \in Targets
          /\ target[<<r, d>>] = "delivered"
          /\ target' = [target EXCEPT ![<<r, d>>] = "processed"]
    /\ UNCHANGED <<rollout, pull>>

Start(r) ==
    /\ rollout[r] \in {"draft", "paused"}
    /\ rollout' = [rollout EXCEPT ![r] = "running"]
    /\ UNCHANGED <<target, pull>>

Stop(r) ==
    /\ \/ rollout[r] = "running" /\ rollout' = [rollout EXCEPT ![r] = "paused"]
       \/ /\ rollout[r] \in {"draft", "running", "paused", "rolling_back"}
          /\ rollout' = [rollout EXCEPT ![r] = "cancelled"]
    /\ UNCHANGED <<target, pull>>

\* The batch of t is opened.
Activate(t) ==
    /\ rollout[t[1]] = "running"
    /\ target[t] = "pending"
    /\ target' = [target EXCEPT ![t] = "ready"]
    /\ UNCHANGED <<rollout, pull>>

Complete(r) ==
    /\ rollout[r] = "running"
    /\ \A t \in TargetsOf(r) : target[t] = "processed"
    /\ rollout' = [rollout EXCEPT ![r] = "completed"]
    /\ UNCHANGED <<target, pull>>

Rollback(r) ==
    /\ rollout[r] \in {"paused", "completed"}
    /\ rollout' = [rollout EXCEPT ![r] = "rolling_back"]
    /\ target' = [t \in Targets |-> IF t[1] = r /\ target[t] = "processed"
                                    THEN "rollback_pending" ELSE target[t]]
    /\ UNCHANGED pull

-----------------------------------------------------------------------------

Continue(d) == (\E r \in Rollouts : Look(d, r)) \/ NothingPending(d) \/ Deliver(d)

Next ==
    \/ \E d \in Polling : List(d) \/ Continue(d) \/ Abort(d) \/ Submit(d)
    \/ \E r \in Rollouts : Start(r) \/ Stop(r) \/ Complete(r) \/ Rollback(r)
    \/ \E t \in Targets : Activate(t)

Spec == Init /\ [][Next]_vars

\* Devices poll and answer for ever, and no statement of theirs fails each time
\* it is issued.  Nothing is assumed of operators, the scheduler or batches.
Fairness ==
    \A d \in Polling :
        /\ WF_vars(List(d))
        /\ \A r \in Rollouts : SF_vars(Look(d, r))
        /\ SF_vars(NothingPending(d))
        /\ SF_vars(Deliver(d))
        /\ WF_vars(Submit(d))

FairSpec == Spec /\ Fairness

-----------------------------------------------------------------------------
(* Liveness, under FairSpec.                                               *)

\* A polling device whose target waits is handed it while the rollout runs, also
\* when newer rollouts that have nothing for it run on, and pulls fail.
Served ==
    \A t \in Targets :
        t[2] \in Polling /\ target[t] \in Waiting /\ rollout[t[1]] = "running"
            ~> target[t] \notin Waiting \/ rollout[t[1]] # "running"
=============================================================================
