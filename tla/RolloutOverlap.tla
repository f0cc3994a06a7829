--------------------------- MODULE RolloutOverlap ---------------------------
(***************************************************************************)
(* RolloutControl with a record of what overlapping handlers have missed.  *)
(*                                                                         *)
(* The service neither locks a rollout nor checks a version when it saves  *)
(* one, so that a handler may save what another has outdated.  The history *)
(* variables name the handlers that are in that position.  They restrict   *)
(* no step: for each step of RolloutControl there is exactly one here.     *)
(* What is stated below holds of every interleaving; it says of what the   *)
(* overlaps can spoil that nothing else does.                              *)
(***************************************************************************)
EXTENDS RolloutControl

VARIABLES
    outdated,  \* workers whose copy of the row has been overtaken
    missed,    \* the devices whose outcome was stored since a worker looked
    blind      \* workers that decided although a count or the rule failed

history == <<outdated, missed, blind>>

overlapVars == <<vars, history>>

\* Where a handler holds a copy of the rollout's row in order to save it.
HoldsRow == {"list", "write", "countBatch", "countAll"}

\* Where a handler has decided what to save.
Decided == {"list", "write"}

\* The rollout is given another status or batch.  Counts that are saved alone
\* overtake nobody.
Moved == rollout'.status # rollout.status \/ rollout'.batch # rollout.batch

\* The devices whose outcome is written to their target.
Acknowledged == {d \in Devices : target'[d] # target[d] /\ target'[d].status \in Outcomes}

\* A rollback looks at the targets when it lists them; a reconciliation does so
\* when it counts all of them, which is where it comes to its decision.
LooksAgain(w) ==
    \/ job'[w].pc \notin Decided
    \/ job[w].pc = "list" /\ job'[w].pc = "write" /\ job'[w].row.status = "rolling_back"

DecidesBlindly(w) ==
    job[w].pc = "countAll" /\ job'[w].pc \in Decided /\ ~CountAll(w)

Record ==
    /\ outdated' = {w \in Workers : job'[w].pc \in HoldsRow /\ (w \in outdated \/ Moved)}
    /\ missed' = [w \in Workers |-> IF LooksAgain(w) THEN {} ELSE missed[w] \cup Acknowledged]
    /\ blind' = {w \in Workers : job'[w].pc \in Decided /\ (w \in blind \/ DecidesBlindly(w))}

OverlapInit ==
    /\ Init
    /\ outdated = {}
    /\ missed = [w \in Workers |-> {}]
    /\ blind = {}

OverlapSpec == OverlapInit /\ [][Next /\ Record]_overlapVars

-----------------------------------------------------------------------------
(* What a step never does, however handlers interleave and fail.           *)

\* A row is saved over what another handler has made of it since it was read.
Overwrite == \E w \in outdated : SaveRollout(w)

\* Nothing about a cancelled or rolled back rollout changes any more, but for a
\* row that is saved by a handler which read it before: no call is accepted
\* and no reconciliation, receipt or scheduler goes on from there.
TerminalUnlessOverwritten ==
    [][rollout.status \in {"cancelled", "rolled_back"} /\ rollout' # rollout
           => Overwrite]_overlapVars

\* The stored status changes as the domain's table says, but for such a save
\* and two moves that the table lacks: CancelRollout takes a rollout out of
\* rolling_back, and so does the automatic pause of ReconcileRollout.
TransitionsUnlessOverwritten ==
    [][\/ rollout'.status = rollout.status
       \/ Lifecycle!CanTransition(rollout.status, rollout'.status)
       \/ rollout.status = "rolling_back" /\ rollout'.status \in {"paused", "cancelled"}
       \/ Overwrite]_overlapVars

\* Every step is one of the staged rollout that BatchGate promises, or none of
\* it: batches open in order, each when everybody in the open ones has
\* reported, across pauses, rollbacks, repeated receipts, overlaps and handlers
\* that die between activating a batch and saving the row.  A save of an
\* overtaken row may take batches back or forth and a completion away, and
\* even then to nothing that the devices have not reported.
GateUnlessOverwritten ==
    /\ Gate!Init
    /\ [][\/ Gate!Next
          \/ UNCHANGED Gate!vars
          \/ Overwrite /\ Gate!Replace]_overlapVars

\* When a rollback is saved by a handler whose copy is up to date, every target
\* on the page that it listed has been reset to be sent the rollback
\* configuration, unless its outcome was stored after the list was read.
RollbackResets ==
    [][\A w \in Workers \ outdated :
          /\ SaveRollout(w)
          /\ rollout.status # "rolling_back" /\ rollout'.status = "rolling_back"
          => \A d \in Page(Devices) \ missed[w] : target[d].status \notin Outcomes]_overlapVars

\* The rollout goes on from r to row: a further batch, or the end.
Progress(r, row) ==
    \/ row.batch > r.batch /\ r.batch > 0
    \/ r.status # "completed" /\ row.status = "completed"

\* No further batch is opened and no rollout completed with the failures at the
\* rule's rate, leaving out those stored after they were counted, by a handler
\* whose copy is up to date and which could count all targets and read the rule.
RuleHeeded ==
    [][\A w \in Workers \ (outdated \cup blind) :
          SaveRollout(w) /\ Progress(rollout, rollout')
              => ~Reaches(HowMany(Devices \ missed[w], "failed"), MaxFailurePercent)]_overlapVars
=============================================================================
