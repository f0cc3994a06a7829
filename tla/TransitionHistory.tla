------------------------- MODULE TransitionHistory -------------------------
(***************************************************************************)
(* A rollout whose status is changed by ApplyTransition, and the history   *)
(* its transitions are appended to (domain/rollout/state_machine.go).  The *)
(* caller gives the time, which need not go forward; 0 means now.          *)
(***************************************************************************)
EXTENDS Integers, Sequences, Folds

CONSTANTS MaxInstant, MaxTransitions   \* bounds of the model

VARIABLES
    entity,     \* the rollout's status, times (0: none) and pause reason
    history,    \* its transitions
    \* of no influence on them:
    latest,     \* the latest time any transition was given
    ordered     \* whether the times given have not gone back

transitions == <<entity, history, latest, ordered>>

Lifecycle == INSTANCE RolloutLifecycle WITH status <- entity.status
Statuses == Lifecycle!Statuses

HistoryInit ==
    /\ entity = [status |-> "draft", started |-> 0, completed |-> 0, reason |-> ""]
    /\ history = <<>>
    /\ latest = 0 /\ ordered = TRUE

Finished == {"completed", "cancelled", "rolled_back", "failed"}

ApplyTransition(r, to, reason, at) ==
    [status    |-> to,
     started   |-> IF to = "running" /\ r.started = 0 THEN at ELSE r.started,
     completed |-> IF to \in Finished THEN at ELSE r.completed,
     reason    |-> CASE to = "paused"  -> reason
                     [] to = "running" -> ""
                     [] OTHER          -> r.reason]

LastTransition == history[Len(history)]

\* Slip: only the order in time is looked at.
AcceptsLater(t) == history # <<>> => t.at >= LastTransition.at

Accepts(t) == history # <<>> => LastTransition.to = t.from /\ t.at >= LastTransition.at

\* ApplyTransition, and then Append, which may refuse what was applied.
Transition(to, reason, at) ==
    /\ Len(history) < MaxTransitions
    /\ Lifecycle!CanTransition(entity.status, to)
    /\ LET t == [from |-> entity.status, to |-> to, at |-> at]
       IN  history' = IF Accepts(t) THEN Append(history, t) ELSE history
    /\ entity' = ApplyTransition(entity, to, reason, at)
    /\ latest' = IF at > latest THEN at ELSE latest
    /\ ordered' = (ordered /\ at >= latest)

HistoryNext ==
    \E to \in Statuses, reason \in {"", "rule"}, at \in 1..MaxInstant : Transition(to, reason, at)

HistorySpec == HistoryInit /\ [][HistoryNext]_transitions

-----------------------------------------------------------------------------
Current == IF history = <<>> THEN "draft" ELSE LastTransition.to

Valid ==
    \A i \in 1..Len(history) :
        /\ history[i].to \in Lifecycle!allowedTransitions(history[i].from)
        /\ i > 1 => history[i - 1].to = history[i].from /\ history[i - 1].at <= history[i].at

Spent(i, until) ==
    LET end == IF i < Len(history) THEN history[i + 1].at ELSE until
    IN  IF end > history[i].at THEN end - history[i].at ELSE 0

TimeIn(status, until) ==
    MapThenFoldSet(+, 0, LAMBDA i : Spent(i, until), LAMBDA S : CHOOSE i \in S : TRUE,
                   {i \in 1..Len(history) : history[i].to = status})

-----------------------------------------------------------------------------
\* Whatever times are given, a history that was only appended to validates.  If
\* they never go back nothing is refused: it ends where the rollout is, which
\* started before it ended.
HistoryValid ==
    /\ Valid
    /\ ordered => /\ Current = entity.status
                  /\ 0 \notin {entity.started, entity.completed}
                        => entity.started <= entity.completed

\* The times spent in the statuses add up to the time since the first transition.
TimeAccounted ==
    history # <<>> =>
        MapThenFoldSet(+, 0, LAMBDA s : TimeIn(s, latest), LAMBDA S : CHOOSE s \in S : TRUE,
                       Statuses) = latest - history[1].at

=============================================================================
