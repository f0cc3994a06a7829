---------------------- MODULE TransitionHistoryProofs ----------------------
(***************************************************************************)
(* Theorems about TransitionHistory, for histories of any length and       *)
(* whatever times the callers give.                                        *)
(***************************************************************************)
EXTENDS TransitionHistory, TLAPS

-----------------------------------------------------------------------------
(* The inductive invariant.                                                *)

Transitions == [from : Statuses, to : Statuses, at : Nat]

Types ==
    /\ entity.status \in Statuses /\ entity.started \in Nat /\ entity.completed \in Nat
    /\ history \in Seq(Transitions)
    /\ latest \in Nat /\ ordered \in BOOLEAN

\* The time a rollout started is set from its first running on, and it has no
\* other time before.
StartKnown ==
    /\ entity.status \in {"draft", "scheduled"} => entity.started = 0 /\ entity.completed = 0
    /\ entity.status \in {"running", "paused", "completed", "failed", "rolling_back", "rolled_back"}
          => entity.started # 0

\* No time that was taken is later than the latest one given.
NothingLater ==
    /\ entity.started <= latest
    /\ history # <<>> => LastTransition.at <= latest

EndsWhereItIs ==
    ordered => /\ Current = entity.status
               /\ 0 \notin {entity.started, entity.completed} => entity.started <= entity.completed

HInv == Types /\ StartKnown /\ NothingLater /\ Valid /\ EndsWhereItIs

-----------------------------------------------------------------------------

\* The table, read by rows.
LEMMA Table ==
    ASSUME NEW from \in Statuses, NEW to \in Lifecycle!allowedTransitions(from)
    PROVE  /\ to \in {"scheduled", "running", "paused", "completed", "failed", "cancelled",
                      "rolled_back", "rolling_back"}
           /\ to = "scheduled" => from = "draft"
           /\ to \in {"paused", "completed"} => from = "running"
           /\ to = "failed" => from \in {"running", "rolling_back"}
           /\ to = "rolled_back" => from = "rolling_back"
           /\ to = "rolling_back" => from \in {"running", "paused", "completed", "failed"}
           /\ to = "running" => from \in {"draft", "scheduled", "paused"}
  BY DEF Statuses, Lifecycle!Statuses, Lifecycle!allowedTransitions

LEMMA InitSound == HistoryInit => HInv
<1> SUFFICES ASSUME HistoryInit PROVE HInv
  OBVIOUS
<1>1. /\ entity.status = "draft" /\ entity.started = 0 /\ entity.completed = 0
      /\ history = <<>> /\ latest = 0
  BY DEF HistoryInit
<1>2. ordered \in BOOLEAN
  BY Zenon DEF HistoryInit
<1>3. "draft" \in Statuses /\ 0 \in Nat /\ <<>> \in Seq(Transitions)
  BY DEF Statuses, Lifecycle!Statuses
<1>4. Types
  BY <1>1, <1>2, <1>3, Zenon DEF Types
<1>5. StartKnown /\ NothingLater
  BY <1>1 DEF StartKnown, NothingLater
<1>6. Valid
  BY <1>1 DEF Valid
<1>7. EndsWhereItIs
  BY <1>1 DEF EndsWhereItIs, Current
<1> QED BY <1>4, <1>5, <1>6, <1>7 DEF HInv

\* What a transition does to the rollout's own row.
LEMMA EntityStep ==
    ASSUME HInv, NEW to \in Statuses, NEW reason, NEW at \in 1..MaxInstant, MaxInstant \in Nat,
           Transition(to, reason, at)
    PROVE  /\ entity'.status = to /\ entity'.started \in Nat /\ entity'.completed \in Nat
           /\ StartKnown' /\ entity'.started <= latest'
           /\ ordered' /\ 0 \notin {entity'.started, entity'.completed}
                 => entity'.started <= entity'.completed
<1>1. /\ entity'.status = to
      /\ entity'.started = IF to = "running" /\ entity.started = 0 THEN at ELSE entity.started
      /\ entity'.completed = IF to \in Finished THEN at ELSE entity.completed
  BY DEF Transition, ApplyTransition
<1>2. /\ latest' = IF at > latest THEN at ELSE latest
      /\ ordered' = (ordered /\ at >= latest)
      /\ to \in Lifecycle!allowedTransitions(entity.status)
  BY DEF Transition, Lifecycle!CanTransition
<1>3. at \in Nat /\ at # 0 /\ entity.status \in Statuses /\ entity.started \in Nat /\ latest \in Nat
      /\ entity.completed \in Nat
  BY DEF HInv, Types
<1>4. StartKnown'
  <2> DEFINE from == entity.status
  <2>1. from \in Statuses /\ to \in Lifecycle!allowedTransitions(from)
    BY <1>2, <1>3
  <2>2. to \in {"draft", "scheduled"} => entity'.started = 0 /\ entity'.completed = 0
    <3>1. to \in {"draft", "scheduled"} => from = "draft"
      BY <2>1, Table
    <3> QED BY <1>1, <3>1 DEF HInv, StartKnown, Finished
  <2>3. to \in {"paused", "completed", "failed", "rolling_back", "rolled_back"}
           => from \in {"running", "paused", "completed", "failed", "rolling_back"}
    BY <2>1, Table
  <2>4. to \in {"running", "paused", "completed", "failed", "rolling_back", "rolled_back"}
           => entity'.started # 0
    BY <1>1, <1>3, <2>3 DEF HInv, StartKnown
  <2> QED BY <1>1, <2>2, <2>4 DEF StartKnown
<1>5. entity'.started <= latest'
  BY <1>1, <1>2, <1>3 DEF HInv, NothingLater
<1>6. ASSUME ordered', entity'.started # 0, entity'.completed # 0
      PROVE  entity'.started <= entity'.completed
  <2>1. ordered /\ at >= latest
    BY <1>2, <1>6
  <2>2. CASE to \in Finished
    BY <1>1, <1>2, <1>3, <1>5, <2>1, <2>2
  <2>3. CASE to \notin Finished /\ entity'.started = entity.started
    BY <1>1, <1>6, <2>1, <2>3 DEF HInv, EndsWhereItIs
  <2>4. CASE to = "running" /\ entity.started = 0
    <3>1. entity.completed = 0
      BY <1>2, <1>3, <2>4, Table DEF HInv, StartKnown
    <3> QED BY <1>1, <1>6, <2>4, <3>1 DEF Finished
  <2> QED BY <1>1, <2>2, <2>3, <2>4
<1> QED BY <1>1, <1>3, <1>4, <1>5, <1>6

\* An appended transition goes on where the history ended.
LEMMA AppendStep ==
    ASSUME NEW t \in Transitions, Types, Valid, Accepts(t),
           t.to \in Lifecycle!allowedTransitions(t.from), history' = Append(history, t)
    PROVE  history' \in Seq(Transitions) /\ Valid' /\ history' # <<>> /\ LastTransition' = t
<1>1. /\ Len(history') = Len(history) + 1 /\ Len(history) \in Nat
      /\ history'[Len(history) + 1] = t
      /\ \A i \in 1..Len(history) : history'[i] = history[i]
      /\ history' \in Seq(Transitions) /\ history' # <<>>
  BY DEF Types
<1>2. LastTransition' = t
  BY <1>1 DEF LastTransition
<1>3. ASSUME NEW i \in 1..Len(history')
      PROVE  /\ history'[i].to \in Lifecycle!allowedTransitions(history'[i].from)
             /\ i > 1 => /\ history'[i - 1].to = history'[i].from
                         /\ history'[i - 1].at <= history'[i].at
  <2>1. CASE i \in 1..Len(history)
    <3>1. i > 1 => i - 1 \in 1..Len(history)
      BY <1>1, <2>1
    <3> QED BY <1>1, <2>1, <3>1 DEF Valid
  <2>2. CASE i = Len(history) + 1
    <3>1. i > 1 => /\ i - 1 \in 1..Len(history) /\ i - 1 = Len(history)
                   /\ LastTransition.to = t.from /\ LastTransition.at <= t.at
      <4>1. i > 1 => history # <<>> /\ i - 1 = Len(history) /\ i - 1 \in 1..Len(history)
        BY <1>1, <2>2
      <4>2. history # <<>> => LastTransition \in Transitions
        BY DEF LastTransition, Types
      <4> QED BY <4>1, <4>2 DEF Accepts, Transitions
    <3> QED BY <1>1, <2>2, <3>1 DEF LastTransition
  <2> QED BY <1>1, <2>1, <2>2
<1>4. Valid'
  BY <1>3 DEF Valid
<1> QED BY <1>1, <1>2, <1>4

LEMMA NextSound ==
    ASSUME MaxInstant \in Nat, HInv, [HistoryNext]_transitions
    PROVE  HInv'
<1>1. CASE UNCHANGED transitions
  BY <1>1 DEF transitions, HInv, Types, StartKnown, NothingLater, Valid, EndsWhereItIs, Current, LastTransition
<1>2. ASSUME NEW to \in Statuses, NEW reason, NEW at \in 1..MaxInstant, Transition(to, reason, at)
      PROVE  HInv'
  <2> DEFINE t == [from |-> entity.status, to |-> to, at |-> at]
  <2>1. /\ entity'.status = to /\ entity'.started \in Nat /\ entity'.completed \in Nat
        /\ StartKnown' /\ entity'.started <= latest'
        /\ ordered' /\ 0 \notin {entity'.started, entity'.completed}
              => entity'.started <= entity'.completed
    BY <1>2, EntityStep
  <2>2. /\ history' = IF Accepts(t) THEN Append(history, t) ELSE history
        /\ latest' = IF at > latest THEN at ELSE latest
        /\ ordered' = (ordered /\ at >= latest)
        /\ to \in Lifecycle!allowedTransitions(entity.status)
    BY <1>2 DEF Transition, Lifecycle!CanTransition
  <2>3. /\ at \in Nat /\ latest \in Nat /\ entity.status \in Statuses /\ Types /\ Valid
        /\ t \in Transitions /\ t.from = entity.status /\ t.to = to /\ t.at = at
    BY DEF HInv, Types, Transitions
  <2>4. ordered' \in BOOLEAN /\ latest' \in Nat /\ latest' >= at /\ latest' >= latest
    BY <2>2, <2>3
  <2> HIDE DEF t
  <2>5. CASE Accepts(t)
    <3>1. history' \in Seq(Transitions) /\ Valid' /\ history' # <<>> /\ LastTransition' = t
      BY <2>2, <2>3, <2>5, AppendStep
    <3>2. Types'
      BY <2>1, <2>4, <3>1 DEF Types
    <3>3. NothingLater' /\ Current' = to
      BY <2>1, <2>3, <2>4, <3>1 DEF NothingLater, Current
    <3>4. EndsWhereItIs'
      BY <2>1, <3>3 DEF EndsWhereItIs
    <3> QED BY <2>1, <3>1, <3>2, <3>3, <3>4 DEF HInv
  \* Refused: only when the times went back.
  <2>6. CASE ~Accepts(t)
    <3>1. history' = history
      BY <2>2, <2>6
    <3>2. Types'
      BY <2>1, <2>3, <2>4, <3>1 DEF Types
    <3>3. Valid' /\ LastTransition' = LastTransition
      BY <2>3, <3>1 DEF Valid, LastTransition
    <3>4. history # <<>> => LastTransition.at \in Nat /\ LastTransition.at <= latest
      <4>1. history # <<>> => LastTransition \in Transitions
        BY <2>3 DEF LastTransition, Types
      <4> QED BY <4>1 DEF Transitions, HInv, NothingLater
    <3>5. NothingLater'
      BY <2>1, <2>3, <2>4, <3>1, <3>3, <3>4 DEF NothingLater
    <3>6. ~ordered'
      <4>1. ordered => history # <<>> /\ LastTransition.to = t.from
        BY <2>3, <2>6, <3>4 DEF Accepts, HInv, EndsWhereItIs, Current
      <4>2. history # <<>> /\ LastTransition.to = t.from => at < LastTransition.at
        BY <2>3, <2>6, <3>4 DEF Accepts
      <4>3. ordered' => ordered /\ at >= latest
        BY <2>2
      <4> QED BY <2>3, <3>4, <4>1, <4>2, <4>3
    <3> QED BY <2>1, <3>2, <3>3, <3>5, <3>6 DEF HInv, EndsWhereItIs
  <2> QED BY <2>5, <2>6
<1> QED BY <1>1, <1>2 DEF HistoryNext

\* A history that was only appended to validates, whatever times the callers
\* give and however long it gets.  If they never go back nothing is refused:
\* the history ends where the rollout is, which started before it ended.
THEOREM HistoryHolds ==
    ASSUME MaxInstant \in Nat
    PROVE  HistorySpec => []HistoryValid
<1>1. HInv => HistoryValid
  BY DEF HInv, EndsWhereItIs, HistoryValid
<1>2. HInv /\ [HistoryNext]_transitions => HInv'
  BY NextSound
<1> QED BY <1>1, <1>2, InitSound, PTL DEF HistorySpec
=============================================================================
