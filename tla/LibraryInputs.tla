---------------------------- MODULE LibraryInputs ----------------------------
(***************************************************************************)
(* The input that the functions which keep no state are given, and what is *)
(* asked of them, as far as it is proved of any input.                     *)
(***************************************************************************)
EXTENDS Integers

CONSTANTS Minute, Unset    \* of BatchPlanning and Versions

VARIABLE input      \* [of |-> which functions, x |-> what they are given]

B == INSTANCE BatchPlanning
V == INSTANCE Versions
E == INSTANCE EventOrder

\* Sizes, schedules, progress and rules of rollouts: see BatchPlanning.
RolloutFits ==
    /\ input.of = "creation" => B!SizesAgree(input.x) /\ B!ScheduleHolds(input.x)
    /\ input.of = "progress" => B!ProgressHolds(input.x)
    /\ input.of = "rule"     => B!RuleHolds(input.x)

\* The order of versions and their constraints, and that of stored times: see
\* Versions and EventOrder.
ComparesInOrder ==
    /\ input.of = "versions" => V!OrderHolds(input.x)
    /\ input.of = "times"    => E!TimesHold(input.x)

=============================================================================
