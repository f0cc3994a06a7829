----------------------------- MODULE MCLibrary -----------------------------
(***************************************************************************)
(* The parts that share no state: in each behaviour one of the rate        *)
(* limiter, the transition history and the metric registry moves, or the   *)
(* functions are given one input.                                          *)
(***************************************************************************)
EXTENDS RateLimiter, TransitionHistory, MetricRegistry, LibraryInputs, FiniteSetsExt, SequencesExt

VARIABLE part      \* the part that moves

C == INSTANCE ConfigurationContent

-----------------------------------------------------------------------------
(* Inputs.                                                                 *)

PartialFunctions(K, S) == UNION {[D -> S] : D \in SUBSET K}

\* Up to three candidates, empty and repeated ids among them.
Candidates ==
    {[i \in DOMAIN ids |-> [id |-> ids[i], online |-> f[ids[i]][1], critical |-> f[ids[i]][2]]] :
        ids \in BoundedSeq(0..3, 3), f \in [0..3 -> BOOLEAN \X BOOLEAN]}

Options == [size : {0, 1, 2, 4}, percent : {0, 34, 50, 101}, criticalFirst : BOOLEAN,
            offlineLast : BOOLEAN, hash : {<<1, 1, 2>>, <<3, 2, 1>>}]

Plans == [candidates : Candidates, options : {o \in Options : o.size = 0 \/ o.percent \in {0, 50}}]

Commands ==
    [size : -1..3, percent : {-1, 0, 1, 34, 50, 67, 100, 101}, scheduled : {0, 1, 3, 6},
     strategy : {"", "immediate", "scheduled", "odd"}, group : BOOLEAN,
     ids : {<<>>, <<1>>, <<2, 2>>, <<0>>}]

Creations == [command : Commands, now : {3}, devices : {1..1, 1..2, 1..3}]

TargetStatuses == {"pending", "ready", "delivered", "succeeded", "failed", "timed_out",
                   "rollback_pending", "rolled_back"}

Rules == [failure : {0, 34, 100}, offline : {0, 34, 100}, timeout : {0, 50}, enabled : BOOLEAN]
Counts == [total : {-1, 0, 2, 3}, succeeded : {0, 2}, failed : -1..3, offline : -1..3, timedOut : 0..2]

\* Documents of up to three levels.
Scalars == [scalar : {1, 2}]
Flat == Scalars \cup [object : PartialFunctions({"a", "b"}, Scalars)] \cup [array : BoundedSeq(Scalars, 2)]
Deep == {[scalar |-> 1], [object |-> <<>>], [array |-> <<[scalar |-> 1]>>],
         [object |-> [k \in {"a"} |-> [scalar |-> 2]]]}
Documents ==
    Flat \cup [array : BoundedSeq(Deep, 3)]
    \cup [object : {f \in PartialFunctions({"a", "b"}, Flat) : "a" \in DOMAIN f /\ "b" \in DOMAIN f => f["b"] = [scalar |-> 1]}]

Var(n) == [var |-> n]
Definitions == [name : [is : {"", "v", "w"}, padded : BOOLEAN], required : BOOLEAN,
                default : {<<>>, <<Var("w")>>}]
Templates ==
    [content : BoundedSeq({[text |-> "t"], Var("v"), Var("w")}, 2), definitions : BoundedSeq(Definitions, 2),
     supplied : PartialFunctions({"v", "w"}, {<<>>, <<[text |-> "t"]>>, <<Var("w")>>})]

Identifiers == [number : {1}, zeros : 0..1] \cup {[number |-> 2, zeros |-> 0], [text |-> 1]}
SomeVersions ==
    {V!ParseSemanticVersion(n, p) : n \in {<<1>>, <<1, 2>>, <<2, 0, 1>>}, p \in BoundedSeq(Identifiers, 2)}

\* Up to three events, at tied and at different times, one of which may be of
\* another resource.
Events ==
    {[i \in DOMAIN ids |-> [id |-> ids[i], resource |-> IF ids[i] = 3 THEN r ELSE 1,
                            action |-> f[ids[i]][1], at |-> f[ids[i]][2]]] :
        ids \in {s \in BoundedSeq(1..3, 3) : IsInjective(s)}, r \in 1..2,
        f \in [1..3 -> {"a", "b"} \X (1..3)]}

\* Up to three receipts, the third for another target or configuration.
ReceiptsAt(i) ==
    LET other == IF i = 3 THEN {1, 2} ELSE {1}
    IN  [id : {4 - i}, key : {0, 1, 4 - i}, target : other, configuration : other,
         status : {"succeeded", "failed"}, device : 0..2, received : 1..2]
Receipts ==
    {<<>>} \cup {<<r>> : r \in ReceiptsAt(1)} \cup ReceiptsAt(1) \X ReceiptsAt(2)
    \cup ReceiptsAt(1) \X ReceiptsAt(2) \X ReceiptsAt(3)

Times == [second : {5, 6}, fraction : [1..3 -> {0, 1, 9}]]

NoInput == [of |-> "nothing"]

Inputs ==
    \/ \E p \in Plans : input' = [of |-> "plan", x |-> p]
    \/ \E c \in Creations : input' = [of |-> "creation", x |-> c]
    \/ \E s \in BoundedSeq(TargetStatuses, 4) : input' = [of |-> "progress", x |-> [statuses |-> s]]
    \/ \E r \in Rules, c \in Counts : input' = [of |-> "rule", x |-> [rule |-> r, metrics |-> c]]
    \/ \E s, t \in Times : input' = [of |-> "times", x |-> [s |-> s, t |-> t]]
    \/ \E p, c \in Documents : input' = [of |-> "documents", x |-> [previous |-> p, current |-> c]]
    \/ \E t \in Templates : input' = [of |-> "template", x |-> t]
    \/ \E u, v, w \in SomeVersions : input' = [of |-> "versions", x |-> [u |-> u, v |-> v, w |-> w]]
    \/ \E e \in Events, right \in {{1}, {3}, {2, 3}}, required \in BoundedSeq({"a", "b"}, 2) :
          input' = [of |-> "events", x |-> [events |-> e, left |-> {1, 2}, right |-> right,
                                            required |-> required]]
    \/ \E r \in Receipts : input' = [of |-> "receipts", x |-> [receipts |-> r]]

-----------------------------------------------------------------------------
LibInit ==
    /\ part \in {"limiter", "history", "registry", "functions"}
    /\ input = NoInput
    /\ Init /\ HistoryInit /\ RegistryInit

LibNext ==
    \/ part = "limiter" /\ Next /\ UNCHANGED <<part, input, transitions, registry>>
    \/ part = "history" /\ HistoryNext /\ UNCHANGED <<part, input, limiter, registry>>
    \/ part = "registry" /\ RegistryNext /\ UNCHANGED <<part, input, limiter, transitions>>
    \/ part = "functions" /\ input = NoInput /\ Inputs
       /\ UNCHANGED <<part, limiter, transitions, registry>>

LibSpec == LibInit /\ [][LibNext]_<<part, input, limiter, transitions, registry>>

-----------------------------------------------------------------------------
Given(of, P(_)) == input.of = of => P(input.x)

\* Differences and templates: see ConfigurationContent.
DiffApplies == Given("documents", C!DiffHolds) /\ Given("template", C!TemplateHolds)

\* What sorts its input keeps all of it: plans (see BatchPlanning), audit events and
\* receipts (see EventOrder).  And a history accounts for its time (see
\* TransitionHistory).
OrderKept ==
    /\ Given("plan", B!PlanHolds)
    /\ Given("events", E!TimelineHolds) /\ Given("receipts", E!ReceiptsHold)
    /\ TimeAccounted

=============================================================================
