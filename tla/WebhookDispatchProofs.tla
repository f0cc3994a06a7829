----------------------- MODULE WebhookDispatchProofs -----------------------
(***************************************************************************)
(* What the outbox keeps, for all events, subscriptions, bounds and        *)
(* deadlines, with failing statements and crashes.                         *)
(*                                                                         *)
(* The dispatcher works on rows it listed some statements ago and saves    *)
(* what it made of them.  The invariant therefore speaks of the table and  *)
(* of what a tick holds: the deliveries it still has to post are unsettled *)
(* and have the attempts they were listed with, and the row it is about to *)
(* save is one that may stand in the table.                                *)
(***************************************************************************)
EXTENDS WebhookDispatch, TLAPS

USE SubscriptionAssumption, NumberAssumption, FaultAssumption

AttemptBound == IF MaxAttempts < 1 THEN 1 ELSE MaxAttempts

\* A row r of the delivery d, given who has accepted what and is enabled.
RowSound(d, r, acc, en) ==
    /\ r.attempts <= AttemptBound
    /\ r.status \in {"none", "pending", "retrying"} => r.attempts < AttemptBound
    /\ r.status = "succeeded" => d \in acc
    /\ r.status = "abandoned" => r.attempts >= MaxAttempts \/ d[2] \notin en
    /\ r.status \in {"succeeded", "abandoned"} => r.wait = 0

\* The delivery d as the tick t listed it is still so in the table.
Fresh(d, t, rows) ==
    /\ rows[d].status \in {"pending", "retrying"} /\ rows[d].wait = 0
    /\ t.seen[d] = rows[d].attempts

TickSound(t, rows, acc, en) ==
    /\ \A d \in t.listed : Fresh(d, t, rows)
    /\ t.pc \in {"post", "save"} => Fresh(t.cur, t, rows) /\ t.cur \notin t.listed
    /\ t.pc = "save" => RowSound(t.cur, t.out, acc, en)

\* What is still to be enqueued has no row, nor has an event not emitted yet.
OutboxSound ==
    \A e \in Events, s \in Subscriptions :
        /\ s \in todo[e] => e \in emitted
        /\ s \in todo[e] \/ e \notin emitted => row[<<e, s>>].status = "none"

IInv ==
    /\ \A d \in Deliveries : RowSound(d, row[d], accepted, enabled)
    /\ TickSound(tick, row, accepted, enabled)
    /\ OutboxSound

-----------------------------------------------------------------------------
(* The parts a step is made of.                                            *)

LEMMA BoundType == AttemptBound \in Nat /\ AttemptBound >= 1 /\ AttemptBound >= MaxAttempts
  BY DEF AttemptBound

LEMMA BackoffType == ASSUME NEW n \in Nat, n >= 1 PROVE Backoff(n) \in Nat
<1> DEFINE i == IF n < 11 THEN n ELSE 11
<1>1. i \in 1..11
  OBVIOUS
<1>2. \A k \in 1..11 : <<1, 2, 4, 8, 16, 32, 64, 128, 256, 512, 1024>>[k] \in Nat
  OBVIOUS
<1> QED BY <1>1, <1>2 DEF Backoff

LEMMA NoDeliveryType == NoDelivery \in Deliveries
<1> PICK e \in Events, s \in Subscriptions : TRUE
  OBVIOUS
<1>1. <<e, s>> \in Deliveries
  BY DEF Deliveries
<1> QED BY <1>1 DEF NoDelivery

LEMMA BetweenType == BetweenTicks \in Tick /\ BetweenTicks.listed = {} /\ BetweenTicks.pc = "list"
  BY NoDeliveryType DEF BetweenTicks, Tick, NoRow, Row, DeliveryStatus

\* What an attempt makes of a delivery that is fresh may be saved.
LEMMA AttemptSound ==
    ASSUME TypeOK, NEW d \in Deliveries, NEW acc, NEW en,
           RowSound(d, row[d], accepted, enabled), Fresh(d, tick, row)
    PROVE  /\ Failed(d) \in Row /\ RowSound(d, Failed(d), acc, en)
           /\ Attempted(d, "succeeded") \in Row
           /\ d \in acc => RowSound(d, Attempted(d, "succeeded"), acc, en)
           /\ Attempted(d, "abandoned") \in Row
           /\ d[2] \notin en => RowSound(d, Attempted(d, "abandoned"), acc, en)
<1> DEFINE n == tick.seen[d] + 1
<1>1. n \in Nat /\ n >= 1 /\ n <= AttemptBound
  <2>1. row[d].attempts \in Nat /\ row[d].attempts < AttemptBound
    BY DEF TypeOK, Row, RowSound, Fresh
  <2> QED BY <2>1, BoundType DEF Fresh
<1>2. Backoff(n) \in Nat
  BY <1>1, BackoffType
<1> HIDE DEF n
<1>3. \A st \in DeliveryStatus :
         Attempted(d, st) = [status |-> st, attempts |-> n, wait |-> 0] /\ Attempted(d, st) \in Row
  BY <1>1 DEF Attempted, Row, n
<1>4. Failed(d) = IF n >= MaxAttempts THEN [status |-> "abandoned", attempts |-> n, wait |-> 0]
                  ELSE [status |-> "retrying", attempts |-> n, wait |-> Backoff(n)]
  BY DEF Failed, Attempted, n
<1>5. Failed(d) \in Row /\ RowSound(d, Failed(d), acc, en)
  <2>1. CASE n >= MaxAttempts
    BY <2>1, <1>1, <1>4 DEF Row, DeliveryStatus, RowSound
  <2>2. CASE ~(n >= MaxAttempts)
    BY <2>2, <1>1, <1>2, <1>4, BoundType DEF Row, DeliveryStatus, RowSound
  <2> QED BY <2>1, <2>2
<1> QED BY <1>1, <1>3, <1>5 DEF RowSound, DeliveryStatus

\* Rows stay sound when more is accepted and less is enabled.
LEMMA RowSoundGrows ==
    ASSUME NEW d, NEW r, NEW acc, NEW en, RowSound(d, r, acc, en),
           NEW acc2, NEW en2, acc \subseteq acc2, en2 \subseteq en
    PROVE  RowSound(d, r, acc2, en2)
  BY DEF RowSound

-----------------------------------------------------------------------------
(* The steps of handlers.                                                  *)

LEMMA EmitStep ==
    ASSUME TypeOK, IInv, NEW e \in Events, Emit(e)
    PROVE  TypeOK' /\ IInv'
<1>1. TypeOK'
  BY DEF TypeOK, Emit
<1>2. OutboxSound'
  BY DEF IInv, OutboxSound, Emit, TypeOK
<1> QED BY <1>1, <1>2 DEF IInv, Emit, TickSound, Fresh, RowSound

LEMMA EnqueueStep ==
    ASSUME TypeOK, IInv, NEW e \in Events, NEW s \in Subscriptions, Enqueue(e, s)
    PROVE  TypeOK' /\ IInv'
<1> DEFINE d == <<e, s>>
           r == [status |-> "pending", attempts |-> 0, wait |-> 0]
<1>1. d \in Deliveries /\ r \in Row /\ row' = [row EXCEPT ![d] = r] /\ row[d].status = "none"
  BY DEF Enqueue, Deliveries, Row, DeliveryStatus, IInv, OutboxSound, TypeOK
<1>2. TypeOK'
  BY <1>1 DEF TypeOK, Enqueue, Due, Unsettled
<1>3. \A x \in Deliveries : RowSound(x, row'[x], accepted', enabled')
  BY <1>1, BoundType DEF IInv, TypeOK, RowSound, Enqueue
<1>4. TickSound(tick', row', accepted', enabled')
  BY <1>1 DEF IInv, TypeOK, Tick, TickSound, Fresh, Enqueue
<1>5. OutboxSound'
  <2> SUFFICES ASSUME NEW f \in Events, NEW q \in Subscriptions
               PROVE  /\ q \in todo'[f] => f \in emitted
                      /\ q \in todo'[f] \/ f \notin emitted => row'[<<f, q>>].status = "none"
    BY DEF OutboxSound, Enqueue
  <2>1. e \in emitted /\ s \notin todo'[e] /\ todo'[f] \subseteq todo[f]
    BY DEF Enqueue, IInv, OutboxSound, TypeOK
  <2>2. q \in todo'[f] \/ f \notin emitted => row[<<f, q>>].status = "none" /\ <<f, q>> # d
    BY <2>1 DEF IInv, OutboxSound
  <2> QED BY <1>1, <2>1, <2>2 DEF IInv, OutboxSound, TypeOK, Deliveries
<1> QED BY <1>2, <1>3, <1>4, <1>5 DEF IInv

LEMMA DropStep ==
    ASSUME TypeOK, IInv,
           \/ \E e \in Events, s \in Subscriptions : EnqueueFails(e, s)
           \/ \E s \in Subscriptions : Disable(s)
    PROVE  TypeOK' /\ IInv'
<1>1. CASE \E e \in Events, s \in Subscriptions : EnqueueFails(e, s)
  <2> PICK e \in Events, s \in Subscriptions : EnqueueFails(e, s)
    BY <1>1
  <2>1. TypeOK'
    BY DEF TypeOK, EnqueueFails
  <2>2. OutboxSound'
    BY DEF IInv, OutboxSound, EnqueueFails, TypeOK
  <2> QED BY <2>1, <2>2 DEF IInv, EnqueueFails, TickSound, Fresh, RowSound
<1>2. CASE \E s \in Subscriptions : Disable(s)
  <2> PICK s \in Subscriptions : Disable(s)
    BY <1>2
  <2>1. TypeOK'
    BY DEF TypeOK, Disable
  <2>2. enabled' \subseteq enabled /\ UNCHANGED <<emitted, todo, row, tick, accepted>>
    BY DEF Disable
  <2>3. \A d \in Deliveries : RowSound(d, row'[d], accepted', enabled')
    BY <2>2, RowSoundGrows DEF IInv
  <2>4. TickSound(tick', row', accepted', enabled')
    BY <2>2, RowSoundGrows DEF IInv, TickSound, Fresh
  <2> QED BY <2>1, <2>2, <2>3, <2>4 DEF IInv, OutboxSound
<1> QED BY <1>1, <1>2

-----------------------------------------------------------------------------
(* The steps of the dispatcher.                                            *)

\* A step that changes only what the tick holds.
LEMMA TickStep ==
    ASSUME TypeOK, IInv, tick' \in Tick, UNCHANGED <<enabled, outbox, row, ahead, accepted>>,
           TickSound(tick', row, accepted, enabled)
    PROVE  TypeOK' /\ IInv'
<1>1. TypeOK'
  BY DEF TypeOK, outbox
<1> QED BY <1>1 DEF IInv, OutboxSound, outbox

LEMMA ListDueStep == ASSUME TypeOK, IInv, ListDue PROVE TypeOK' /\ IInv'
<1>1. PICK S \in SUBSET Due :
         tick' = [tick EXCEPT !.pc = "load", !.listed = S, !.left = Interval,
                              !.seen = [d \in Deliveries |-> row[d].attempts]]
  BY DEF ListDue
<1>2. S \subseteq Deliveries /\ \A d \in S : row[d].status \in {"pending", "retrying"} /\ row[d].wait = 0
  BY DEF Due, Unsettled
<1>3. tick' \in Tick
  BY <1>1, <1>2 DEF TypeOK, Tick, Row
<1>4. TickSound(tick', row, accepted, enabled)
  BY <1>1, <1>2 DEF TypeOK, Tick, TickSound, Fresh
<1> QED BY <1>3, <1>4, TickStep DEF ListDue

LEMMA LoadStep == ASSUME TypeOK, IInv, Load PROVE TypeOK' /\ IInv'
<1>1. PICK d \in Deliveries :
         /\ FirstOf(tick.listed, d)
         /\ \/ tick' = [tick EXCEPT !.pc = "post", !.cur = d, !.listed = @ \ {d}]
            \/ /\ d[2] \notin enabled
               /\ tick' = [tick EXCEPT !.pc = "save", !.cur = d, !.listed = @ \ {d},
                                       !.out = Attempted(d, "abandoned")]
  BY DEF Load
<1>2. d \in tick.listed /\ Fresh(d, tick, row) /\ RowSound(d, row[d], accepted, enabled)
  BY <1>1 DEF FirstOf, IInv, TickSound
<1>3. PICK given \in Row :
         /\ given = Attempted(d, "abandoned")
         /\ d[2] \notin enabled => RowSound(d, given, accepted, enabled)
  BY <1>2, AttemptSound
<1>4. /\ tick' \in Tick
      /\ tick'.listed = tick.listed \ {d} /\ tick'.seen = tick.seen /\ tick'.cur = d
      /\ tick'.pc = "post" \/ (tick'.pc = "save" /\ tick'.out = given /\ d[2] \notin enabled)
  <2>1. tick \in Tick
    BY DEF TypeOK
  <2>2. CASE tick' = [tick EXCEPT !.pc = "post", !.cur = d, !.listed = @ \ {d}]
    BY <2>1, <2>2 DEF Tick
  <2>3. CASE d[2] \notin enabled /\ tick' = [tick EXCEPT !.pc = "save", !.cur = d,
                                                   !.listed = @ \ {d}, !.out = given]
    BY <2>1, <2>3 DEF Tick
  <2> QED BY <1>1, <1>3, <2>2, <2>3
<1>5. TickSound(tick', row, accepted, enabled)
  <2>1. \A x \in tick.listed : Fresh(x, tick, row)
    BY DEF IInv, TickSound
  <2> QED BY <1>2, <1>3, <1>4, <2>1 DEF TickSound, Fresh
<1> QED BY <1>4, <1>5, TickStep DEF Load

LEMMA PassStep ==
    ASSUME TypeOK, IInv, PassOver \/ EndTick \/ SaveFails \/ DeadlinePasses
    PROVE  TypeOK' /\ IInv'
<1>1. CASE PassOver
  <2>1. PICK d \in Deliveries : tick' = [tick EXCEPT !.listed = @ \ {d}]
    BY <1>1 DEF PassOver
  <2>2. tick' \in Tick /\ TickSound(tick', row, accepted, enabled)
    BY <1>1, <2>1 DEF PassOver, TypeOK, Tick, IInv, TickSound, Fresh
  <2> QED BY <1>1, <2>2, TickStep DEF PassOver
<1>2. CASE EndTick
  <2>1. tick' \in Tick /\ TickSound(tick', row, accepted, enabled)
    BY <1>2, BetweenType DEF EndTick, TickSound
  <2> QED BY <1>2, <2>1, TickStep DEF EndTick
<1>3. CASE SaveFails
  <2>1. tick' \in Tick /\ TickSound(tick', row, accepted, enabled)
    BY <1>3, NoDeliveryType DEF SaveFails, TypeOK, Tick, NoRow, Row, DeliveryStatus, IInv, TickSound, Fresh
  <2> QED BY <1>3, <2>1, TickStep DEF SaveFails
<1>4. CASE DeadlinePasses
  <2>1. tick' \in Tick /\ TickSound(tick', row, accepted, enabled)
    BY <1>4 DEF DeadlinePasses, TypeOK, Tick, IInv, TickSound, Fresh
  <2> QED BY <1>4, <2>1, TickStep DEF DeadlinePasses
<1> QED BY <1>1, <1>2, <1>3, <1>4

LEMMA PostStep == ASSUME TypeOK, IInv, Post PROVE TypeOK' /\ IInv'
<1> DEFINE d == tick.cur
<1>1. d \in Deliveries /\ Fresh(d, tick, row) /\ RowSound(d, row[d], accepted, enabled)
      /\ d \notin tick.listed /\ tick.pc = "post"
  BY DEF TypeOK, Tick, IInv, TickSound, Post
<1>2. /\ UNCHANGED <<enabled, emitted, todo, row, ahead>>
      /\ accepted' \subseteq Deliveries /\ accepted \subseteq accepted'
  BY <1>1 DEF Post, outbox, TypeOK, Reject, Accept, Unreachable, ClientTimesOut, CutOff
<1>3. PICK left \in Nat, out \in Row :
         /\ RowSound(d, out, accepted', enabled)
         /\ tick' = [tick EXCEPT !.pc = "save", !.out = out, !.left = left]
  <2>1. PICK bad \in Row : bad = Failed(d) /\ RowSound(d, bad, accepted', enabled)
    BY <1>1, AttemptSound
  <2>2. PICK good \in Row :
           good = Attempted(d, "succeeded") /\ (d \in accepted' => RowSound(d, good, accepted', enabled))
    BY <1>1, AttemptSound
  <2>3. tick \in Tick /\ tick.left \in Nat
    BY DEF TypeOK, Tick
  <2>4. CASE tick' = [tick EXCEPT !.pc = "save", !.out = bad]
    <3>1. tick' = [tick EXCEPT !.pc = "save", !.out = bad, !.left = tick.left]
      BY <2>3, <2>4 DEF Tick
    <3> QED BY <2>1, <2>3, <3>1
  <2>5. CASE d \in accepted' /\ tick' = [tick EXCEPT !.pc = "save", !.out = good]
    <3>1. tick' = [tick EXCEPT !.pc = "save", !.out = good, !.left = tick.left]
      BY <2>3, <2>5 DEF Tick
    <3> QED BY <2>2, <2>3, <2>5, <3>1
  <2>6. CASE ClientTimesOut(d)
    <3>1. tick.left - ClientTimeout \in Nat
      BY <2>3, <2>6 DEF ClientTimesOut
    <3> QED BY <2>1, <2>6, <3>1 DEF ClientTimesOut
  <2>7. CASE CutOff(d)
    BY <2>1, <2>7 DEF CutOff
  <2> QED BY <1>1, <2>1, <2>2, <2>4, <2>5, <2>6, <2>7 DEF Post, Reject, Accept, Unreachable
<1>4. TypeOK'
  BY <1>2, <1>3 DEF TypeOK, Tick
<1>5. TickSound(tick', row', accepted', enabled')
  BY <1>1, <1>2, <1>3 DEF TypeOK, Tick, IInv, TickSound, Fresh
<1>6. \A x \in Deliveries : RowSound(x, row'[x], accepted', enabled')
  BY <1>2, RowSoundGrows DEF IInv
<1> QED BY <1>2, <1>4, <1>5, <1>6 DEF IInv, OutboxSound

LEMMA SaveStep == ASSUME TypeOK, IInv, Save PROVE TypeOK' /\ IInv'
<1> DEFINE d == tick.cur
<1>1. /\ d \in Deliveries /\ tick.out \in Row /\ d \notin tick.listed
      /\ RowSound(d, tick.out, accepted, enabled) /\ row[d].status # "none"
      /\ row' = [row EXCEPT ![d] = tick.out]
  BY DEF TypeOK, Tick, IInv, TickSound, Fresh, Save
<1>2. tick' \in Tick /\ tick'.listed = tick.listed /\ tick'.seen = tick.seen /\ tick'.pc = "load"
  BY NoDeliveryType DEF Save, TypeOK, Tick, NoRow, Row, DeliveryStatus
<1>3. TypeOK'
  BY <1>1, <1>2 DEF TypeOK, Save, Requeued, outbox
<1>4. \A x \in Deliveries : RowSound(x, row'[x], accepted', enabled')
  BY <1>1 DEF TypeOK, IInv, Save
<1>5. TickSound(tick', row', accepted', enabled')
  BY <1>1, <1>2 DEF TypeOK, Tick, IInv, TickSound, Fresh
<1>6. OutboxSound'
  <2> SUFFICES ASSUME NEW e \in Events, NEW s \in Subscriptions,
                      s \in todo[e] \/ e \notin emitted
               PROVE  row'[<<e, s>>].status = "none"
    BY DEF OutboxSound, IInv, Save, outbox
  <2>1. row[<<e, s>>].status = "none"
    BY DEF IInv, OutboxSound
  <2> QED BY <1>1, <2>1 DEF TypeOK, Deliveries
<1> QED BY <1>3, <1>4, <1>5, <1>6 DEF IInv

-----------------------------------------------------------------------------
(* Time and crashes.                                                       *)

LEMMA SecondStep == ASSUME TypeOK, IInv, SecondPasses PROVE TypeOK' /\ IInv'
<1>1. /\ UNCHANGED <<enabled, emitted, todo, tick, accepted>>
      /\ row' \in [Deliveries -> Row]
      /\ \A d \in Deliveries : row'[d].status = row[d].status /\ row'[d].attempts = row[d].attempts
      /\ \A d \in Deliveries : row[d].wait = 0 => row'[d] = row[d]
  BY DEF SecondPasses, outbox, TypeOK, Row
<1>2. TypeOK'
  BY <1>1 DEF TypeOK, SecondPasses, Due, Unsettled
<1>3. \A d \in Deliveries : RowSound(d, row'[d], accepted', enabled')
  BY <1>1 DEF IInv, RowSound
<1>4. TickSound(tick', row', accepted', enabled')
  BY <1>1 DEF IInv, TickSound, Fresh, TypeOK, Tick
<1>5. OutboxSound'
  BY <1>1 DEF IInv, OutboxSound, Deliveries
<1> QED BY <1>2, <1>3, <1>4, <1>5 DEF IInv

LEMMA CrashStep == ASSUME TypeOK, IInv, Crash PROVE TypeOK' /\ IInv'
<1>1. tick' = BetweenTicks /\ todo' = [e \in Events |-> {}]
      /\ UNCHANGED <<enabled, emitted, row, ahead, accepted>>
  BY DEF Crash
<1>2. TypeOK'
  BY <1>1, BetweenType DEF TypeOK
<1>3. TickSound(tick', row', accepted', enabled')
  BY <1>1, BetweenType DEF TickSound
<1>4. OutboxSound'
  BY <1>1 DEF IInv, OutboxSound
<1> QED BY <1>1, <1>2, <1>3, <1>4 DEF IInv

-----------------------------------------------------------------------------
(* The theorems.                                                           *)

LEMMA InitSound == Init => TypeOK /\ IInv
<1> SUFFICES ASSUME Init PROVE TypeOK /\ IInv
  OBVIOUS
<1>1. TypeOK
  BY BetweenType DEF Init, TypeOK, NoRow, Row, DeliveryStatus
<1>2. \A d \in Deliveries : RowSound(d, row[d], accepted, enabled)
  BY BoundType DEF Init, NoRow, RowSound
<1>3. TickSound(tick, row, accepted, enabled)
  BY BetweenType DEF Init, TickSound
<1>4. OutboxSound
  BY DEF Init, OutboxSound, NoRow, Deliveries
<1> QED BY <1>1, <1>2, <1>3, <1>4 DEF IInv

LEMMA NextSound == TypeOK /\ IInv /\ [Next]_vars => TypeOK' /\ IInv'
<1> SUFFICES ASSUME TypeOK, IInv, [Next]_vars PROVE TypeOK' /\ IInv'
  OBVIOUS
<1>1. CASE \E e \in Events : Emit(e)
  BY <1>1, EmitStep
<1>2. CASE \E e \in Events, s \in Subscriptions : Enqueue(e, s) \/ EnqueueFails(e, s)
  BY <1>2, EnqueueStep, DropStep
<1>3. CASE \E s \in Subscriptions : Disable(s)
  BY <1>3, DropStep
<1>4. CASE Dispatch
  BY <1>4, ListDueStep, LoadStep, PassStep, PostStep, SaveStep DEF Dispatch
<1>5. CASE SecondPasses
  BY <1>5, SecondStep
<1>6. CASE DeadlinePasses
  BY <1>6, PassStep
<1>7. CASE Crash
  BY <1>7, CrashStep
<1>8. CASE UNCHANGED vars
  BY <1>8 DEF vars, TypeOK, IInv, TickSound, Fresh, OutboxSound
<1> QED BY <1>1, <1>2, <1>3, <1>4, <1>5, <1>6, <1>7, <1>8 DEF Next

\* Every reachable state has its types and satisfies the inductive invariant.
THEOREM TypeAndInvariant == Spec => [](TypeOK /\ IInv)
  BY InitSound, NextSound, PTL DEF Spec

\* Every variable keeps its type: no wait, attempt or deadline goes negative.
THEOREM TypeCorrect == Spec => []TypeOK
  BY TypeAndInvariant, PTL

\* recordFailure never lets a delivery have more attempts than configured.
THEOREM AttemptsHold == Spec => []AttemptsBounded
<1>1. TypeOK /\ IInv => AttemptsBounded
  BY DEF IInv, RowSound, AttemptBound, AttemptsBounded
<1> QED BY <1>1, TypeAndInvariant, PTL

\* What deliver marks as succeeded was answered with 2xx.
THEOREM SuccessHolds == Spec => []SucceededAccepted
<1>1. TypeOK /\ IInv => SucceededAccepted
  BY DEF IInv, RowSound, SucceededAccepted
<1> QED BY <1>1, TypeAndInvariant, PTL

\* A delivery is abandoned only for a reason that stands.
THEOREM AbandonHolds == Spec => []AbandonedForReason
<1>1. TypeOK /\ IInv => AbandonedForReason
  BY DEF IInv, RowSound, AbandonedForReason
<1> QED BY <1>1, TypeAndInvariant, PTL

\* No handler and no tick changes a delivery that is settled.
THEOREM SettledHolds == Spec => SettledStays
<1> DEFINE Stays == \A d \in Deliveries :
                       row[d].status \in {"succeeded", "abandoned"} => row'[d] = row[d]
<1>1. TypeOK /\ IInv /\ [Next]_vars => [Stays]_vars
  <2> SUFFICES ASSUME TypeOK, IInv, Next,
                      NEW d \in Deliveries, row[d].status \in {"succeeded", "abandoned"}
               PROVE  row'[d] = row[d]
    BY DEF Stays
  <2>1. row[d].wait = 0
    BY DEF IInv, RowSound
  <2>2. CASE UNCHANGED row
    BY <2>2
  <2>3. CASE Save
    BY <2>3 DEF Save, IInv, TickSound, Fresh, TypeOK
  <2>4. CASE SecondPasses
    BY <2>1, <2>4 DEF SecondPasses
  <2>5. CASE \E e \in Events, s \in Subscriptions : Enqueue(e, s)
    BY <2>5 DEF Enqueue, IInv, OutboxSound, TypeOK
  <2> QED BY <2>2, <2>3, <2>4, <2>5 DEF Next, Dispatch, Emit, EnqueueFails, Disable, ListDue, Load,
             PassOver, EndTick, Post, SaveFails, DeadlinePasses, Crash
<1> QED BY <1>1, TypeAndInvariant, PTL DEF Spec, SettledStays

\* deliver posts only what is still due, however long ago Process listed it.
THEOREM PostedHolds == Spec => PostedWhenDue
<1> DEFINE Timely == tick.pc = "post" /\ tick'.pc = "save"
                        => tick.cur \in Unsettled /\ row[tick.cur].wait = 0
<1>1. TypeOK /\ IInv /\ [Next]_vars => [Timely]_vars
  BY DEF TypeOK, Tick, IInv, TickSound, Fresh, Unsettled
<1> QED BY <1>1, TypeAndInvariant, PTL DEF Spec, PostedWhenDue
=============================================================================
