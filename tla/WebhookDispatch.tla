-------------------------- MODULE WebhookDispatch --------------------------
(***************************************************************************)
(* The webhook outbox: deliveries that request handlers enqueue and the    *)
(* dispatcher posts to the subscribers, one after the other, in ticks that *)
(* have a deadline.                                                        *)
(*                                                                         *)
(* Time is counted in seconds where the code compares or adds it: the      *)
(* backoff of a delivery and what is left of a tick.  next_attempt_at only *)
(* decides which deliveries are due and in which order, so a row keeps the *)
(* seconds to wait, and once it is due, which deliveries were due before.  *)
(***************************************************************************)
EXTENDS Integers, FiniteSets

CONSTANTS
    Events,         \* the events that handlers emit
    Subscriptions,
    Matching,       \* pairs <<event, subscription>> whose event type matches
    Slow,           \* subscribers whose answer takes longer than ClientTimeout
    MaxAttempts,    \* WEBHOOK_MAX_ATTEMPTS, which nothing validates
    Interval,       \* seconds between ticks, and the deadline of each
    ClientTimeout,  \* seconds the HTTP client waits for an answer
    Limit,          \* deliveries that a tick lists at most
    MayFail         \* whether statements fail and the process dies

ASSUME SubscriptionAssumption ==
    /\ Matching \subseteq Events \X Subscriptions
    /\ Slow \subseteq Subscriptions
    /\ Events # {} /\ Subscriptions # {}

ASSUME NumberAssumption ==
    /\ MaxAttempts \in Int
    /\ Interval \in Nat \ {0}
    /\ ClientTimeout \in Nat \ {0}
    /\ Limit \in Nat \ {0}

ASSUME FaultAssumption == MayFail \in BOOLEAN

Deliveries == Events \X Subscriptions

DeliveryStatus == {"none", "pending", "retrying", "succeeded", "abandoned"}

Row == [status : DeliveryStatus, attempts : Nat, wait : Nat]

VARIABLES
    enabled,   \* the subscriptions that are enabled
    emitted,   \* events whose change is committed and whose handler went on
    todo,      \* for each event, the subscriptions still to be enqueued for
    row,       \* the rows of webhook_deliveries; "none" is no row
    ahead,     \* for each due delivery, those that were due before it
    tick,      \* the dispatcher's iteration
    accepted   \* deliveries that their subscriber has answered with 2xx

vars == <<enabled, emitted, todo, row, ahead, tick, accepted>>

outbox == <<emitted, todo>>

\* pc is where Process is: "list" between two ticks, "load" before it reads the
\* next subscription, "post" before the request, "save" before UpdateDelivery.
Tick == [pc     : {"list", "load", "post", "save"},
         listed : SUBSET Deliveries,         \* still to be delivered
         seen   : [Deliveries -> Nat],       \* attempts as they were listed
         cur    : Deliveries,
         out    : Row,                       \* the row to be saved
         left   : Nat]                       \* seconds to the deadline

NoRow == [status |-> "none", attempts |-> 0, wait |-> 0]

NoDelivery == CHOOSE d \in Deliveries : TRUE

BetweenTicks == [pc |-> "list", listed |-> {}, seen |-> [d \in Deliveries |-> 0],
                 cur |-> NoDelivery, out |-> NoRow, left |-> 0]

TypeOK ==
    /\ enabled \subseteq Subscriptions
    /\ emitted \subseteq Events
    /\ todo \in [Events -> SUBSET Subscriptions]
    /\ row \in [Deliveries -> Row]
    /\ ahead \in [Deliveries -> SUBSET Deliveries]
    /\ tick \in Tick
    /\ accepted \subseteq Deliveries

Init ==
    /\ enabled = Subscriptions
    /\ emitted = {}
    /\ todo = [e \in Events |-> {}]
    /\ row = [d \in Deliveries |-> NoRow]
    /\ ahead = [d \in Deliveries |-> {}]
    /\ tick = BetweenTicks
    /\ accepted = {}

-----------------------------------------------------------------------------
(* Which deliveries are due, and in which order.                           *)

Unsettled == {d \in Deliveries : row[d].status \in {"pending", "retrying"}}

\* Slip: the status of a delivery is not part of the query.
DueWhatever == {d \in Deliveries : row[d].status # "none" /\ row[d].wait = 0}

\* Slip: next_attempt_at is not part of the query.
DueAnyTime == Unsettled

Due == {d \in Unsettled : row[d].wait = 0}

\* d is the first of a set of due deliveries; several may share their instant.
FirstOf(S, d) == d \in S /\ ahead[d] \cap S = {}

\* The delivery d moves behind those that are due, or out of their order.
Requeued(d) == [x \in Deliveries |-> IF x = d THEN {} ELSE ahead[x] \ {d}]

\* 1 s, doubled with each attempt up to the eleventh; 1024 s is below the cap.
Backoff(attempt) ==
    <<1, 2, 4, 8, 16, 32, 64, 128, 256, 512, 1024>>[IF attempt < 11 THEN attempt ELSE 11]

-----------------------------------------------------------------------------
(* Handlers: emit, after the change has been committed.                    *)

\* ListSubscriptions of those enabled whose event types match.
Emit(e) ==
    /\ e \notin emitted
    /\ emitted' = emitted \cup {e}
    /\ todo' = [todo EXCEPT ![e] = {s \in enabled : <<e, s>> \in Matching}]
    /\ UNCHANGED <<enabled, row, ahead, tick, accepted>>

Enqueue(e, s) ==
    /\ s \in todo[e]
    /\ todo' = [todo EXCEPT ![e] = @ \ {s}]
    /\ row' = [row EXCEPT ![<<e, s>>] = [status |-> "pending", attempts |-> 0, wait |-> 0]]
    /\ ahead' = [ahead EXCEPT ![<<e, s>>] = Due]
    /\ UNCHANGED <<enabled, emitted, tick, accepted>>

\* Nothing in the service disables a subscription; the repository can.
Disable(s) ==
    /\ s \in enabled
    /\ enabled' = enabled \ {s}
    /\ UNCHANGED <<emitted, todo, row, ahead, tick, accepted>>

-----------------------------------------------------------------------------
(* The dispatcher.                                                         *)

\* ListDueDeliveries: the first Limit of those due, by next_attempt_at.
ListDue ==
    /\ tick.pc = "list"
    /\ Due # {}
    /\ \E S \in SUBSET Due :
          /\ Cardinality(S) = IF Cardinality(Due) < Limit THEN Cardinality(Due) ELSE Limit
          /\ \A d \in S : ahead[d] \subseteq S
          /\ tick' = [tick EXCEPT !.pc = "load", !.listed = S, !.left = Interval,
                                  !.seen = [d \in Deliveries |-> row[d].attempts]]
    /\ UNCHANGED <<enabled, outbox, row, ahead, accepted>>

\* Slip: the attempt is not counted.
AttemptedUncounted(d, status) ==
    [status |-> status, attempts |-> tick.seen[d], wait |-> 0]

\* What deliver knows of the delivery with one more attempt, and saves.
Attempted(d, status) ==
    [status |-> status, attempts |-> tick.seen[d] + 1, wait |-> 0]

\* GetSubscription; a disabled one costs an attempt and ends the delivery.
Load ==
    /\ tick.pc = "load"
    /\ tick.left > 0
    /\ \E d \in Deliveries :
          /\ FirstOf(tick.listed, d)
          /\ \/ /\ d[2] \in enabled
                /\ tick' = [tick EXCEPT !.pc = "post", !.cur = d, !.listed = @ \ {d}]
             \/ /\ d[2] \notin enabled
                /\ tick' = [tick EXCEPT !.pc = "save", !.cur = d, !.listed = @ \ {d},
                                        !.out = Attempted(d, "abandoned")]
    /\ UNCHANGED <<enabled, outbox, row, ahead, accepted>>

\* After the deadline the subscription cannot be read: the delivery is passed over.
PassOver ==
    /\ tick.pc = "load"
    /\ tick.left = 0 \/ MayFail
    /\ \E d \in Deliveries :
          /\ FirstOf(tick.listed, d)
          /\ tick' = [tick EXCEPT !.listed = @ \ {d}]
    /\ UNCHANGED <<enabled, outbox, row, ahead, accepted>>

EndTick ==
    /\ tick.pc = "load"
    /\ tick.listed = {}
    /\ tick' = BetweenTicks
    /\ UNCHANGED <<enabled, outbox, row, ahead, accepted>>

\* Slip: one attempt more than configured.
FailedOneMore(d) ==
    LET n == tick.seen[d] + 1
    IN  IF n > MaxAttempts
        THEN Attempted(d, "abandoned")
        ELSE [Attempted(d, "retrying") EXCEPT !.wait = Backoff(n)]

\* Slip: the last attempt is not made.
FailedOneLess(d) ==
    LET n == tick.seen[d] + 1
    IN  IF n + 1 >= MaxAttempts
        THEN Attempted(d, "abandoned")
        ELSE [Attempted(d, "retrying") EXCEPT !.wait = Backoff(n)]

\* recordFailure: the attempt counts, and is the last or is repeated later.
Failed(d) ==
    LET n == tick.seen[d] + 1
    IN  IF n >= MaxAttempts
        THEN Attempted(d, "abandoned")
        ELSE [Attempted(d, "retrying") EXCEPT !.wait = Backoff(n)]

\* Slip: an answer is taken for a success whatever its status code.
RejectUnseen(d) ==
    /\ d[2] \notin Slow
    /\ tick' = [tick EXCEPT !.pc = "save", !.out = Attempted(d, "succeeded")]
    /\ UNCHANGED accepted

\* An answer with another status code than 2xx.
Reject(d) ==
    /\ d[2] \notin Slow
    /\ tick' = [tick EXCEPT !.pc = "save", !.out = Failed(d)]
    /\ UNCHANGED accepted

Accept(d) ==
    /\ d[2] \notin Slow
    /\ tick' = [tick EXCEPT !.pc = "save", !.out = Attempted(d, "succeeded")]
    /\ accepted' = accepted \cup {d}

\* The subscriber could not be reached.
Unreachable(d) ==
    /\ tick' = [tick EXCEPT !.pc = "save", !.out = Failed(d)]
    /\ UNCHANGED accepted

\* Slip: the client's timeout does not end with the tick.
ClientTimesOutAnyway(d) ==
    /\ d[2] \in Slow
    /\ tick' = [tick EXCEPT !.pc = "save", !.out = Failed(d), !.left = @ - ClientTimeout]
    /\ accepted' \in {accepted, accepted \cup {d}}

\* The client gives up, with time left to record the failure.
ClientTimesOut(d) ==
    /\ d[2] \in Slow
    /\ tick.left > ClientTimeout
    /\ tick' = [tick EXCEPT !.pc = "save", !.out = Failed(d), !.left = @ - ClientTimeout]
    /\ accepted' \in {accepted, accepted \cup {d}}

\* The tick ends during the request; the failure is still to be recorded.
CutOff(d) ==
    /\ tick.left = 0 \/ (d[2] \in Slow /\ tick.left <= ClientTimeout)
    /\ tick' = [tick EXCEPT !.pc = "save", !.out = Failed(d), !.left = 0]
    /\ accepted' \in {accepted, accepted \cup {d}}

Post ==
    /\ tick.pc = "post"
    /\ LET d == tick.cur
       IN  \/ tick.left > 0 /\ (Reject(d) \/ Accept(d) \/ Unreachable(d))
           \/ ClientTimesOut(d)
           \/ CutOff(d)
    /\ UNCHANGED <<enabled, outbox, row, ahead>>

\* UpdateDelivery, by ID.  A delivery that waits, or is settled, is not due.
Save ==
    /\ tick.pc = "save"
    /\ tick.left > 0
    /\ row' = [row EXCEPT ![tick.cur] = tick.out]
    /\ ahead' = Requeued(tick.cur)
    /\ tick' = [tick EXCEPT !.pc = "load", !.cur = NoDelivery, !.out = NoRow]
    /\ UNCHANGED <<enabled, outbox, accepted>>

\* After the deadline, or when the statement fails, nothing is saved.
SaveFails ==
    /\ tick.pc = "save"
    /\ tick.left = 0 \/ MayFail
    /\ tick' = [tick EXCEPT !.pc = "load", !.cur = NoDelivery, !.out = NoRow]
    /\ UNCHANGED <<enabled, outbox, row, ahead, accepted>>

-----------------------------------------------------------------------------
(* Time and failures.                                                      *)

\* A second of the waits; what becomes due is behind what was due before.
SecondPasses ==
    /\ \E d \in Unsettled : row[d].wait > 0
    /\ row' = [d \in Deliveries |->
                  IF row[d].wait > 0 THEN [row[d] EXCEPT !.wait = @ - 1] ELSE row[d]]
    /\ ahead' = [d \in Deliveries |->
                  IF d \in Unsettled /\ row[d].wait = 1 THEN Due ELSE ahead[d]]
    /\ UNCHANGED <<enabled, outbox, tick, accepted>>

\* The tick's other work has used up its time.
DeadlinePasses ==
    /\ tick.pc # "list"
    /\ tick.left > 0
    /\ tick' = [tick EXCEPT !.left = 0]
    /\ UNCHANGED <<enabled, outbox, row, ahead, accepted>>

\* EnqueueDelivery failed, which is logged.
EnqueueFails(e, s) ==
    /\ MayFail
    /\ s \in todo[e]
    /\ todo' = [todo EXCEPT ![e] = @ \ {s}]
    /\ UNCHANGED <<enabled, emitted, row, ahead, tick, accepted>>

\* The process dies and is started again.
Crash ==
    /\ MayFail
    /\ todo' = [e \in Events |-> {}]
    /\ tick' = BetweenTicks
    /\ UNCHANGED <<enabled, emitted, row, ahead, accepted>>

Dispatch == ListDue \/ Load \/ PassOver \/ EndTick \/ Post \/ Save \/ SaveFails

Next ==
    \/ \E e \in Events : Emit(e)
    \/ \E e \in Events, s \in Subscriptions : Enqueue(e, s) \/ EnqueueFails(e, s)
    \/ \E s \in Subscriptions : Disable(s)
    \/ Dispatch
    \/ SecondPasses
    \/ DeadlinePasses
    \/ Crash

Spec == Init /\ [][Next]_vars

\* The ticker goes on, a tick takes its steps, and time passes.
Fairness == WF_vars(Dispatch) /\ WF_vars(SecondPasses)

\* What goes wrong outside the program, and how long a tick's other work takes.
Fault ==
    \/ Crash
    \/ DeadlinePasses
    \/ \E e \in Events, s \in Subscriptions : EnqueueFails(e, s)
    \/ tick.left > 0 /\ (PassOver \/ SaveFails)

\* Faults end some time, as any finite behaviour may be continued without one.
\* (The end of a tick looks like a crash when nothing is left to enqueue.)
FaultsCease == <>[][~Fault \/ EndTick]_vars

FairSpec == Spec /\ Fairness /\ FaultsCease

-----------------------------------------------------------------------------
(* Properties.                                                             *)

\* A delivery has no more attempts on record than are configured, and at least
\* one is always made: the dispatcher compares after it has counted.
AttemptsBounded ==
    \A d \in Deliveries :
        row[d].attempts <= IF MaxAttempts < 1 THEN 1 ELSE MaxAttempts

\* A delivery on record as succeeded was answered with 2xx, also when ticks run
\* out of time and the process dies around the request.
SucceededAccepted ==
    \A d \in Deliveries : row[d].status = "succeeded" => d \in accepted

\* A delivery is given up only after the configured attempts, each on record,
\* or when its subscription is no longer enabled.
AbandonedForReason ==
    \A d \in Deliveries :
        row[d].status = "abandoned" =>
            row[d].attempts >= MaxAttempts \/ d[2] \notin enabled

\* What succeeded or was given up stays as it is: no tick that was listed
\* earlier saves over it.
SettledStays ==
    [][\A d \in Deliveries :
          row[d].status \in {"succeeded", "abandoned"} => row'[d] = row[d]]_vars

\* Nothing is posted once its outcome is on record, nor before its backoff ends,
\* although the tick listed it before it made other requests.
PostedWhenDue ==
    [][tick.pc = "post" /\ tick'.pc = "save" => tick.cur \in Unsettled /\ row[tick.cur].wait = 0]_vars

\* What is enqueued is delivered or given up in the end.
Settles ==
    \A d \in Deliveries :
        d \in Unsettled ~> row[d].status \in {"succeeded", "abandoned"}

=============================================================================
