------------------------ MODULE RolloutControlProofs ------------------------
EXTENDS RolloutControl, FiniteSetTheorems, TLAPS

LEMMA DivisionBounds ==
    ASSUME NEW a \in Nat, NEW b \in Nat \ {0}
    PROVE  /\ a \div b \in Nat
           /\ b * (a \div b) <= a
           /\ a < b * (a \div b) + b
  OBVIOUS

LEMMA DivisionMonotone ==
    ASSUME NEW b \in Nat \ {0}, NEW p \in Nat, NEW q \in Nat, b * p < b * q + b
    PROVE  p <= q
<1> SUFFICES ASSUME p >= q + 1 PROVE FALSE
  OBVIOUS
<1>1. b * p >= b * (q + 1)
  OBVIOUS
<1>2. b * (q + 1) = b * q + b
  OBVIOUS
<1> QED BY <1>1, <1>2

LEMMA BatchNumberRange ==
    /\ MaxBatch \in Nat
    /\ \A d \in Devices : BatchNumber(d) \in 1..MaxBatch
<1> DEFINE top == DeviceCount + BatchSize - 1
<1>1. top \in Nat /\ BatchSize \in Nat \ {0} /\ MaxBatch = top \div BatchSize
  BY SizeAssumption DEF MaxBatch
<1>2. MaxBatch \in Nat /\ top < BatchSize * MaxBatch + BatchSize
  BY <1>1, DivisionBounds
<1>3. ASSUME NEW d \in Devices PROVE BatchNumber(d) \in 1..MaxBatch
  <2> DEFINE p == (d - 1) \div BatchSize
  <2>1. d - 1 \in Nat /\ d \in Nat /\ d <= DeviceCount
    BY SizeAssumption DEF Devices
  <2>2. p \in Nat /\ BatchSize * p <= d - 1
    BY <2>1, <1>1, DivisionBounds
  <2>3. BatchSize * (p + 1) = BatchSize * p + BatchSize
    BY <1>1, <2>2
  <2>4. BatchSize * (p + 1) < BatchSize * MaxBatch + BatchSize
    BY <2>1, <2>2, <2>3, <1>1, <1>2, SizeAssumption
  <2>5. p + 1 <= MaxBatch
    BY <2>4, <2>2, <1>1, <1>2, DivisionMonotone
  <2> QED BY <2>5, <2>2, <1>2 DEF BatchNumber
<1> QED BY <1>2, <1>3

-----------------------------------------------------------------------------
(* The inductive invariant.  Its parts take the receipts as a parameter,   *)
(* so that a fact about the receipts before a step can be compared with    *)
(* the same fact about the receipts after it.                              *)

Heard(rc, d) == \E k \in Keys : rc[k] # NoReceipt /\ rc[k].dev = d

HeardBefore(rc, b) == \A d \in Devices : BatchNumber(d) < b => Heard(rc, d)

Stored(rc, r) == \E k \in Keys : rc[k] = r

\* What every copy of the rollout's row satisfies, stored or held by a handler.
RowSound(rc, row) ==
    /\ HeardBefore(rc, row.batch)
    /\ row.status = "completed" => \A d \in Devices : Heard(rc, d)
    /\ row.status \in {"running", "paused", "completed", "failed", "rolling_back"}
          => row.batch > 0

TargetSound(rc, d, t) ==
    /\ t.status \in Outcomes =>
          Stored(rc, [dev |-> d, cfg |-> t.desired, outcome |-> t.status])
    /\ t.status \in Finished \cup {"rollback_pending"} => Heard(rc, d)
    /\ t.status \in {"ready", "delivered"} => Heard(rc, d) \/ HeardBefore(rc, BatchNumber(d))

CurrentSound(rc, d, c) ==
    c # NoConfiguration => Stored(rc, [dev |-> d, cfg |-> c, outcome |-> "succeeded"])

\* What a handler that writes targets may still write: a rollback only resets
\* targets of devices that were heard, an activation stays in the row's batch.
TodoSound(rc, row, d) ==
    IF row.status = "rolling_back" THEN Heard(rc, d) ELSE BatchNumber(d) = row.batch

\* What a handler knows between two of its statements.
JobSound(rc, j) ==
    /\ RowSound(rc, j.row)
    /\ j.pc \in {"list", "countBatch", "countAll"} => j.row.status \in {"running", "rolling_back"}
    /\ j.pc = "write" => \A d \in j.todo : TodoSound(rc, j.row, d)
    /\ j.pc = "countAll" /\ j.done => \A d \in Batch(j.row.batch) : Heard(rc, d)
    /\ j.pc = "deliver" => Heard(rc, j.dev) \/ HeardBefore(rc, BatchNumber(j.dev))
    /\ j.pc = "insert" => j.key \in Keys
    /\ j.pc \in {"ack", "record"} => Stored(rc, ReceiptOf(j))
    /\ j.pc = "record" => j.outcome = "succeeded"

IInv ==
    /\ RowSound(receipt, rollout)
    /\ \A d \in Devices : TargetSound(receipt, d, target[d])
    /\ \A d \in Devices : CurrentSound(receipt, d, current[d])
    /\ \A w \in Workers : JobSound(receipt, job[w])

-----------------------------------------------------------------------------
(* Types of the values that actions build.                                 *)

LEMMA BatchZero ==
    /\ 0 \in 0..MaxBatch
    /\ 1 \in 0..MaxBatch
    /\ 1 \in Devices
    /\ \A d \in Devices : BatchNumber(d) \in Int /\ BatchNumber(d) >= 1 /\ BatchNumber(d) <= MaxBatch
  BY BatchNumberRange, SizeAssumption DEF Devices

LEMMA IdleType == Idle \in Job
  BY BatchZero, SizeAssumption
  DEF Idle, Draft, Job, Rollout, RolloutStatus, Statement, Events, NoEvent,
      Configurations, Outcomes

\* A count of the devices of S with some status is at most the device count.
LEMMA HowManyType ==
    ASSUME NEW S \in SUBSET Devices, NEW status
    PROVE  HowMany(S, status) \in 0..DeviceCount
<1> DEFINE T == {d \in S : target[d].status = status}
<1>1. IsFiniteSet(Devices) /\ Cardinality(Devices) = DeviceCount
  BY FS_Interval, SizeAssumption DEF Devices
<1>2. T \subseteq Devices
  OBVIOUS
<1>3. IsFiniteSet(T) /\ Cardinality(T) <= DeviceCount
  BY <1>1, <1>2, FS_Subset
<1>4. Cardinality(T) \in Nat
  BY <1>3, FS_CardinalityType
<1> QED BY <1>3, <1>4, SizeAssumption DEF HowMany

LEMMA CountedType ==
    ASSUME NEW row \in Rollout, NEW S \in SUBSET Devices
    PROVE  /\ Counted(row, S) \in Rollout
           /\ Counted(row, S).status = row.status
           /\ Counted(row, S).batch = row.batch
<1>1. HowMany(S, "succeeded") \in 0..DeviceCount /\ HowMany(S, "failed") \in 0..DeviceCount
  BY HowManyType
<1> QED BY <1>1 DEF Counted, Rollout

LEMMA LoggingType ==
    ASSUME NEW e \in Events
    PROVE  Logging(e) \in Job
  BY IdleType DEF Logging, Job, Statement

LEMMA WritingType ==
    ASSUME NEW row \in Rollout, NEW e \in Events
    PROVE  Writing(row, e) \in Job
  BY IdleType DEF Writing, Job, Statement

-----------------------------------------------------------------------------
(* Receipts are never changed or removed, so that what was sound stays so. *)

Kept(rc, rd) == \A k \in Keys : rc[k] # NoReceipt => rd[k] = rc[k]

LEMMA HeardKept ==
    ASSUME NEW rc, NEW rd, Kept(rc, rd)
    PROVE  /\ \A d : Heard(rc, d) => Heard(rd, d)
           /\ \A b : HeardBefore(rc, b) => HeardBefore(rd, b)
           /\ \A r \in Receipt : Stored(rc, r) => Stored(rd, r)
<1>1. \A d : Heard(rc, d) => Heard(rd, d)
  BY DEF Kept, Heard
<1>2. \A b : HeardBefore(rc, b) => HeardBefore(rd, b)
  BY <1>1 DEF HeardBefore
<1>3. \A r \in Receipt : Stored(rc, r) => Stored(rd, r)
  BY NameAssumption DEF Kept, Stored
<1> QED BY <1>1, <1>2, <1>3

LEMMA ReceiptType ==
    ASSUME NEW d \in Devices, NEW c \in Configurations, NEW o \in Outcomes
    PROVE  [dev |-> d, cfg |-> c, outcome |-> o] \in Receipt
  BY DEF Receipt

LEMMA RowKept ==
    ASSUME NEW rc, NEW rd, Kept(rc, rd), NEW row, RowSound(rc, row)
    PROVE  RowSound(rd, row)
  BY HeardKept DEF RowSound

LEMMA TargetKept ==
    ASSUME NEW rc, NEW rd, Kept(rc, rd), NEW d \in Devices, NEW t \in Target,
           TargetSound(rc, d, t)
    PROVE  TargetSound(rd, d, t)
<1>1. t.status \in Outcomes => [dev |-> d, cfg |-> t.desired, outcome |-> t.status] \in Receipt
  BY ReceiptType DEF Target
<1> QED BY <1>1, HeardKept DEF TargetSound

LEMMA CurrentKept ==
    ASSUME NEW rc, NEW rd, Kept(rc, rd), NEW d \in Devices,
           NEW c \in Configurations \cup {NoConfiguration}, CurrentSound(rc, d, c)
    PROVE  CurrentSound(rd, d, c)
<1>1. c # NoConfiguration => [dev |-> d, cfg |-> c, outcome |-> "succeeded"] \in Receipt
  BY ReceiptType DEF Outcomes
<1> QED BY <1>1, HeardKept DEF CurrentSound

LEMMA JobKept ==
    ASSUME NEW rc, NEW rd, Kept(rc, rd), NEW j \in Job, JobSound(rc, j)
    PROVE  JobSound(rd, j)
<1>1. RowSound(rd, j.row)
  BY RowKept DEF JobSound
<1>2. ReceiptOf(j) \in Receipt
  BY ReceiptType DEF ReceiptOf, Job
<1>3. \A d : TodoSound(rc, j.row, d) => TodoSound(rd, j.row, d)
  BY HeardKept DEF TodoSound
<1>4. /\ j.pc \in {"ack", "record"} => Stored(rd, ReceiptOf(j))
      /\ j.pc = "deliver" => Heard(rd, j.dev) \/ HeardBefore(rd, BatchNumber(j.dev))
      /\ j.pc = "countAll" /\ j.done => \A d \in Batch(j.row.batch) : Heard(rd, d)
  BY <1>2, HeardKept DEF JobSound
<1> QED BY <1>1, <1>3, <1>4 DEF JobSound

-----------------------------------------------------------------------------
(* A worker that moves on to another sound job.                            *)

LEMMA IdleSound == ASSUME NEW rc PROVE JobSound(rc, Idle)
<1>1. HeardBefore(rc, 0)
  BY BatchZero DEF HeardBefore
<1>2. RowSound(rc, Draft)
  BY <1>1 DEF RowSound, Draft
<1> QED BY <1>2 DEF JobSound, Idle

LEMMA LoggingSound == ASSUME NEW rc, NEW e PROVE JobSound(rc, Logging(e))
  BY IdleSound DEF JobSound, Logging, Idle

LEMMA WritingSound ==
    ASSUME NEW rc, NEW row, NEW e, RowSound(rc, row)
    PROVE  JobSound(rc, Writing(row, e))
  BY IdleSound DEF JobSound, Writing, Idle

\* A step that leaves the rows of the store alone, save that receipts are added.
LEMMA JobStep ==
    ASSUME TypeOK, IInv, NEW w \in Workers,
           \E j \in Job : Become(w, j) /\ JobSound(receipt', j),
           Kept(receipt, receipt'), receipt' \in [Keys -> Receipt \cup {NoReceipt}],
           UNCHANGED <<rollout, target, current, due>>, audit' \subseteq Events
    PROVE  TypeOK' /\ IInv'
<1> PICK j \in Job : Become(w, j) /\ JobSound(receipt', j)
  OBVIOUS
<1>1. job' \in [Workers -> Job]
  BY DEF Become, TypeOK
<1>2. TypeOK'
  BY <1>1 DEF TypeOK
<1>3. RowSound(receipt', rollout')
  BY RowKept DEF IInv
<1>4. ASSUME NEW d \in Devices PROVE TargetSound(receipt', d, target'[d])
  <2>1. target[d] \in Target /\ target' = target
    BY DEF TypeOK
  <2> QED BY <2>1, TargetKept DEF IInv
<1>5. ASSUME NEW d \in Devices PROVE CurrentSound(receipt', d, current'[d])
  <2>1. current[d] \in Configurations \cup {NoConfiguration} /\ current' = current
    BY DEF TypeOK
  <2> QED BY <2>1, CurrentKept DEF IInv
<1>6. ASSUME NEW v \in Workers PROVE JobSound(receipt', job'[v])
  <2>1. CASE v = w
    BY <2>1 DEF Become, TypeOK
  <2>2. CASE v # w
    <3>1. job'[v] = job[v] /\ job[v] \in Job
      BY <2>2 DEF Become, TypeOK
    <3> QED BY <3>1, JobKept DEF IInv
  <2> QED BY <2>1, <2>2
<1> QED BY <1>2, <1>3, <1>4, <1>5, <1>6 DEF IInv

\* A step that changes nothing but what the worker does next.
LEMMA QuietStep ==
    ASSUME TypeOK, IInv, NEW w \in Workers,
           \E j \in Job : Become(w, j) /\ JobSound(receipt, j),
           UNCHANGED store
    PROVE  TypeOK' /\ IInv'
<1>1. Kept(receipt, receipt') /\ receipt' = receipt
  BY DEF Kept, store
<1>2. \E j \in Job : Become(w, j) /\ JobSound(receipt', j)
  BY <1>1
<1>3. receipt' \in [Keys -> Receipt \cup {NoReceipt}] /\ audit' \subseteq Events
  BY DEF TypeOK, store
<1>4. UNCHANGED <<rollout, target, current, due>>
  BY DEF store
<1> QED BY <1>1, <1>2, <1>3, <1>4, JobStep

\* A worker that becomes idle, or turns to telling an event.
LEMMA RestStep ==
    ASSUME TypeOK, IInv, NEW w \in Workers, UNCHANGED store,
           Become(w, Idle) \/ \E e \in Events : Become(w, Logging(e))
    PROVE  TypeOK' /\ IInv'
<1>1. CASE Become(w, Idle)
  BY <1>1, IdleType, IdleSound, QuietStep
<1>2. CASE \E e \in Events : Become(w, Logging(e))
  <2> PICK e \in Events : Become(w, Logging(e))
    BY <1>2
  <2> QED BY LoggingType, LoggingSound, QuietStep
<1> QED BY <1>1, <1>2

\* A worker that will save a sound row.
LEMMA WriteStep ==
    ASSUME TypeOK, IInv, NEW w \in Workers, UNCHANGED store,
           NEW row \in Rollout, RowSound(receipt, row),
           NEW e \in Events, Become(w, Writing(row, e))
    PROVE  TypeOK' /\ IInv'
  BY WritingType, WritingSound, QuietStep

-----------------------------------------------------------------------------
(* The actions, one lemma each.                                            *)

LEMMA ScheduleStep ==
    ASSUME TypeOK, IInv, NEW w \in Workers, Schedule(w)
    PROVE  TypeOK' /\ IInv'
<1> DEFINE j == [Idle EXCEPT !.pc = IF rollout.status = "draft" THEN "start" ELSE "reconcile"]
<1>1. j \in Job
  BY IdleType DEF Job, Statement
<1>2. JobSound(receipt, j)
  BY IdleSound DEF JobSound, Idle
<1> QED BY <1>1, <1>2, QuietStep DEF Schedule

LEMMA StartStep ==
    ASSUME TypeOK, IInv, NEW w \in Workers, Start(w)
    PROVE  TypeOK' /\ IInv'
<1> DEFINE j == [Idle EXCEPT !.pc = "list", !.row = StartedRow, !.event = "rollout.started"]
<1>1. rollout \in Rollout /\ rollout.status \in {"draft", "paused"} /\ RowSound(receipt, rollout)
  BY DEF Start, TypeOK, IInv
<1>2. StartedRow \in Rollout
  BY <1>1, BatchZero DEF StartedRow, Rollout, RolloutStatus
<1>3. RowSound(receipt, StartedRow)
  <2>1. StartedRow.status = "running"
    BY <1>1 DEF StartedRow, Rollout
  <2>2. StartedRow.batch = IF rollout.status = "draft" THEN 1 ELSE rollout.batch
    BY <1>1 DEF StartedRow, Rollout
  <2>3. HeardBefore(receipt, 1)
    BY BatchZero DEF HeardBefore
  <2> QED BY <1>1, <2>1, <2>2, <2>3 DEF RowSound
<1>4. j \in Job
  BY <1>2, IdleType DEF Job, Statement, Events
<1>5. JobSound(receipt, j)
  <2>1. j.row = StartedRow /\ j.pc = "list"
    BY DEF Idle
  <2>2. StartedRow.status = "running"
    BY <1>1 DEF StartedRow, Rollout
  <2> QED BY <1>3, <2>1, <2>2 DEF JobSound
<1> QED BY <1>4, <1>5, QuietStep DEF Start

LEMMA PauseStep ==
    ASSUME TypeOK, IInv, NEW w \in Workers, Pause(w)
    PROVE  TypeOK' /\ IInv'
<1> DEFINE row == [rollout EXCEPT !.status = "paused"]
<1>1. rollout \in Rollout /\ rollout.status = "running" /\ RowSound(receipt, rollout)
  BY DEF Pause, TypeOK, IInv
<1>2. row \in Rollout /\ row.status = "paused" /\ row.batch = rollout.batch
  BY <1>1 DEF Rollout, RolloutStatus
<1>3. RowSound(receipt, row)
  BY <1>1, <1>2 DEF RowSound
<1>4. Become(w, Writing(row, "rollout.paused")) /\ UNCHANGED store
  BY DEF Pause
<1> HIDE DEF row
<1> QED BY <1>2, <1>3, <1>4, WriteStep DEF Events

LEMMA CancelStep ==
    ASSUME TypeOK, IInv, NEW w \in Workers, Cancel(w)
    PROVE  TypeOK' /\ IInv'
<1> DEFINE row == [rollout EXCEPT !.status = "cancelled"]
<1>1. rollout \in Rollout /\ RowSound(receipt, rollout)
  BY DEF TypeOK, IInv
<1>2. row \in Rollout /\ row.status = "cancelled" /\ row.batch = rollout.batch
  BY <1>1 DEF Rollout, RolloutStatus
<1>3. RowSound(receipt, row)
  BY <1>1, <1>2 DEF RowSound
<1>4. Become(w, Writing(row, "rollout.cancelled")) /\ UNCHANGED store
  BY DEF Cancel
<1> HIDE DEF row
<1> QED BY <1>2, <1>3, <1>4, WriteStep DEF Events

LEMMA RollbackStep ==
    ASSUME TypeOK, IInv, NEW w \in Workers, Rollback(w)
    PROVE  TypeOK' /\ IInv'
<1> DEFINE row == [rollout EXCEPT !.status = "rolling_back"]
           j == [Idle EXCEPT !.pc = "list", !.row = row, !.event = "rollout.rollback_started"]
<1>1. /\ rollout \in Rollout /\ RowSound(receipt, rollout)
      /\ rollout.status \in {"paused", "failed", "completed"}
  BY DEF Rollback, TypeOK, IInv
<1>2. row \in Rollout /\ row.status = "rolling_back" /\ row.batch = rollout.batch
  BY <1>1 DEF Rollout, RolloutStatus
<1>3. RowSound(receipt, row)
  BY <1>1, <1>2 DEF RowSound
<1>4. Become(w, j) /\ UNCHANGED store
  BY DEF Rollback
<1> HIDE DEF row
<1>5. j \in Job
  BY <1>2, IdleType DEF Job, Statement, Events
<1>6. JobSound(receipt, j)
  BY <1>2, <1>3 DEF JobSound, Idle
<1> QED BY <1>4, <1>5, <1>6, QuietStep

LEMMA RefusedStep ==
    ASSUME TypeOK, IInv, NEW w \in Workers, Refused(w)
    PROVE  TypeOK' /\ IInv'
  BY RestStep DEF Refused

LEMMA ListStep ==
    ASSUME TypeOK, IInv, NEW w \in Workers, List(w)
    PROVE  TypeOK' /\ IInv'
<1> DEFINE row == job[w].row
           todo == Listed(row)
           j == [job[w] EXCEPT !.pc = "write", !.todo = todo]
<1>1. job[w] \in Job /\ JobSound(receipt, job[w]) /\ job[w].pc = "list"
  BY DEF List, TypeOK, IInv
<1>2. todo \in SUBSET Devices
  BY DEF Listed, Page, Batch
<1>3. row.status \in {"running", "rolling_back"} /\ RowSound(receipt, row)
  BY <1>1 DEF JobSound
<1>4. ASSUME NEW d \in todo PROVE TodoSound(receipt, row, d)
  <2>1. CASE row.status = "rolling_back"
    <3>1. d \in Devices /\ target[d].status \in Outcomes
      BY <1>4, <2>1 DEF Listed, Page
    <3>2. Heard(receipt, d)
      BY <3>1 DEF IInv, TargetSound, Finished, Outcomes
    <3> QED BY <2>1, <3>2 DEF TodoSound
  <2>2. CASE row.status = "running"
    <3>1. row.batch > 0
      BY <1>3, <2>2 DEF RowSound
    <3>2. BatchNumber(d) = row.batch
      BY <1>4, <2>2, <3>1 DEF Listed, Page, Batch
    <3> QED BY <2>2, <3>2 DEF TodoSound
  <2> QED BY <1>3, <2>1, <2>2
<1> HIDE DEF todo
<1>5. j \in Job /\ j.pc = "write" /\ j.row = row /\ j.todo = todo
  BY <1>1, <1>2 DEF Job, Statement
<1>6. JobSound(receipt, j)
  BY <1>3, <1>4, <1>5 DEF JobSound
<1>7. Become(w, j) /\ UNCHANGED store
  BY DEF List, todo
<1> QED BY <1>5, <1>6, <1>7, QuietStep

\* A step that writes one target and moves a worker on.
LEMMA TargetStep ==
    ASSUME TypeOK, IInv, NEW w \in Workers, NEW d \in Devices,
           \E t \in Target : /\ target' = [target EXCEPT ![d] = t]
                             /\ TargetSound(receipt, d, t),
           \E j \in Job : Become(w, j) /\ JobSound(receipt, j),
           UNCHANGED <<rollout, receipt, current, audit, due>>
    PROVE  TypeOK' /\ IInv'
<1> PICK t \in Target : target' = [target EXCEPT ![d] = t] /\ TargetSound(receipt, d, t)
  OBVIOUS
<1> PICK j \in Job : Become(w, j) /\ JobSound(receipt, j)
  OBVIOUS
<1>1. TypeOK'
  BY DEF TypeOK, Become
<1>2. \A e \in Devices : TargetSound(receipt', e, target'[e])
  BY DEF TypeOK, IInv
<1>3. \A v \in Workers : JobSound(receipt', job'[v])
  BY DEF TypeOK, IInv, Become
<1> QED BY <1>1, <1>2, <1>3 DEF IInv

LEMMA MarkTargetStep ==
    ASSUME TypeOK, IInv, NEW w \in Workers, MarkTarget(w)
    PROVE  TypeOK' /\ IInv'
<1> DEFINE row == job[w].row
           t == Marked(row)
<1>1. job[w] \in Job /\ JobSound(receipt, job[w]) /\ job[w].pc = "write"
  BY DEF MarkTarget, TypeOK, IInv
<1> PICK d \in job[w].todo : /\ target' = [target EXCEPT ![d] = Marked(job[w].row)]
                             /\ Become(w, [job[w] EXCEPT !.todo = @ \ {d}])
  BY DEF MarkTarget
<1> DEFINE j == [job[w] EXCEPT !.todo = @ \ {d}]
<1>2. d \in Devices /\ TodoSound(receipt, row, d) /\ RowSound(receipt, row)
  BY <1>1 DEF Job, JobSound
<1>3. t \in Target
  BY DEF Marked, Target, TargetStatus, Configurations
<1>4. TargetSound(receipt, d, t)
  <2>1. CASE row.status = "rolling_back"
    BY <1>2, <2>1 DEF TodoSound, TargetSound, Marked, Outcomes
  <2>2. CASE row.status # "rolling_back"
    <3>1. HeardBefore(receipt, BatchNumber(d))
      BY <1>2, <2>2 DEF TodoSound, RowSound
    <3>2. t.status = "ready"
      BY <2>2 DEF Marked
    <3> QED BY <3>1, <3>2 DEF TargetSound, Outcomes, Finished
  <2> QED BY <2>1, <2>2
<1>5. j \in Job
  BY <1>1 DEF Job
<1>6. JobSound(receipt, j)
  <2>1. j.pc = "write" /\ j.row = row /\ j.todo \subseteq job[w].todo
    BY <1>1 DEF Job
  <2> QED BY <1>1, <2>1 DEF JobSound
<1>7. UNCHANGED <<rollout, receipt, current, audit, due>>
  BY DEF MarkTarget
<1> HIDE DEF t
<1> QED BY <1>2, <1>3, <1>4, <1>5, <1>6, <1>7, TargetStep DEF t

LEMMA SaveRolloutStep ==
    ASSUME TypeOK, IInv, NEW w \in Workers, SaveRollout(w)
    PROVE  TypeOK' /\ IInv'
<1>1. job[w] \in Job /\ JobSound(receipt, job[w])
  BY DEF TypeOK, IInv
<1>2. rollout' \in Rollout /\ RowSound(receipt', rollout')
  BY <1>1 DEF SaveRollout, Job, JobSound
<1>3. Written(job[w].event) \in Job /\ JobSound(receipt, Written(job[w].event))
  BY <1>1, IdleType, IdleSound, LoggingType, LoggingSound DEF Written, Job
<1>4. Become(w, Written(job[w].event)) /\ UNCHANGED <<target, receipt, current, audit, due>>
  BY DEF SaveRollout
<1>5. TypeOK'
  BY <1>2, <1>3, <1>4 DEF TypeOK, Become
<1>6. \A v \in Workers : JobSound(receipt', job'[v])
  BY <1>3, <1>4 DEF TypeOK, IInv, Become
<1> QED BY <1>2, <1>4, <1>5, <1>6 DEF IInv

LEMMA AfterLogSound ==
    ASSUME NEW e
    PROVE  AfterLog(e) \in Job /\ \A rc : JobSound(rc, AfterLog(e))
<1> DEFINE j == [Idle EXCEPT !.pc = "reconcile"]
<1>1. j \in Job
  BY IdleType DEF Job, Statement
<1>2. ASSUME NEW rc PROVE JobSound(rc, j)
  BY IdleSound DEF JobSound, Idle
<1> QED BY <1>1, <1>2, IdleType, IdleSound DEF AfterLog

LEMMA LogStep ==
    ASSUME TypeOK, IInv, NEW w \in Workers, Log(w)
    PROVE  TypeOK' /\ IInv'
<1>1. receipt' = receipt /\ Kept(receipt, receipt')
  BY DEF Log, Kept
<1>2. job[w].event \in Events
  BY DEF TypeOK, Job
<1>3. audit' \subseteq Events
  BY <1>2 DEF Log, TypeOK
<1>4. \E j \in Job : Become(w, j) /\ JobSound(receipt', j)
  BY AfterLogSound DEF Log
<1>5. receipt' \in [Keys -> Receipt \cup {NoReceipt}]
  BY <1>1 DEF TypeOK
<1> QED BY <1>1, <1>3, <1>4, <1>5, JobStep DEF Log

LEMMA ReconcileStep ==
    ASSUME TypeOK, IInv, NEW w \in Workers, Reconcile(w)
    PROVE  TypeOK' /\ IInv'
<1> DEFINE j == [Idle EXCEPT !.pc = "countBatch", !.row = rollout]
<1>1. j \in Job /\ j.pc = "countBatch" /\ j.row = rollout
  BY IdleType DEF Job, Statement, TypeOK
<1>2. JobSound(receipt, j)
  BY <1>1 DEF JobSound, IInv, Reconcile
<1> QED BY <1>1, <1>2, QuietStep DEF Reconcile

LEMMA CountBatchStep ==
    ASSUME TypeOK, IInv, NEW w \in Workers, CountBatch(w)
    PROVE  TypeOK' /\ IInv'
<1> DEFINE row == job[w].row
           B == Batch(row.batch)
           done == B # {} /\ \A d \in B : target[d].status \in Finished
           j == [job[w] EXCEPT !.pc = "countAll", !.row = Counted(row, B), !.done = done]
<1>1. job[w] \in Job /\ row \in Rollout /\ JobSound(receipt, job[w]) /\ job[w].pc = "countBatch"
  BY DEF CountBatch, TypeOK, IInv, Job
<1>2. B \in SUBSET Devices
  BY DEF Batch
<1>3. /\ Counted(row, B) \in Rollout
      /\ Counted(row, B).status = row.status
      /\ Counted(row, B).batch = row.batch
  BY <1>1, <1>2, CountedType
<1>4. RowSound(receipt, Counted(row, B)) /\ row.status \in {"running", "rolling_back"}
  BY <1>1, <1>3 DEF JobSound, RowSound
<1>5. done => \A d \in B : Heard(receipt, d)
  BY <1>2 DEF IInv, TargetSound
<1>6. done \in BOOLEAN /\ Become(w, j) /\ UNCHANGED store
  BY DEF CountBatch
<1> HIDE DEF done
<1>7. j \in Job /\ j.pc = "countAll" /\ j.row = Counted(row, B) /\ j.done = done
  BY <1>1, <1>3, <1>6 DEF Job, Statement
<1>8. JobSound(receipt, j)
  BY <1>3, <1>4, <1>5, <1>7 DEF JobSound
<1> QED BY <1>6, <1>7, <1>8, QuietStep

\* A reconciliation that has counted, whichever counters it ends up with: the
\* batch it advances past, or completes with, is one whose devices were heard.
LEMMA ConcludeStep ==
    ASSUME TypeOK, IInv, NEW w \in Workers, UNCHANGED store, job[w].pc = "countAll",
           NEW row \in Rollout, row.status = job[w].row.status, row.batch = job[w].row.batch,
           AutoPause(w, row) \/ Proceed(w, row)
    PROVE  TypeOK' /\ IInv'
<1>1. job[w] \in Job /\ JobSound(receipt, job[w])
  BY DEF TypeOK, IInv
<1>2. RowSound(receipt, row) /\ row.status \in {"running", "rolling_back"} /\ row.batch > 0
  BY <1>1 DEF JobSound, RowSound
<1>3. job[w].done => \A d \in Batch(row.batch) : Heard(receipt, d)
  BY <1>1 DEF JobSound
<1>4. row.batch \in Nat /\ MaxBatch \in Nat
  BY BatchNumberRange DEF Rollout
<1>5. job[w].done => HeardBefore(receipt, row.batch + 1)
  <2> SUFFICES ASSUME job[w].done, NEW d \in Devices, BatchNumber(d) < row.batch + 1
               PROVE  Heard(receipt, d)
    BY DEF HeardBefore
  <2>1. CASE BatchNumber(d) < row.batch
    BY <2>1, <1>2 DEF RowSound, HeardBefore
  <2>2. CASE ~(BatchNumber(d) < row.batch)
    <3>1. BatchNumber(d) = row.batch
      BY <2>2, <1>4, BatchZero
    <3> QED BY <3>1, <1>3 DEF Batch
  <2> QED BY <2>1, <2>2
<1>6. CASE AutoPause(w, row)
  <2> DEFINE next == [row EXCEPT !.status = "paused"]
  <2>1. next \in Rollout /\ next.status = "paused" /\ next.batch = row.batch
    BY DEF Rollout, RolloutStatus
  <2>2. RowSound(receipt, next)
    BY <1>2, <2>1 DEF RowSound
  <2>3. Become(w, Writing(next, "rollout.auto_paused"))
    BY <1>6 DEF AutoPause
  <2> HIDE DEF next
  <2> QED BY <2>1, <2>2, <2>3, WriteStep DEF Events
<1>7. CASE KeepCounts(w, row)
  BY <1>2, <1>7, WriteStep DEF KeepCounts, Events
<1>8. CASE FinishRollback(w, row)
  <2> DEFINE next == [row EXCEPT !.status = "rolled_back"]
  <2>1. next \in Rollout /\ next.status = "rolled_back" /\ next.batch = row.batch
    BY DEF Rollout, RolloutStatus
  <2>2. RowSound(receipt, next)
    BY <1>2, <2>1 DEF RowSound
  <2>3. Become(w, Writing(next, NoEvent))
    BY <1>8 DEF FinishRollback
  <2> HIDE DEF next
  <2> QED BY <2>1, <2>2, <2>3, WriteStep DEF Events
<1>9. CASE AdvanceBatch(w, row)
  <2> DEFINE next == [row EXCEPT !.batch = @ + 1]
             j == [Idle EXCEPT !.pc = "list", !.row = next]
  <2>1. job[w].done /\ row.status = "running" /\ row.batch < MaxBatch /\ Become(w, j)
    BY <1>2, <1>9 DEF AdvanceBatch
  <2>2. next \in Rollout /\ next.status = row.status /\ next.batch = row.batch + 1
    BY <1>4, <2>1 DEF Rollout
  <2>3. RowSound(receipt, next)
    BY <1>4, <1>5, <2>1, <2>2 DEF RowSound
  <2> HIDE DEF next
  <2>4. j \in Job /\ j.pc = "list" /\ j.row = next
    BY <2>2, IdleType DEF Job, Statement
  <2>5. JobSound(receipt, j)
    BY <2>1, <2>2, <2>3, <2>4 DEF JobSound
  <2> QED BY <2>1, <2>4, <2>5, QuietStep
<1>10. CASE Complete(w, row)
  <2> DEFINE next == [row EXCEPT !.status = "completed"]
  <2>1. job[w].done /\ row.batch >= MaxBatch /\ Become(w, Writing(next, "rollout.completed"))
    BY <1>10 DEF Complete
  <2>2. next \in Rollout /\ next.status = "completed" /\ next.batch = row.batch
    BY DEF Rollout, RolloutStatus
  <2>3. \A d \in Devices : BatchNumber(d) < row.batch + 1
    BY <1>4, <2>1, BatchZero
  <2>4. \A d \in Devices : Heard(receipt, d)
    BY <1>5, <2>1, <2>3 DEF HeardBefore
  <2>5. RowSound(receipt, next)
    BY <1>2, <2>2, <2>4 DEF RowSound, HeardBefore
  <2> HIDE DEF next
  <2> QED BY <2>1, <2>2, <2>5, WriteStep DEF Events
<1> QED BY <1>6, <1>7, <1>8, <1>9, <1>10 DEF Proceed

LEMMA CountAllStep ==
    ASSUME TypeOK, IInv, NEW w \in Workers,
           CountAll(w) \/ CountAllFails(w) \/ RuleFails(w)
    PROVE  TypeOK' /\ IInv'
<1>1. job[w].row \in Rollout /\ job[w].pc = "countAll" /\ UNCHANGED store
  BY DEF TypeOK, Job, CountAll, CountAllFails, RuleFails
<1> DEFINE all == Counted(job[w].row, Devices)
<1>2. all \in Rollout /\ all.status = job[w].row.status /\ all.batch = job[w].row.batch
  BY <1>1, CountedType
<1>3. \/ AutoPause(w, all) \/ Proceed(w, all)
      \/ AutoPause(w, job[w].row) \/ Proceed(w, job[w].row)
  BY DEF CountAll, CountAllFails, RuleFails, Conclude
<1> HIDE DEF all
<1>4. CASE AutoPause(w, all) \/ Proceed(w, all)
  BY <1>1, <1>2, <1>4, ConcludeStep
<1>5. CASE AutoPause(w, job[w].row) \/ Proceed(w, job[w].row)
  BY <1>1, <1>5, ConcludeStep
<1> QED BY <1>3, <1>4, <1>5

LEMMA PullStep ==
    ASSUME TypeOK, IInv, NEW w \in Workers, NEW d \in Devices, Pull(w, d)
    PROVE  TypeOK' /\ IInv'
<1> DEFINE j == [Idle EXCEPT !.pc = "fetch", !.dev = d]
<1>1. j \in Job
  BY IdleType DEF Job, Statement
<1>2. JobSound(receipt, j)
  BY IdleSound DEF JobSound, Idle
<1> QED BY <1>1, <1>2, QuietStep DEF Pull

LEMMA FetchTargetStep ==
    ASSUME TypeOK, IInv, NEW w \in Workers, FetchTarget(w)
    PROVE  TypeOK' /\ IInv'
<1> DEFINE t == target[job[w].dev]
           j == [job[w] EXCEPT !.pc = "deliver", !.cfg = t.desired]
<1>1. job[w] \in Job /\ JobSound(receipt, job[w]) /\ job[w].dev \in Devices
  BY DEF TypeOK, IInv, Job
<1>2. t \in Target /\ TargetSound(receipt, job[w].dev, t) /\ UNCHANGED store
  BY <1>1 DEF TypeOK, IInv, FetchTarget
<1>3. CASE Become(w, Idle)
  BY <1>2, <1>3, RestStep
<1>4. CASE t.status \in {"ready", "rollback_pending"} /\ Become(w, j)
  <2>1. j \in Job /\ j.pc = "deliver" /\ j.dev = job[w].dev /\ j.row = job[w].row
    BY <1>1, <1>2 DEF Job, Target, Statement
  <2>2. Heard(receipt, j.dev) \/ HeardBefore(receipt, BatchNumber(j.dev))
    BY <1>2, <1>4, <2>1 DEF TargetSound
  <2>3. JobSound(receipt, j)
    BY <1>1, <2>1, <2>2 DEF JobSound
  <2> QED BY <1>2, <1>4, <2>1, <2>3, QuietStep
<1> QED BY <1>3, <1>4 DEF FetchTarget

LEMMA DeliverStep ==
    ASSUME TypeOK, IInv, NEW w \in Workers, Deliver(w)
    PROVE  TypeOK' /\ IInv'
<1> DEFINE t == [status |-> "delivered", desired |-> job[w].cfg]
<1>1. job[w] \in Job /\ JobSound(receipt, job[w]) /\ job[w].dev \in Devices
  BY DEF TypeOK, IInv, Job
<1>2. t \in Target
  BY <1>1 DEF Target, TargetStatus, Job
<1>3. TargetSound(receipt, job[w].dev, t)
  BY <1>1 DEF Deliver, JobSound, TargetSound, Outcomes, Finished
<1>4. /\ target' = [target EXCEPT ![job[w].dev] = t]
      /\ Become(w, Idle)
      /\ UNCHANGED <<rollout, receipt, current, audit, due>>
  BY DEF Deliver
<1> HIDE DEF t
<1> QED BY <1>1, <1>2, <1>3, <1>4, IdleType, IdleSound, TargetStep

LEMMA SubmitStep ==
    ASSUME TypeOK, IInv, NEW w \in Workers,
           NEW d \in Devices, NEW k \in Keys, NEW o \in Outcomes, Submit(w, d, k, o)
    PROVE  TypeOK' /\ IInv'
<1> DEFINE j == [Idle EXCEPT !.pc = "insert", !.dev = d, !.key = k,
                             !.cfg = target[d].desired, !.outcome = o]
<1>1. target[d].desired \in Configurations
  BY DEF TypeOK, Target
<1>2. j \in Job
  BY <1>1, IdleType DEF Job, Statement
<1>3. JobSound(receipt, j)
  BY IdleSound DEF JobSound, Idle
<1> QED BY <1>2, <1>3, QuietStep DEF Submit

LEMMA InsertReceiptStep ==
    ASSUME TypeOK, IInv, NEW w \in Workers, InsertReceipt(w)
    PROVE  TypeOK' /\ IInv'
<1> DEFINE k == job[w].key
           j == [job[w] EXCEPT !.pc = "ack"]
<1>1. job[w] \in Job /\ JobSound(receipt, job[w]) /\ k \in Keys
  BY DEF InsertReceipt, TypeOK, IInv, JobSound
<1>2. ReceiptOf(job[w]) \in Receipt /\ ReceiptOf(j) = ReceiptOf(job[w])
  BY <1>1, ReceiptType DEF ReceiptOf, Job
<1>3. CASE receipt[k] # NoReceipt
  BY <1>3, RestStep DEF InsertReceipt, store
<1>4. CASE receipt[k] = NoReceipt
  <2>1. receipt' = [receipt EXCEPT ![k] = ReceiptOf(job[w])] /\ Become(w, j)
    BY <1>4 DEF InsertReceipt
  <2>2. receipt' \in [Keys -> Receipt \cup {NoReceipt}]
    BY <1>2, <2>1 DEF TypeOK
  <2>3. Kept(receipt, receipt')
    BY <1>4, <2>1 DEF Kept, TypeOK
  <2>4. Stored(receipt', ReceiptOf(j))
    BY <1>1, <1>2, <2>1 DEF Stored, TypeOK
  <2>5. j \in Job /\ j.pc = "ack" /\ j.row = job[w].row
    BY <1>1 DEF Job, Statement
  <2>6. RowSound(receipt', j.row)
    BY <1>1, <2>3, <2>5, RowKept DEF JobSound
  <2>7. JobSound(receipt', j)
    BY <2>4, <2>5, <2>6 DEF JobSound
  <2>8. UNCHANGED <<rollout, target, current, due>> /\ audit' \subseteq Events
    BY DEF InsertReceipt, TypeOK
  <2> HIDE DEF j
  <2> QED BY <2>1, <2>2, <2>3, <2>5, <2>7, <2>8, JobStep
<1> QED BY <1>3, <1>4

LEMMA AckTargetStep ==
    ASSUME TypeOK, IInv, NEW w \in Workers, AckTarget(w)
    PROVE  TypeOK' /\ IInv'
<1> DEFINE d == job[w].dev
           t == [status |-> job[w].outcome, desired |-> job[w].cfg]
           j == IF job[w].outcome = "succeeded" THEN [job[w] EXCEPT !.pc = "record"]
                                                ELSE Logging("receipt.accepted")
<1>1. job[w] \in Job /\ JobSound(receipt, job[w]) /\ job[w].pc = "ack" /\ d \in Devices
  BY DEF AckTarget, TypeOK, IInv, Job
<1>2. t \in Target /\ t.status \in Outcomes
  BY <1>1 DEF Target, TargetStatus, Job, Outcomes
<1>3. Stored(receipt, [dev |-> d, cfg |-> t.desired, outcome |-> t.status])
  BY <1>1 DEF JobSound, ReceiptOf
<1>4. Heard(receipt, d)
  <2>1. [dev |-> d, cfg |-> t.desired, outcome |-> t.status] \in Receipt
    BY <1>1, <1>2, ReceiptType DEF Job
  <2> QED BY <1>3, <2>1, NameAssumption DEF Stored, Heard
<1>5. TargetSound(receipt, d, t)
  BY <1>2, <1>3, <1>4 DEF TargetSound, Outcomes
<1>6. j \in Job /\ JobSound(receipt, j)
  <2>1. CASE job[w].outcome = "succeeded"
    <3> DEFINE n == [job[w] EXCEPT !.pc = "record"]
    <3>1. n \in Job /\ n.pc = "record" /\ n.row = job[w].row /\ n.outcome = "succeeded"
      BY <1>1, <2>1 DEF Job, Statement
    <3>2. ReceiptOf(n) = ReceiptOf(job[w])
      BY <1>1 DEF ReceiptOf, Job
    <3>3. JobSound(receipt, n)
      BY <1>1, <3>1, <3>2 DEF JobSound
    <3> QED BY <2>1, <3>1, <3>3
  <2>2. CASE job[w].outcome # "succeeded"
    BY <2>2, LoggingType, LoggingSound DEF Events
  <2> QED BY <2>1, <2>2
<1>7. /\ target' = [target EXCEPT ![d] = t]
      /\ Become(w, j)
      /\ UNCHANGED <<rollout, receipt, current, audit, due>>
  BY DEF AckTarget
<1> HIDE DEF t, j
<1> QED BY <1>1, <1>2, <1>5, <1>6, <1>7, TargetStep

LEMMA RecordDeviceStep ==
    ASSUME TypeOK, IInv, NEW w \in Workers, RecordDevice(w)
    PROVE  TypeOK' /\ IInv'
<1> DEFINE d == job[w].dev
           c == job[w].cfg
<1>1. job[w] \in Job /\ JobSound(receipt, job[w]) /\ d \in Devices /\ c \in Configurations
  BY DEF TypeOK, IInv, Job
<1>2. CurrentSound(receipt, d, c)
  BY <1>1 DEF RecordDevice, JobSound, ReceiptOf, CurrentSound
<1>3. /\ current' = [current EXCEPT ![d] = c]
      /\ Become(w, Logging("receipt.accepted"))
      /\ UNCHANGED <<rollout, target, receipt, audit, due>>
  BY DEF RecordDevice
<1>4. Logging("receipt.accepted") \in Job /\ JobSound(receipt, Logging("receipt.accepted"))
  BY LoggingType, LoggingSound DEF Events
<1>5. TypeOK'
  BY <1>1, <1>3, <1>4 DEF TypeOK, Become
<1>6. \A e \in Devices : CurrentSound(receipt', e, current'[e])
  BY <1>2, <1>3 DEF TypeOK, IInv
<1>7. \A v \in Workers : JobSound(receipt', job'[v])
  BY <1>3, <1>4 DEF TypeOK, IInv, Become
<1> QED BY <1>3, <1>5, <1>6, <1>7 DEF IInv

LEMMA FaultStep ==
    ASSUME TypeOK, IInv, NEW w \in Workers, Fault(w)
    PROVE  TypeOK' /\ IInv'
<1>1. CASE Abort(w)
  BY <1>1, RestStep DEF Abort
<1>2. CASE CountAllFails(w) \/ RuleFails(w)
  BY <1>2, CountAllStep
<1>3. CASE SaveFails(w)
  BY <1>3, RestStep DEF SaveFails, Events
<1>4. CASE LogFails(w)
  BY <1>4, AfterLogSound, QuietStep DEF LogFails
<1>5. CASE RecordFails(w)
  BY <1>5, RestStep DEF RecordFails, Events
<1> QED BY <1>1, <1>2, <1>3, <1>4, <1>5 DEF Fault

-----------------------------------------------------------------------------
(* The theorems.                                                           *)

LEMMA InitSound == Init => TypeOK /\ IInv
<1> SUFFICES ASSUME Init PROVE TypeOK /\ IInv
  OBVIOUS
<1>1. TypeOK
  BY IdleType DEF Init, TypeOK, Idle, Job, Target, TargetStatus, Configurations
<1>2. RowSound(receipt, rollout) /\ \A w \in Workers : JobSound(receipt, job[w])
  BY IdleSound DEF Init, JobSound, Idle
<1>3. \A d \in Devices : TargetSound(receipt, d, target[d])
  BY DEF Init, TargetSound, Outcomes, Finished
<1>4. \A d \in Devices : CurrentSound(receipt, d, current[d])
  BY DEF Init, CurrentSound
<1> QED BY <1>1, <1>2, <1>3, <1>4 DEF IInv

LEMMA NextSound == TypeOK /\ IInv /\ [Next]_vars => TypeOK' /\ IInv'
<1> SUFFICES ASSUME TypeOK, IInv, [Next]_vars PROVE TypeOK' /\ IInv'
  OBVIOUS
<1>1. ASSUME NEW w \in Workers, Begin(w) PROVE TypeOK' /\ IInv'
  BY <1>1, ScheduleStep, StartStep, PauseStep, CancelStep, RollbackStep, ReconcileStep,
     PullStep, SubmitStep
  DEF Begin
<1>2. ASSUME NEW w \in Workers, Continue(w) PROVE TypeOK' /\ IInv'
  BY <1>2, StartStep, RefusedStep, ListStep, MarkTargetStep, SaveRolloutStep, LogStep,
     ReconcileStep, CountBatchStep, CountAllStep, FetchTargetStep, DeliverStep,
     InsertReceiptStep, AckTargetStep, RecordDeviceStep
  DEF Continue
<1>3. ASSUME NEW w \in Workers, Fault(w) PROVE TypeOK' /\ IInv'
  BY <1>3, FaultStep
<1>4. CASE TimePasses
  BY <1>4 DEF TimePasses, TypeOK, IInv
<1>5. CASE UNCHANGED vars
  BY <1>5 DEF vars, TypeOK, IInv
<1> QED BY <1>1, <1>2, <1>3, <1>4, <1>5 DEF Next

\* Every variable keeps its type, and the inductive invariant holds, in every
\* reachable state, for any number of devices, batches, keys and workers.
THEOREM TypeAndInvariant == Spec => [](TypeOK /\ IInv)
  BY InitSound, NextSound, PTL DEF Spec

\* Every variable keeps its type.
THEOREM TypeCorrect == Spec => []TypeOK
  BY TypeAndInvariant, PTL

LEMMA Reading == IInv => BatchGating /\ CompletedReported /\ OutcomeBacked /\ CurrentBacked
<1> SUFFICES ASSUME IInv PROVE BatchGating /\ CompletedReported /\ OutcomeBacked /\ CurrentBacked
  OBVIOUS
<1>1. \A d : Reported(d) <=> Heard(receipt, d)
  BY DEF Reported, Heard
<1>2. \A b : HeardBefore(receipt, b) => ReportedBefore(b)
  BY <1>1 DEF ReportedBefore, HeardBefore
<1>3. BatchGating
  BY <1>1, <1>2 DEF BatchGating, IInv, TargetSound
<1>4. CompletedReported
  BY <1>1 DEF CompletedReported, IInv, RowSound
<1>5. OutcomeBacked
  BY DEF OutcomeBacked, IInv, TargetSound, Stored
<1>6. CurrentBacked
  BY DEF CurrentBacked, IInv, CurrentSound, Stored
<1> QED BY <1>3, <1>4, <1>5, <1>6

\* No batch is opened before every device of the earlier ones has reported,
\* whatever handlers overlap, fail or overwrite one another's rows.
THEOREM GatingHolds == Spec => []BatchGating
  BY TypeAndInvariant, Reading, PTL

\* A rollout is completed only when all its devices have reported.
THEOREM CompletionHolds == Spec => []CompletedReported
  BY TypeAndInvariant, Reading, PTL

\* A target's outcome is always that of a stored receipt of its device.
THEOREM OutcomeHolds == Spec => []OutcomeBacked
  BY TypeAndInvariant, Reading, PTL

\* A device's recorded configuration is one that it reported success for.
THEOREM CurrentHolds == Spec => []CurrentBacked
  BY TypeAndInvariant, Reading, PTL
=============================================================================
