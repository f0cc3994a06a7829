------------------------ MODULE RolloutOverlapProofs ------------------------
(***************************************************************************)
(* Theorems about RolloutOverlap, for any devices, batches, pages, rules,  *)
(* workers, keys and calls, with handlers that overlap and fail between    *)
(* any two statements.  They assume nothing about the order of the steps.  *)
(***************************************************************************)
EXTENDS RolloutOverlap, RolloutControlProofs

\* The history variables restrict no step and add none.
LEMMA OverlapIsControl == OverlapSpec => Spec
<1>1. OverlapInit => Init
  BY DEF OverlapInit
<1>2. [Next /\ Record]_overlapVars => [Next]_vars
  BY DEF overlapVars
<1> QED BY <1>1, <1>2, PTL DEF OverlapSpec, Spec

-----------------------------------------------------------------------------
(* Copies of the row: the inductive invariant, beside that of              *)
(* RolloutControlProofs.                                                   *)

\* How the row a handler is going to save may differ from the stored one.
Follows(r, row) ==
    \/ /\ row.batch = r.batch
       /\ \/ r.status \in {"running", "rolling_back"} /\ row.status \in {r.status, "paused"}
          \/ r.status = "paused" /\ row.status = "running"
          \/ r.status \notin TerminalStatus /\ row.status = "cancelled"
          \/ r.status \in {"paused", "failed", "completed"} /\ row.status = "rolling_back"
          \/ r.status = "rolling_back" /\ row.status = "rolled_back"
          \/ r.status = "running" /\ row.status = "completed" /\ row.batch = MaxBatch
    \/ r.status = "draft" /\ row.status = "running" /\ row.batch = 1
    \/ r.status = "running" /\ row.status = "running" /\ row.batch = r.batch + 1

\* A draft has no batch.  Every row is like that, also one that is outdated.
Steady(r) == r.status = "draft" => r.batch = 0

\* What a handler has read of the row still holds of it.
RowFresh(r, j) ==
    /\ j.pc \in Decided => Follows(r, j.row)
    /\ j.pc \in {"countBatch", "countAll"} => j.row.status = r.status /\ j.row.batch = r.batch

CopyInv ==
    /\ Steady(rollout)
    /\ \A w \in Workers : /\ Steady(job[w].row)
                          /\ w \notin outdated => RowFresh(rollout, job[w])

LEMMA BecomeStep ==
    ASSUME TypeOK, NEW w \in Workers, NEW j, Become(w, j)
    PROVE  job'[w] = j /\ \A v \in Workers \ {w} : job'[v] = job[v]
  BY DEF Become, TypeOK

LEMMA RowType == TypeOK => rollout \in Rollout /\ \A w \in Workers : job[w] \in Job /\ job[w].row \in Rollout
  BY DEF TypeOK, Job

LEMMA BatchType == TypeOK => rollout.batch \in Int /\ rollout.batch >= 0 /\ rollout.batch <= MaxBatch /\ MaxBatch \in Int
  BY BatchNumberRange, RowType DEF Rollout

\* Who is not outdated by a step was not before it, and the step leaves the
\* status and the batch, unless there is no copy any more.
LEMMA StillCurrent ==
    ASSUME Record, NEW v \in Workers, v \notin outdated', job'[v].pc \in HoldsRow
    PROVE  v \notin outdated /\ rollout'.status = rollout.status /\ rollout'.batch = rollout.batch
  BY DEF Record, Moved

\* Jobs that hold no copy.
LEMMA RestFresh ==
    ASSUME NEW r, NEW j, j.pc \notin HoldsRow
    PROVE  RowFresh(r, j)
  BY DEF RowFresh, HoldsRow, Decided

\* One handler goes on with a fresh job, and the rollout's row is untouched.
LEMMA NextCopy ==
    ASSUME TypeOK, CopyInv, Record, NEW w \in Workers, NEW j, Become(w, j), rollout' = rollout,
           Steady(j.row), w \notin outdated => RowFresh(rollout, j)
    PROVE  CopyInv'
<1>1. ASSUME NEW v \in Workers
      PROVE  /\ Steady(job'[v].row)
             /\ v \notin outdated' => RowFresh(rollout, job'[v])
  <2>1. Steady(job'[v].row) /\ (v \notin outdated => RowFresh(rollout, job'[v]))
    BY BecomeStep DEF CopyInv
  <2> QED BY <2>1, StillCurrent, RestFresh
<1> QED BY <1>1 DEF CopyInv

LEMMA IdleRow ==
    /\ Idle.row.status = "draft" /\ Idle.row.batch = 0 /\ Idle.pc = "idle"
    /\ \A e : Logging(e).row = Idle.row /\ Logging(e).pc = "log"
  BY DEF Idle, Draft, Logging

LEMMA IdleFresh ==
    ASSUME NEW r, NEW j, j = Idle \/ \E e : j \in {Logging(e), Written(e), AfterLog(e)}
    PROVE  Steady(j.row) /\ RowFresh(r, j) /\ j.pc \notin HoldsRow
<1> DEFINE again == [Idle EXCEPT !.pc = "reconcile"]
<1>1. again.pc = "reconcile" /\ again.row = Idle.row
  BY DEF Idle
<1>2. j.row = Idle.row /\ j.pc \in {"idle", "log", "reconcile"}
  BY <1>1, IdleRow DEF Written, AfterLog
<1> QED BY <1>2, IdleRow, RestFresh DEF HoldsRow, Steady

LEMMA WritingJob ==
    ASSUME NEW row, NEW e
    PROVE  Writing(row, e).pc = "write" /\ Writing(row, e).row = row /\ Writing(row, e).todo = {}
  BY DEF Writing, Idle

-----------------------------------------------------------------------------
(* The scheduler and the operator's calls.                                 *)

\* A new job that has read no row.
LEMMA NewCopy ==
    ASSUME TypeOK, CopyInv, Record, NEW w \in Workers, NEW j, Become(w, j), rollout' = rollout,
           j.row = Idle.row, j.pc \notin HoldsRow
    PROVE  CopyInv'
  BY IdleRow, RestFresh, NextCopy DEF Steady

LEMMA ScheduleCopy ==
    ASSUME TypeOK, CopyInv, Record, NEW w \in Workers, Schedule(w)
    PROVE  CopyInv'
<1> DEFINE j == [Idle EXCEPT !.pc = IF rollout.status = "draft" THEN "start" ELSE "reconcile"]
<1>1. j.pc \notin HoldsRow /\ j.row = Idle.row
  BY DEF Idle, HoldsRow
<1>2. Become(w, j) /\ rollout' = rollout
  BY DEF Schedule, store
<1> HIDE DEF j
<1> QED BY <1>1, <1>2, NewCopy

\* A start opens the first batch or none.
LEMMA StartJob ==
    ASSUME TypeOK, CopyInv, NEW w \in Workers, Start(w)
    PROVE  LET j == [Idle EXCEPT !.pc = "list", !.row = StartedRow, !.event = "rollout.started"]
           IN  /\ Become(w, j) /\ UNCHANGED store
               /\ j.pc = "list" /\ j.row.status = "running" /\ Follows(rollout, j.row)
               /\ rollout.status \in {"draft", "paused"}
               /\ rollout.batch = 0 \/ j.row.batch = rollout.batch
<1>1. rollout \in Rollout /\ rollout.status \in {"draft", "paused"}
  BY RowType DEF Start
<1>2. /\ StartedRow.status = "running"
      /\ StartedRow.batch = IF rollout.status = "draft" THEN 1 ELSE rollout.batch
  BY <1>1 DEF StartedRow, Rollout
<1>3. Follows(rollout, StartedRow)
  BY <1>1, <1>2 DEF Follows
<1>4. rollout.batch = 0 \/ StartedRow.batch = rollout.batch
  BY <1>2 DEF CopyInv, Steady
<1> QED BY <1>1, <1>2, <1>3, <1>4 DEF Start, Idle

LEMMA StartCopy ==
    ASSUME TypeOK, CopyInv, Record, NEW w \in Workers, Start(w)
    PROVE  CopyInv'
<1> DEFINE j == [Idle EXCEPT !.pc = "list", !.row = StartedRow, !.event = "rollout.started"]
<1>1. Become(w, j) /\ UNCHANGED store /\ j.pc = "list" /\ j.row.status = "running" /\ Follows(rollout, j.row)
  BY StartJob
<1> HIDE DEF j
<1>2. RowFresh(rollout, j) /\ Steady(j.row)
  BY <1>1 DEF RowFresh, Steady
<1> QED BY <1>1, <1>2, NextCopy DEF store

\* A status that a copy is to be saved with, nothing else being done before.
LEMMA StatusCopy ==
    ASSUME TypeOK, CopyInv, Record, NEW w \in Workers, rollout' = rollout,
           NEW row \in Rollout, NEW status \in {"paused", "cancelled"}, NEW e,
           w \notin outdated =>
              /\ row.batch = rollout.batch
              /\ status = "paused" => rollout.status \in {"running", "rolling_back"}
              /\ status = "cancelled" => rollout.status \notin TerminalStatus,
           Become(w, Writing([row EXCEPT !.status = status], e))
    PROVE  CopyInv'
<1> DEFINE saved == [row EXCEPT !.status = status]
<1>1. saved.status = status /\ saved.batch = row.batch
  BY DEF Rollout
<1>2. Become(w, Writing(saved, e))
  OBVIOUS
<1> HIDE DEF saved
<1>3. w \notin outdated => Follows(rollout, saved)
  BY <1>1 DEF Follows
<1>4. w \notin outdated => RowFresh(rollout, Writing(saved, e))
  BY <1>3, WritingJob DEF RowFresh
<1>5. Steady(Writing(saved, e).row)
  BY <1>1, WritingJob DEF Steady
<1> QED BY <1>2, <1>4, <1>5, NextCopy

LEMMA PauseCopy ==
    ASSUME TypeOK, CopyInv, Record, NEW w \in Workers, Pause(w)
    PROVE  CopyInv'
  BY RowType, StatusCopy DEF Pause, store

LEMMA CancelCopy ==
    ASSUME TypeOK, CopyInv, Record, NEW w \in Workers, Cancel(w)
    PROVE  CopyInv'
  BY RowType, StatusCopy DEF Cancel, store

LEMMA RollbackJob ==
    ASSUME TypeOK, NEW w \in Workers, Rollback(w)
    PROVE  LET j == [Idle EXCEPT !.pc = "list",
                                 !.row = [rollout EXCEPT !.status = "rolling_back"],
                                 !.event = "rollout.rollback_started"]
           IN  /\ Become(w, j) /\ UNCHANGED store
               /\ j.pc = "list" /\ j.row.status = "rolling_back" /\ j.row.batch = rollout.batch
               /\ rollout.status \in {"paused", "failed", "completed"}
<1>1. rollout \in Rollout
  BY RowType
<1> QED BY <1>1 DEF Rollback, Idle, Rollout

LEMMA RollbackCopy ==
    ASSUME TypeOK, CopyInv, Record, NEW w \in Workers, Rollback(w)
    PROVE  CopyInv'
<1> DEFINE j == [Idle EXCEPT !.pc = "list",
                             !.row = [rollout EXCEPT !.status = "rolling_back"],
                             !.event = "rollout.rollback_started"]
<1>1. /\ Become(w, j) /\ UNCHANGED store
      /\ j.pc = "list" /\ j.row.status = "rolling_back" /\ j.row.batch = rollout.batch
      /\ rollout.status \in {"paused", "failed", "completed"}
  BY RollbackJob
<1> HIDE DEF j
<1>2. Follows(rollout, j.row) /\ Steady(j.row)
  BY <1>1 DEF Follows, Steady
<1>3. RowFresh(rollout, j)
  BY <1>1, <1>2 DEF RowFresh
<1> QED BY <1>1, <1>2, <1>3, NextCopy DEF store

LEMMA ReconcileCopy ==
    ASSUME TypeOK, CopyInv, Record, NEW w \in Workers, Reconcile(w)
    PROVE  CopyInv'
<1> DEFINE j == [Idle EXCEPT !.pc = "countBatch", !.row = rollout]
<1>1. j.pc = "countBatch" /\ j.row = rollout
  BY DEF Idle
<1>2. Become(w, j) /\ rollout' = rollout
  BY DEF Reconcile, store
<1> HIDE DEF j
<1>3. RowFresh(rollout, j) /\ Steady(j.row)
  BY <1>1 DEF RowFresh, Decided, CopyInv
<1> QED BY <1>2, <1>3, NextCopy

-----------------------------------------------------------------------------
(* Lists, writes and counts.                                               *)

\* A job that goes on keeps its row, and where it held a copy it still does.
LEMMA GoesOnCopy ==
    ASSUME TypeOK, CopyInv, Record, NEW w \in Workers, NEW j, Become(w, j), rollout' = rollout,
           j.row = job[w].row, j.pc \in Decided => job[w].pc \in Decided,
           j.pc \notin {"countBatch", "countAll"}
    PROVE  CopyInv'
<1>1. Steady(j.row) /\ (w \notin outdated => RowFresh(rollout, j))
  BY DEF CopyInv, RowFresh
<1> QED BY <1>1, NextCopy

LEMMA ListJob ==
    ASSUME TypeOK, NEW w \in Workers, List(w)
    PROVE  \E j : /\ Become(w, j) /\ UNCHANGED store /\ job[w].pc = "list"
                  /\ j.pc = "write" /\ j.row = job[w].row /\ j.todo = Listed(job[w].row)
<1> DEFINE j == [job[w] EXCEPT !.pc = "write", !.todo = Listed(job[w].row)]
<1>1. job[w] \in Job
  BY RowType
<1>2. j.pc = "write" /\ j.row = job[w].row /\ j.todo = Listed(job[w].row)
  BY <1>1 DEF Job
<1>3. Become(w, j) /\ UNCHANGED store /\ job[w].pc = "list"
  BY DEF List
<1> HIDE DEF j
<1> QED BY <1>2, <1>3

LEMMA ListCopy ==
    ASSUME TypeOK, CopyInv, Record, NEW w \in Workers, List(w)
    PROVE  CopyInv'
  BY ListJob, GoesOnCopy DEF Decided, store

LEMMA MarkTargetJob ==
    ASSUME TypeOK, NEW w \in Workers, MarkTarget(w)
    PROVE  /\ rollout' = rollout /\ job[w].pc = "write"
           /\ \E d, j :
                 /\ Become(w, j) /\ d \in Devices /\ d \in job[w].todo
                 /\ target' = [target EXCEPT ![d] = Marked(job[w].row)]
                 /\ j.pc = "write" /\ j.row = job[w].row /\ j.todo = job[w].todo \ {d}
<1>1. job[w] \in Job /\ job[w].pc = "write" /\ rollout' = rollout
  BY RowType DEF MarkTarget
<1>2. PICK d \in job[w].todo :
          /\ target' = [target EXCEPT ![d] = Marked(job[w].row)]
          /\ Become(w, [job[w] EXCEPT !.todo = @ \ {d}])
  BY DEF MarkTarget
<1> DEFINE j == [job[w] EXCEPT !.todo = @ \ {d}]
<1>3. j.pc = "write" /\ j.row = job[w].row /\ j.todo = job[w].todo \ {d}
  BY <1>1 DEF Job
<1>4. Become(w, j)
  BY <1>2
<1>5. d \in Devices
  BY <1>1 DEF Job
<1> HIDE DEF j
<1> QED BY <1>1, <1>2, <1>3, <1>4, <1>5

LEMMA MarkTargetCopy ==
    ASSUME TypeOK, CopyInv, Record, NEW w \in Workers, MarkTarget(w)
    PROVE  CopyInv'
  BY MarkTargetJob, GoesOnCopy DEF Decided

\* Another handler's copy is untouched by a save of the same status and batch,
\* and outdated by another one.
LEMMA SaveRolloutCopy ==
    ASSUME TypeOK, CopyInv, Record, NEW w \in Workers, SaveRollout(w)
    PROVE  CopyInv'
<1>1. rollout' = job[w].row /\ Become(w, Written(job[w].event))
  BY DEF SaveRollout
<1>2. Steady(rollout')
  BY <1>1 DEF CopyInv
<1>3. ASSUME NEW v \in Workers
      PROVE  /\ Steady(job'[v].row)
             /\ v \notin outdated' => RowFresh(rollout', job'[v])
  <2>1. CASE v = w
    BY <1>1, <2>1, BecomeStep, IdleFresh
  <2>2. CASE v # w
    <3>1. /\ job'[v] = job[v] /\ Steady(job[v].row)
          /\ v \notin outdated => RowFresh(rollout, job[v])
      BY <1>1, <2>2, BecomeStep DEF CopyInv
    <3>2. ASSUME v \notin outdated', job'[v].pc \in HoldsRow PROVE RowFresh(rollout', job'[v])
      <4>1. RowFresh(rollout, job[v]) /\ rollout'.status = rollout.status /\ rollout'.batch = rollout.batch
        BY <3>1, <3>2, StillCurrent
      <4> QED BY <3>1, <4>1 DEF RowFresh, Follows
    <3> QED BY <3>1, <3>2, RestFresh
  <2> QED BY <2>1, <2>2
<1> QED BY <1>2, <1>3 DEF CopyInv

LEMMA CountBatchCopy ==
    ASSUME TypeOK, CopyInv, Record, NEW w \in Workers, CountBatch(w)
    PROVE  CopyInv'
<1> DEFINE row == job[w].row
           B == Batch(row.batch)
           j == [job[w] EXCEPT !.pc = "countAll",
                               !.row = Counted(row, B),
                               !.done = B # {} /\ \A d \in B : target[d].status \in Finished]
<1>1. /\ job[w] \in Job /\ row \in Rollout /\ job[w].pc = "countBatch" /\ Steady(row)
      /\ w \notin outdated => RowFresh(rollout, job[w])
  BY RowType DEF CountBatch, CopyInv
<1>2. B \in SUBSET Devices
  BY DEF Batch
<1>3. Counted(row, B).status = row.status /\ Counted(row, B).batch = row.batch
  BY <1>1, <1>2, CountedType
<1>4. Become(w, j) /\ rollout' = rollout
  BY DEF CountBatch, store
<1>5. j.pc = "countAll" /\ j.row.status = row.status /\ j.row.batch = row.batch
  BY <1>1, <1>3 DEF Job
<1> HIDE DEF j
<1>6. Steady(j.row) /\ (w \notin outdated => RowFresh(rollout, j))
  BY <1>1, <1>5 DEF RowFresh, Decided, Steady
<1> QED BY <1>4, <1>6, NextCopy

\* The row that a reconciliation concludes on, whichever of its counts failed.
LEMMA CountAllRow ==
    ASSUME TypeOK, IInv, CopyInv, NEW w \in Workers, job[w].pc = "countAll", NEW row,
           row \in {job[w].row, Counted(job[w].row, Devices)}
    PROVE  /\ row \in Rollout /\ row.status \in {"running", "rolling_back"}
           /\ w \notin outdated => row.status = rollout.status /\ row.batch = rollout.batch
<1>1. /\ job[w].row \in Rollout /\ JobSound(receipt, job[w])
      /\ w \notin outdated => RowFresh(rollout, job[w])
  BY RowType DEF CopyInv, IInv
<1> QED BY <1>1, CountedType DEF RowFresh, JobSound

\* What a reconciliation goes on to do, if it is to do anything but pause: the
\* row opens a batch, completes the rollout, or is saved as what it was.
LEMMA ProceedJob ==
    ASSUME NEW w \in Workers, NEW row \in Rollout, Proceed(w, row),
           row.status \in {"running", "rolling_back"}
    PROVE  \E j : /\ Become(w, j) /\ j.pc \in Decided /\ Follows(row, j.row)
                  /\ j.row.status \in {row.status, "completed", "rolled_back"}
<1>1. CASE KeepCounts(w, row)
  BY <1>1, WritingJob DEF KeepCounts, Follows, Decided
<1>2. CASE FinishRollback(w, row)
  <2> DEFINE saved == [row EXCEPT !.status = "rolled_back"]
  <2>1. saved.status = "rolled_back" /\ saved.batch = row.batch /\ row.status = "rolling_back"
    BY <1>2 DEF Rollout, FinishRollback
  <2>2. Become(w, Writing(saved, NoEvent))
    BY <1>2 DEF FinishRollback
  <2> HIDE DEF saved
  <2> QED BY <2>1, <2>2, WritingJob DEF Follows, Decided
<1>3. CASE AdvanceBatch(w, row)
  <2> DEFINE saved == [row EXCEPT !.batch = @ + 1]
             j == [Idle EXCEPT !.pc = "list", !.row = saved]
  <2>1. saved.status = "running" /\ saved.batch = row.batch + 1 /\ row.status = "running"
    BY <1>3 DEF Rollout, AdvanceBatch
  <2>2. Become(w, j) /\ j.pc = "list" /\ j.row = saved
    BY <1>3 DEF AdvanceBatch, Idle
  <2> HIDE DEF saved, j
  <2> QED BY <2>1, <2>2 DEF Follows, Decided
<1>4. CASE Complete(w, row)
  <2> DEFINE saved == [row EXCEPT !.status = "completed"]
  <2>1. saved.status = "completed" /\ saved.batch = row.batch
    BY DEF Rollout
  <2>2. row.status = "running" /\ row.batch = MaxBatch
    <3>1. row.batch \in Int /\ MaxBatch \in Int /\ row.batch <= MaxBatch
      BY BatchNumberRange DEF Rollout
    <3> QED BY <1>4, <3>1 DEF Complete
  <2>3. Become(w, Writing(saved, "rollout.completed"))
    BY <1>4 DEF Complete
  <2> HIDE DEF saved
  <2> QED BY <2>1, <2>2, <2>3, WritingJob DEF Follows, Decided
<1> QED BY <1>1, <1>2, <1>3, <1>4 DEF Proceed

LEMMA ConcludeCopy ==
    ASSUME TypeOK, IInv, CopyInv, Record, NEW w \in Workers, job[w].pc = "countAll", UNCHANGED store,
           NEW row \in {job[w].row, Counted(job[w].row, Devices)},
           AutoPause(w, row) \/ Proceed(w, row)
    PROVE  CopyInv'
<1>1. /\ row \in Rollout /\ row.status \in {"running", "rolling_back"} /\ rollout' = rollout
      /\ w \notin outdated => row.status = rollout.status /\ row.batch = rollout.batch
  BY CountAllRow DEF store
<1>2. CASE AutoPause(w, row)
  BY <1>1, <1>2, StatusCopy DEF AutoPause
<1>3. CASE Proceed(w, row)
  <2>1. PICK j : /\ Become(w, j) /\ j.pc \in Decided /\ Follows(row, j.row)
                 /\ j.row.status \in {row.status, "completed", "rolled_back"}
    BY <1>1, <1>3, ProceedJob
  <2>2. Steady(j.row)
    BY <1>1, <2>1 DEF Steady
  <2>3. w \notin outdated => Follows(rollout, j.row)
    BY <1>1, <2>1 DEF Follows
  <2>4. w \notin outdated => RowFresh(rollout, j)
    BY <2>1, <2>3 DEF RowFresh, Decided
  <2> QED BY <1>1, <2>1, <2>2, <2>4, NextCopy
<1> QED BY <1>2, <1>3

LEMMA CountAllCopy ==
    ASSUME TypeOK, IInv, CopyInv, Record, NEW w \in Workers, CountAll(w)
    PROVE  CopyInv'
  BY ConcludeCopy DEF CountAll, Conclude

\* A handler that comes to rest.
LEMMA RestCopy ==
    ASSUME TypeOK, CopyInv, Record, NEW w \in Workers, rollout' = rollout,
           Become(w, Idle) \/ \E e : Become(w, Logging(e)) \/ Become(w, AfterLog(e))
    PROVE  CopyInv'
<1>1. PICK j : Become(w, j) /\ (j = Idle \/ \E e : j \in {Logging(e), Written(e), AfterLog(e)})
  OBVIOUS
<1> QED BY <1>1, IdleFresh, NextCopy

LEMMA FaultCopy ==
    ASSUME TypeOK, IInv, CopyInv, Record, NEW w \in Workers, Fault(w)
    PROVE  CopyInv'
<1>1. CASE Abort(w) \/ SaveFails(w) \/ LogFails(w) \/ RecordFails(w)
  BY <1>1, RestCopy DEF Abort, SaveFails, LogFails, RecordFails, store
<1>2. CASE CountAllFails(w) \/ RuleFails(w)
  BY <1>2, ConcludeCopy DEF CountAllFails, RuleFails, Conclude
<1> QED BY <1>1, <1>2 DEF Fault

-----------------------------------------------------------------------------
(* Devices.                                                                *)

LEMMA PullCopy ==
    ASSUME TypeOK, CopyInv, Record, NEW w \in Workers, NEW d, Pull(w, d)
    PROVE  CopyInv'
<1> DEFINE j == [Idle EXCEPT !.pc = "fetch", !.dev = d]
<1>1. j.pc \notin HoldsRow /\ j.row = Idle.row
  BY DEF Idle, HoldsRow
<1>2. Become(w, j) /\ rollout' = rollout
  BY DEF Pull, store
<1> HIDE DEF j
<1> QED BY <1>1, <1>2, NewCopy

LEMMA SubmitCopy ==
    ASSUME TypeOK, CopyInv, Record, NEW w \in Workers, NEW d, NEW k, NEW o, Submit(w, d, k, o)
    PROVE  CopyInv'
<1> DEFINE j == [Idle EXCEPT !.pc = "insert", !.dev = d, !.key = k,
                             !.cfg = target[d].desired, !.outcome = o]
<1>1. j.pc \notin HoldsRow /\ j.row = Idle.row
  BY DEF Idle, HoldsRow
<1>2. Become(w, j) /\ rollout' = rollout
  BY DEF Submit, store
<1> HIDE DEF j
<1> QED BY <1>1, <1>2, NewCopy

LEMMA FetchTargetCopy ==
    ASSUME TypeOK, CopyInv, Record, NEW w \in Workers, FetchTarget(w)
    PROVE  CopyInv'
<1> DEFINE j == [job[w] EXCEPT !.pc = "deliver", !.cfg = target[job[w].dev].desired]
<1>1. job[w] \in Job
  BY RowType
<1>2. j.pc = "deliver" /\ j.row = job[w].row
  BY <1>1 DEF Job
<1>3. (Become(w, j) \/ Become(w, Idle)) /\ rollout' = rollout
  BY DEF FetchTarget, store
<1> HIDE DEF j
<1>4. Become(w, j) => CopyInv'
  BY <1>2, <1>3, GoesOnCopy DEF Decided
<1> QED BY <1>3, <1>4, RestCopy

\* A job that goes on to a statement of a receipt keeps its row.
LEMMA ReceiptCopy ==
    ASSUME TypeOK, CopyInv, Record, NEW w \in Workers, NEW pc \in {"ack", "record"},
           Become(w, [job[w] EXCEPT !.pc = pc]), rollout' = rollout
    PROVE  CopyInv'
<1> DEFINE j == [job[w] EXCEPT !.pc = pc]
<1>1. job[w] \in Job
  BY RowType
<1>2. j.pc = pc /\ j.row = job[w].row /\ Become(w, j)
  BY <1>1 DEF Job
<1> HIDE DEF j
<1> QED BY <1>2, GoesOnCopy DEF Decided

LEMMA InsertReceiptCopy ==
    ASSUME TypeOK, CopyInv, Record, NEW w \in Workers, InsertReceipt(w)
    PROVE  CopyInv'
<1>1. rollout' = rollout /\ (Become(w, [job[w] EXCEPT !.pc = "ack"]) \/ Become(w, Idle))
  BY DEF InsertReceipt
<1> QED BY <1>1, ReceiptCopy, RestCopy

LEMMA AckTargetCopy ==
    ASSUME TypeOK, CopyInv, Record, NEW w \in Workers, AckTarget(w)
    PROVE  CopyInv'
<1>1. /\ rollout' = rollout
      /\ Become(w, [job[w] EXCEPT !.pc = "record"]) \/ Become(w, Logging("receipt.accepted"))
  BY DEF AckTarget
<1> QED BY <1>1, ReceiptCopy, RestCopy

-----------------------------------------------------------------------------
(* The invariant of the copies.                                            *)

LEMMA InitCopy == OverlapInit => CopyInv
<1> SUFFICES ASSUME OverlapInit PROVE CopyInv
  OBVIOUS
<1>1. Steady(rollout)
  BY DEF OverlapInit, Init, Draft, Steady
<1> QED BY <1>1, IdleFresh DEF OverlapInit, Init, CopyInv

LEMMA NextStepCopy ==
    ASSUME TypeOK, IInv, CopyInv, [Next /\ Record]_overlapVars
    PROVE  CopyInv'
<1>1. ASSUME Record, NEW w \in Workers, Begin(w) PROVE CopyInv'
  BY <1>1, ScheduleCopy, StartCopy, PauseCopy, CancelCopy, RollbackCopy, ReconcileCopy,
     PullCopy, SubmitCopy
  DEF Begin
<1>2. ASSUME Record, NEW w \in Workers, Refused(w) \/ Log(w) \/ Deliver(w) \/ RecordDevice(w)
      PROVE  CopyInv'
  BY <1>2, RestCopy DEF Refused, Log, Deliver, RecordDevice, store
<1>3. ASSUME Record, NEW w \in Workers, Continue(w) PROVE CopyInv'
  BY <1>2, <1>3, SaveRolloutCopy, StartCopy, ListCopy, MarkTargetCopy, ReconcileCopy,
     CountBatchCopy, CountAllCopy, FetchTargetCopy, InsertReceiptCopy, AckTargetCopy
  DEF Continue
<1>4. ASSUME Record, NEW w \in Workers, Fault(w) PROVE CopyInv'
  BY <1>4, FaultCopy
<1>5. ASSUME Record, TimePasses PROVE CopyInv'
  BY <1>5, StillCurrent, RestFresh DEF TimePasses, CopyInv
<1>6. CASE UNCHANGED overlapVars
  BY <1>6 DEF overlapVars, vars, history, CopyInv
<1> QED BY <1>1, <1>3, <1>4, <1>5, <1>6 DEF Next

\* A handler's copy of the row agrees with the stored row, and what it has
\* decided to save follows on it, unless the row was given another status or
\* batch since it was read: however many handlers overlap and die anywhere.
THEOREM CopiesFresh == OverlapSpec => [](TypeOK /\ IInv /\ CopyInv)
<1>1. OverlapSpec => [](TypeOK /\ IInv)
  BY OverlapIsControl, TypeAndInvariant, PTL
<1>2. TypeOK /\ IInv /\ CopyInv /\ [Next /\ Record]_overlapVars => CopyInv'
  BY NextStepCopy
<1> QED BY <1>1, <1>2, InitCopy, PTL DEF OverlapSpec

-----------------------------------------------------------------------------
(* Who writes what.                                                        *)

LEMMA RolloutWritten ==
    ASSUME [Next]_vars
    PROVE  rollout' = rollout \/ \E w \in Workers : SaveRollout(w)
<1> USE DEF store
<1>1. ASSUME NEW w \in Workers, Begin(w) PROVE rollout' = rollout
  BY <1>1 DEF Begin, Schedule, Start, Pause, Cancel, Rollback, Reconcile, Pull, Submit
<1>2. ASSUME NEW w \in Workers, Continue(w) PROVE rollout' = rollout \/ SaveRollout(w)
  BY <1>2 DEF Continue, Start, Refused, List, MarkTarget, Log, Reconcile, CountBatch, CountAll,
              FetchTarget, Deliver, InsertReceipt, AckTarget, RecordDevice
<1>3. ASSUME NEW w \in Workers, Fault(w) PROVE rollout' = rollout
  BY <1>3 DEF Fault, Abort, CountAllFails, RuleFails, SaveFails, LogFails, RecordFails
<1> QED BY <1>1, <1>2, <1>3 DEF Next, TimePasses, vars

LEMMA TargetWritten ==
    ASSUME [Next]_vars
    PROVE  target' = target \/ \E w \in Workers : MarkTarget(w) \/ Deliver(w) \/ AckTarget(w)
<1> USE DEF store
<1>1. ASSUME NEW w \in Workers, Begin(w) PROVE target' = target
  BY <1>1 DEF Begin, Schedule, Start, Pause, Cancel, Rollback, Reconcile, Pull, Submit
<1>2. ASSUME NEW w \in Workers, Continue(w)
      PROVE  target' = target \/ MarkTarget(w) \/ Deliver(w) \/ AckTarget(w)
  BY <1>2 DEF Continue, Start, Refused, List, SaveRollout, Log, Reconcile, CountBatch, CountAll,
              FetchTarget, InsertReceipt, RecordDevice
<1>3. ASSUME NEW w \in Workers, Fault(w) PROVE target' = target
  BY <1>3 DEF Fault, Abort, CountAllFails, RuleFails, SaveFails, LogFails, RecordFails
<1> QED BY <1>1, <1>2, <1>3 DEF Next, TimePasses, vars

LEMMA ReceiptWritten ==
    ASSUME [Next]_vars
    PROVE  receipt' = receipt \/ \E w \in Workers : InsertReceipt(w)
<1> USE DEF store
<1>1. ASSUME NEW w \in Workers, Begin(w) PROVE receipt' = receipt
  BY <1>1 DEF Begin, Schedule, Start, Pause, Cancel, Rollback, Reconcile, Pull, Submit
<1>2. ASSUME NEW w \in Workers, Continue(w) PROVE receipt' = receipt \/ InsertReceipt(w)
  BY <1>2 DEF Continue, Start, Refused, List, MarkTarget, SaveRollout, Log, Reconcile, CountBatch,
              CountAll, FetchTarget, Deliver, AckTarget, RecordDevice
<1>3. ASSUME NEW w \in Workers, Fault(w) PROVE receipt' = receipt
  BY <1>3 DEF Fault, Abort, CountAllFails, RuleFails, SaveFails, LogFails, RecordFails
<1> QED BY <1>1, <1>2, <1>3 DEF Next, TimePasses, vars

-----------------------------------------------------------------------------
(* What a saved row may do to the stored one.                              *)

\* A row that was not outdated follows the one it replaces.
LEMMA SavedFollows ==
    ASSUME TypeOK, CopyInv, NEW w \in Workers \ outdated, SaveRollout(w)
    PROVE  Follows(rollout, rollout')
<1>1. RowFresh(rollout, job[w]) /\ job[w].pc = "write" /\ rollout' = job[w].row
  BY DEF CopyInv, SaveRollout
<1> QED BY <1>1 DEF RowFresh, Decided

LEMMA SavedOrOverwrite ==
    ASSUME TypeOK, CopyInv, [Next]_vars, rollout' # rollout, ~Overwrite
    PROVE  Follows(rollout, rollout')
<1>1. PICK w \in Workers : SaveRollout(w)
  BY RolloutWritten
<1>2. w \notin outdated
  BY <1>1 DEF Overwrite, SaveRollout, CopyInv
<1> QED BY <1>1, <1>2, SavedFollows

\* A cancelled or rolled back rollout is never changed again, not in its
\* counts either, but by a handler whose copy was overtaken.
THEOREM TerminalHolds == OverlapSpec => TerminalUnlessOverwritten
<1>1. TypeOK /\ IInv /\ CopyInv /\ [Next /\ Record]_overlapVars =>
          [rollout.status \in {"cancelled", "rolled_back"} /\ rollout' # rollout
              => Overwrite]_overlapVars
  BY SavedOrOverwrite DEF Follows, TerminalStatus
<1> QED BY <1>1, CopiesFresh, PTL DEF TerminalUnlessOverwritten, OverlapSpec

\* The status changes as the domain's table says, but for the two moves out of
\* rolling_back that it lacks and the saves of overtaken rows.
THEOREM TransitionsHold == OverlapSpec => TransitionsUnlessOverwritten
<1>1. ASSUME TypeOK, CopyInv, [Next]_vars, rollout'.status # rollout.status, ~Overwrite
      PROVE  \/ Lifecycle!CanTransition(rollout.status, rollout'.status)
             \/ rollout.status = "rolling_back" /\ rollout'.status \in {"paused", "cancelled"}
  <2>1. rollout.status \in RolloutStatus
    BY <1>1 DEF TypeOK, Rollout
  <2>2. Follows(rollout, rollout')
    BY <1>1, SavedOrOverwrite
  <2>3. \/ rollout.status = "draft" /\ rollout'.status \in {"running", "cancelled"}
        \/ rollout.status = "scheduled" /\ rollout'.status = "cancelled"
        \/ rollout.status = "running" /\ rollout'.status \in {"paused", "completed", "cancelled"}
        \/ rollout.status = "paused" /\ rollout'.status \in {"running", "cancelled", "rolling_back"}
        \/ rollout.status \in {"failed", "completed"} /\ rollout'.status = "rolling_back"
        \/ rollout.status = "rolling_back" /\ rollout'.status \in {"rolled_back", "paused", "cancelled"}
    BY <1>1, <2>1, <2>2 DEF Follows, TerminalStatus, RolloutStatus
  <2> QED BY <2>3 DEF Lifecycle!CanTransition, Lifecycle!allowedTransitions
<1>2. TypeOK /\ IInv /\ CopyInv /\ [Next /\ Record]_overlapVars =>
          [\/ rollout'.status = rollout.status
           \/ Lifecycle!CanTransition(rollout.status, rollout'.status)
           \/ rollout.status = "rolling_back" /\ rollout'.status \in {"paused", "cancelled"}
           \/ Overwrite]_overlapVars
  BY <1>1
<1> QED BY <1>2, CopiesFresh, PTL DEF TransitionsUnlessOverwritten, OverlapSpec

-----------------------------------------------------------------------------
(* The staged rollout.                                                     *)

\* What BatchGate sees of the store.
Heards(rc) == {d \in Devices : Heard(rc, d)}

LEMMA ReportedHeard == {d \in Devices : Reported(d)} = Heards(receipt)
  BY DEF Reported, Heard, Heards

\* A stored receipt adds its device to those that have reported, and only it.
LEMMA ReportStep ==
    ASSUME TypeOK, IInv, NEW w \in Workers, InsertReceipt(w), receipt' # receipt
    PROVE  \E d \in Devices : Heards(receipt') = Heards(receipt) \cup {d}
<1> DEFINE k == job[w].key
           d == job[w].dev
<1>1. /\ k \in Keys /\ d \in Devices /\ receipt[k] = NoReceipt
      /\ receipt' = [receipt EXCEPT ![k] = ReceiptOf(job[w])]
      /\ ReceiptOf(job[w]) \in Receipt /\ ReceiptOf(job[w]).dev = d
  <2>1. job[w] \in Job /\ JobSound(receipt, job[w]) /\ job[w].pc = "insert"
    BY DEF InsertReceipt, TypeOK, IInv
  <2> QED BY <2>1, ReceiptType DEF InsertReceipt, JobSound, Job, ReceiptOf
<1>2. /\ receipt'[k] # NoReceipt /\ receipt'[k].dev = d
      /\ \A l \in Keys \ {k} : receipt'[l] = receipt[l]
  BY <1>1, NameAssumption DEF TypeOK
<1>3. \A e \in Devices : Heard(receipt', e) <=> Heard(receipt, e) \/ e = d
  BY <1>1, <1>2 DEF Heard
<1> QED BY <1>1, <1>3 DEF Heards

\* A row that follows the stored one is the same to BatchGate, opens a batch or
\* completes the rollout when everybody who must has reported, or takes it back.
LEMMA GateStep ==
    ASSUME TypeOK, CopyInv, Follows(rollout, rollout'), rollout' \in Rollout,
           RowSound(receipt, rollout')
    PROVE  LET done(r) == r.status = "completed"
               all(b) == \A d \in Devices : BatchNumber(d) <= b => d \in Heards(receipt)
           IN  \/ rollout'.batch = rollout.batch /\ done(rollout') = done(rollout)
               \/ /\ rollout.batch < MaxBatch /\ all(rollout.batch)
                  /\ rollout'.batch = rollout.batch + 1 /\ done(rollout') = done(rollout)
               \/ /\ rollout.batch = MaxBatch /\ all(rollout.batch)
                  /\ rollout'.batch = rollout.batch /\ done(rollout') = TRUE
               \/ done(rollout') = FALSE /\ rollout'.batch = rollout.batch
<1>1. Steady(rollout)
  BY DEF CopyInv
<1>2. /\ rollout.batch \in Int /\ rollout'.batch \in Int /\ MaxBatch \in Int
      /\ rollout.batch >= 0 /\ rollout.batch <= MaxBatch /\ rollout'.batch <= MaxBatch
  BY BatchNumberRange, RowType DEF Rollout
<1>3. CASE rollout'.batch = rollout.batch /\ rollout'.status # "completed"
  BY <1>3
<1>4. CASE rollout'.status = "completed"
  BY <1>4 DEF Follows, RowSound, Heards
<1>5. CASE rollout'.batch # rollout.batch
  <2>1. /\ rollout'.batch = rollout.batch + 1
        /\ rollout'.status # "completed" /\ rollout.status # "completed"
    BY <1>1, <1>2, <1>5 DEF Follows, Steady
  <2>2. \A d \in Devices : BatchNumber(d) <= rollout.batch => d \in Heards(receipt)
    <3>1. \A d \in Devices : BatchNumber(d) < rollout.batch + 1 => Heard(receipt, d)
      BY <2>1 DEF RowSound, HeardBefore
    <3>2. \A d \in Devices : BatchNumber(d) \in Int
      BY BatchZero
    <3> QED BY <1>2, <3>1, <3>2 DEF Heards
  <2> QED BY <1>2, <2>1, <2>2
<1> QED BY <1>3, <1>4, <1>5

\* A row that was overtaken takes the rollout to nothing the devices have not
\* reported for.
LEMMA ReplaceStep ==
    ASSUME {d \in Devices : Reported(d)}' = Heards(receipt), RowSound(receipt, rollout'),
           {d \in Devices : Reported(d)} = Heards(receipt)
    PROVE  Gate!Replace
  BY DEF Gate!Replace, Gate!Justified, RowSound, HeardBefore, Heards

\* Every step is a step of the staged rollout or none of it, but for saves of
\* rows that were overtaken, and these are justified by the receipts too.
THEOREM GateHolds == OverlapSpec => GateUnlessOverwritten
<1>1. OverlapInit => Gate!Init
  BY DEF OverlapInit, Init, Draft, Gate!Init, Reported
<1>2. ASSUME TypeOK, IInv, CopyInv, [Next]_vars
      PROVE  Gate!Next \/ UNCHANGED Gate!vars \/ (Overwrite /\ Gate!Replace)
  <2>1. rollout' \in Rollout /\ RowSound(receipt', rollout')
    BY <1>2, NextSound DEF TypeOK, IInv
  <2>2. /\ {d \in Devices : Reported(d)} = Heards(receipt)
        /\ {d \in Devices : Reported(d)}' = Heards(receipt')
    BY DEF Reported, Heard, Heards
  <2>3. CASE rollout' = rollout
    <3>1. CASE receipt' = receipt
      BY <2>2, <2>3, <3>1 DEF Gate!vars
    <3>2. CASE receipt' # receipt
      <4>1. PICK d \in Devices : Heards(receipt') = Heards(receipt) \cup {d}
        BY <1>2, <3>2, ReceiptWritten, ReportStep
      <4>2. Gate!Report(d)
        BY <2>2, <2>3, <4>1 DEF Gate!Report
      <4> QED BY <4>2 DEF Gate!Next
    <3> QED BY <3>1, <3>2
  <2>4. CASE rollout' # rollout
    <3>1. receipt' = receipt
      BY <1>2, <2>4, RolloutWritten DEF SaveRollout
    <3>2. CASE Overwrite
      BY <2>1, <2>2, <3>1, <3>2, ReplaceStep
    <3>3. CASE ~Overwrite
      <4>1. Follows(rollout, rollout') /\ RowSound(receipt, rollout')
        BY <1>2, <2>1, <2>4, <3>1, <3>3, SavedOrOverwrite
      <4>2. \/ UNCHANGED Gate!vars
            \/ Gate!Open
            \/ Gate!Complete
            \/ Gate!TakeBack
        BY <1>2, <2>1, <2>2, <3>1, <4>1, GateStep
        DEF Gate!vars, Gate!Open, Gate!Complete, Gate!TakeBack, Gate!OpenReported
      <4> QED BY <4>2 DEF Gate!Next
    <3> QED BY <3>2, <3>3
  <2> QED BY <2>3, <2>4
<1>3. TypeOK /\ IInv /\ CopyInv /\ [Next /\ Record]_overlapVars =>
          [Gate!Next \/ UNCHANGED Gate!vars \/ (Overwrite /\ Gate!Replace)]_overlapVars
  BY <1>2
<1> QED BY <1>1, <1>3, CopiesFresh, PTL DEF OverlapSpec, GateUnlessOverwritten

-----------------------------------------------------------------------------
(* Decisions: what a handler found when it listed or counted the targets   *)
(* still holds when it saves the row, but for the devices whose outcome it *)
(* has missed since.                                                       *)

\* The failures among targets tg, but for those of devices m, are at the
\* rule's rate.
FailuresReach(tg, m) ==
    Reaches(Cardinality({d \in Devices \ m : tg[d].status = "failed"}), MaxFailurePercent)

\* A rollback has still to reset whatever was processed on its page.
Resets(r, tg, m, j) ==
    j.pc = "write" /\ j.row.status = "rolling_back" /\ r.status # "rolling_back"
        => \A d \in Page(Devices) \ m : tg[d].status \in Outcomes => d \in j.todo

\* Who opens a batch or completes the rollout found the failures below the rate.
Heeds(r, tg, m, j) == j.pc \in Decided /\ Progress(r, j.row) => ~FailuresReach(tg, m)

DecisionInv ==
    \A w \in Workers \ outdated :
        /\ Resets(rollout, target, missed[w], job[w])
        /\ w \notin blind => Heeds(rollout, target, missed[w], job[w])

LEMMA FewerFailures ==
    ASSUME NEW tg, NEW m, NEW more, NEW n, FailuresReach(tg, m),
           \A d \in Devices \ m : tg[d].status = "failed" => d \notin n /\ more[d].status = "failed"
    PROVE  FailuresReach(more, n)
<1> DEFINE S == {d \in Devices \ m : tg[d].status = "failed"}
           T == {d \in Devices \ n : more[d].status = "failed"}
           rate == MaxFailurePercent * DeviceCount
<1>1. IsFiniteSet(Devices)
  BY FS_Interval, SizeAssumption DEF Devices
<1>2. S \subseteq T /\ T \subseteq Devices
  OBVIOUS
<1>3. IsFiniteSet(T) /\ IsFiniteSet(S)
  BY <1>1, <1>2, FS_Subset
<1>4. Cardinality(S) <= Cardinality(T) /\ Cardinality(S) \in Nat /\ Cardinality(T) \in Nat
  BY <1>2, <1>3, FS_Subset, FS_CardinalityType
<1>5. rate \in Int /\ MaxFailurePercent > 0 /\ Cardinality(S) * 100 >= rate
  BY SizeAssumption, RuleAssumption DEF FailuresReach, Reaches
<1> HIDE DEF S, T, rate
<1>6. Cardinality(T) * 100 >= rate
  BY <1>4, <1>5
<1> QED BY <1>5, <1>6 DEF FailuresReach, Reaches, T, rate

\* Neither is undone by targets that are not acknowledged or are missed, nor by
\* a row that is saved with the same status and batch.
LEMMA DecisionKept ==
    ASSUME NEW r, NEW s, s.status = r.status, s.batch = r.batch,
           NEW tg, NEW changed, NEW m, NEW n, m \subseteq n,
           \A d \in Devices \ n : changed[d] = tg[d] \/ changed[d].status \notin Outcomes,
           NEW j
    PROVE  /\ Resets(r, tg, m, j) => Resets(s, changed, n, j)
           /\ Heeds(r, tg, m, j) => Heeds(s, changed, n, j)
<1>1. Page(Devices) \subseteq Devices
  BY DEF Page
<1>2. Resets(r, tg, m, j) => Resets(s, changed, n, j)
  BY <1>1 DEF Resets
<1>3. \A d \in Devices \ n : changed[d].status = "failed" => d \notin m /\ tg[d].status = "failed"
  BY DEF Outcomes
<1>4. FailuresReach(changed, n) => FailuresReach(tg, m)
  BY <1>3, FewerFailures
<1>5. Progress(s, j.row) => Progress(r, j.row)
  BY DEF Progress
<1> QED BY <1>2, <1>4, <1>5 DEF Heeds

LEMMA AwayDecision ==
    ASSUME NEW r, NEW tg, NEW m, NEW j, j.pc \notin Decided
    PROVE  Resets(r, tg, m, j) /\ Heeds(r, tg, m, j)
  BY DEF Resets, Heeds, Decided

\* A decision to stay in the same batch, that resets nothing yet.
LEMMA StandDecision ==
    ASSUME TypeOK, NEW tg, NEW m, NEW j, j.row.batch = rollout.batch \/ rollout.batch = 0,
           j.row.status # "rolling_back" \/ j.pc = "list",
           j.row.status # "completed"
    PROVE  Resets(rollout, tg, m, j) /\ Heeds(rollout, tg, m, j)
<1>1. ~Progress(rollout, j.row)
  BY BatchType DEF Progress
<1> QED BY <1>1 DEF Resets, Heeds

-----------------------------------------------------------------------------
(* What a handler that moves decides, whatever it may have missed.         *)

LEMMA StartDecision ==
    ASSUME TypeOK, CopyInv, NEW w \in Workers, Start(w), NEW m
    PROVE  Resets(rollout, target, m, job'[w]) /\ Heeds(rollout, target, m, job'[w])
<1> DEFINE j == [Idle EXCEPT !.pc = "list", !.row = StartedRow, !.event = "rollout.started"]
<1>1. /\ Become(w, j) /\ j.pc = "list" /\ j.row.status = "running"
      /\ rollout.batch = 0 \/ j.row.batch = rollout.batch
  BY StartJob
<1> HIDE DEF j
<1>2. job'[w] = j
  BY <1>1, BecomeStep
<1> QED BY <1>1, <1>2, StandDecision

LEMMA StatusDecision ==
    ASSUME TypeOK, NEW w \in Workers, NEW row \in Rollout, row.batch = rollout.batch,
           NEW status \in {"paused", "cancelled"}, NEW e, NEW m,
           Become(w, Writing([row EXCEPT !.status = status], e))
    PROVE  Resets(rollout, target, m, job'[w]) /\ Heeds(rollout, target, m, job'[w])
<1> DEFINE saved == [row EXCEPT !.status = status]
<1>1. saved.status = status /\ saved.batch = rollout.batch
  BY DEF Rollout
<1>2. job'[w] = Writing(saved, e)
  BY BecomeStep
<1> HIDE DEF saved
<1> QED BY <1>1, <1>2, WritingJob, StandDecision

\* A call that decides nothing yet.
LEMMA BeginAway ==
    ASSUME TypeOK, NEW w \in Workers, Begin(w)
    PROVE  \/ Start(w) \/ Pause(w) \/ Cancel(w) \/ Rollback(w)
           \/ job'[w].pc \notin Decided
<1>1. ASSUME NEW j, Become(w, j), j.pc \in {"start", "reconcile", "countBatch", "fetch", "insert"}
      PROVE  job'[w].pc \notin Decided
  BY <1>1, BecomeStep DEF Decided
<1>2. CASE Schedule(w)
  BY <1>1, <1>2 DEF Schedule, Idle
<1>3. CASE Reconcile(w)
  BY <1>1, <1>3 DEF Reconcile, Idle
<1>4. ASSUME NEW d \in Devices, Pull(w, d) PROVE job'[w].pc \notin Decided
  BY <1>1, <1>4 DEF Pull, Idle
<1>5. ASSUME NEW d, NEW k, NEW o, Submit(w, d, k, o) PROVE job'[w].pc \notin Decided
  BY <1>1, <1>5 DEF Submit, Idle
<1> QED BY <1>2, <1>3, <1>4, <1>5 DEF Begin

LEMMA BeginDecision ==
    ASSUME TypeOK, CopyInv, NEW w \in Workers, Begin(w), NEW m
    PROVE  Resets(rollout, target, m, job'[w]) /\ Heeds(rollout, target, m, job'[w])
<1>1. CASE Start(w)
  BY <1>1, StartDecision
<1>2. CASE Pause(w) \/ Cancel(w)
  BY <1>2, RowType, StatusDecision DEF Pause, Cancel
<1>3. CASE Rollback(w)
  BY <1>3, RollbackJob, BecomeStep, StandDecision
<1>4. CASE job'[w].pc \notin Decided
  BY <1>4, AwayDecision
<1> QED BY <1>1, <1>2, <1>3, <1>4, BeginAway

\* What the page shows as processed when a rollback lists it is to be reset,
\* whatever the handler knew before.
LEMMA ListDecision ==
    ASSUME TypeOK, CopyInv, DecisionInv, NEW w \in Workers \ outdated, List(w), NEW m,
           job[w].row.status # "rolling_back" => m = missed[w]
    PROVE  /\ Resets(rollout, target, m, job'[w])
           /\ w \notin blind => Heeds(rollout, target, m, job'[w])
<1>1. PICK j : /\ Become(w, j) /\ job[w].pc = "list"
               /\ j.pc = "write" /\ j.row = job[w].row /\ j.todo = Listed(job[w].row)
  BY ListJob
<1>2. job'[w] = j /\ Follows(rollout, j.row)
  BY <1>1, BecomeStep DEF CopyInv, RowFresh, Decided
<1>3. Resets(rollout, target, m, j)
  BY <1>1 DEF Resets, Listed
<1>4. CASE j.row.status = "rolling_back"
  <2>1. j.row.batch = rollout.batch
    BY <1>2, <1>4 DEF Follows
  <2>2. ~Progress(rollout, j.row)
    BY <1>4, <2>1, BatchType DEF Progress
  <2> QED BY <1>2, <1>3, <2>2 DEF Heeds
<1>5. CASE j.row.status # "rolling_back"
  <2>1. w \notin blind => Heeds(rollout, target, m, job[w])
    BY <1>1, <1>5 DEF DecisionInv
  <2> QED BY <1>1, <1>2, <1>3, <2>1 DEF Heeds, Decided
<1> QED BY <1>4, <1>5

\* A target that is marked is none that was acknowledged.
LEMMA MarkTargetDecision ==
    ASSUME TypeOK, NEW w \in Workers, MarkTarget(w), NEW m
    PROVE  /\ Resets(rollout, target, m, job[w]) => Resets(rollout, target', m, job'[w])
           /\ Heeds(rollout, target, m, job[w]) => Heeds(rollout, target', m, job'[w])
<1>1. PICK d, j : /\ Become(w, j) /\ d \in Devices /\ d \in job[w].todo
                  /\ target' = [target EXCEPT ![d] = Marked(job[w].row)]
                  /\ j.pc = "write" /\ j.row = job[w].row /\ j.todo = job[w].todo \ {d}
  BY MarkTargetJob
<1>2. job[w].pc = "write" /\ job'[w] = j
  BY <1>1, BecomeStep, MarkTargetJob
<1>3. /\ target'[d] = Marked(job[w].row) /\ Marked(job[w].row).status \notin Outcomes
      /\ \A e \in Devices \ {d} : target'[e] = target[e]
  BY <1>1 DEF Marked, Outcomes, TypeOK
<1>4. /\ Resets(rollout, target, m, job[w]) => Resets(rollout, target', m, job[w])
      /\ Heeds(rollout, target, m, job[w]) => Heeds(rollout, target', m, job[w])
  BY <1>3, DecisionKept
<1>5. Resets(rollout, target', m, job[w]) => Resets(rollout, target', m, j)
  BY <1>1, <1>2, <1>3 DEF Resets
<1>6. Heeds(rollout, target', m, job[w]) => Heeds(rollout, target', m, j)
  BY <1>1, <1>2 DEF Heeds
<1> QED BY <1>2, <1>4, <1>5, <1>6

\* What is concluded from a copy that is not outdated resets nothing, and opens
\* no batch and completes nothing with the failures that were counted at the
\* rate.
LEMMA ConcludeDecision ==
    ASSUME TypeOK, IInv, CopyInv, NEW w \in Workers \ outdated, job[w].pc = "countAll",
           NEW row \in {job[w].row, Counted(job[w].row, Devices)},
           AutoPause(w, row) \/ Proceed(w, row), NEW m
    PROVE  /\ Resets(rollout, target, m, job'[w])
           /\ AutoPause(w, row) \/ ~FailuresReach(target, m) => Heeds(rollout, target, m, job'[w])
<1>1. /\ row \in Rollout /\ row.status = rollout.status /\ row.batch = rollout.batch
      /\ rollout.status \in {"running", "rolling_back"}
  BY CountAllRow
<1>2. CASE AutoPause(w, row)
  BY <1>1, <1>2, StatusDecision DEF AutoPause
<1>3. CASE ~AutoPause(w, row)
  <2>1. PICK j : Become(w, j) /\ j.row.status \in {rollout.status, "completed", "rolled_back"}
    BY <1>1, <1>3, ProceedJob
  <2>2. job'[w] = j
    BY <2>1, BecomeStep
  <2> QED BY <1>3, <2>1, <2>2 DEF Resets, Heeds
<1> QED BY <1>2, <1>3

LEMMA CountAllDecision ==
    ASSUME TypeOK, IInv, CopyInv, NEW w \in Workers \ outdated, CountAll(w), NEW m
    PROVE  Resets(rollout, target, m, job'[w]) /\ Heeds(rollout, target, m, job'[w])
<1> DEFINE row == Counted(job[w].row, Devices)
<1>1. job[w].pc = "countAll" /\ Conclude(w, row)
  BY DEF CountAll
<1>2. row.failure = Cardinality({d \in Devices \ {} : target[d].status = "failed"})
  <2>1. job[w].row \in Rollout /\ Devices \ {} = Devices
    BY RowType
  <2> QED BY <2>1 DEF Counted, HowMany, Rollout
<1>3. row \in {job[w].row, Counted(job[w].row, Devices)}
  OBVIOUS
<1> HIDE DEF row
<1>4. ~RuleHit(row) => ~FailuresReach(target, {})
  BY <1>2 DEF RuleHit, FailuresReach
<1>5. FailuresReach(target, m) => FailuresReach(target, {})
  BY FewerFailures
<1>6. /\ AutoPause(w, row) \/ Proceed(w, row)
      /\ AutoPause(w, row) \/ ~FailuresReach(target, m)
  BY <1>1, <1>4, <1>5 DEF Conclude
<1> QED BY <1>1, <1>3, <1>6, ConcludeDecision

\* A handler that could not count or read the rule decides blindly.
LEMMA FaultDecision ==
    ASSUME TypeOK, IInv, CopyInv, NEW w \in Workers \ outdated, Fault(w), NEW m,
           job'[w].pc \in Decided
    PROVE  /\ Resets(rollout, target, m, job'[w])
           /\ ~DecidesBlindly(w) => Heeds(rollout, target, m, job'[w])
<1>1. CASE Abort(w) \/ SaveFails(w) \/ LogFails(w) \/ RecordFails(w)
  <2>1. job'[w] = Idle \/ \E e : job'[w] \in {Logging(e), AfterLog(e)}
    BY <1>1, BecomeStep DEF Abort, SaveFails, LogFails, RecordFails
  <2> QED BY <2>1, IdleFresh DEF Decided, HoldsRow
<1>2. CASE CountAllFails(w) \/ RuleFails(w)
  <2>1. PICK row \in {job[w].row, Counted(job[w].row, Devices)} : AutoPause(w, row) \/ Proceed(w, row)
    BY <1>2 DEF CountAllFails, RuleFails, Conclude
  <2>2. job[w].pc = "countAll"
    BY <1>2 DEF CountAllFails, RuleFails
  <2>3. Resets(rollout, target, m, job'[w])
    BY <2>1, <2>2, ConcludeDecision
  <2>4. ~DecidesBlindly(w) => CountAll(w)
    BY <2>2 DEF DecidesBlindly
  <2> QED BY <2>3, <2>4, CountAllDecision
<1> QED BY <1>1, <1>2 DEF Fault

\* A handler at one of the other statements decides nothing.
LEMMA AwaySteps ==
    ASSUME TypeOK, NEW w \in Workers,
           \/ Refused(w) \/ SaveRollout(w) \/ Log(w) \/ Reconcile(w) \/ CountBatch(w)
           \/ FetchTarget(w) \/ Deliver(w) \/ InsertReceipt(w) \/ AckTarget(w) \/ RecordDevice(w)
    PROVE  job'[w].pc \notin Decided
<1>1. job[w] \in Job
  BY RowType
<1>2. ASSUME NEW j, Become(w, j), j.pc \in {"countBatch", "countAll", "deliver", "ack", "record"}
      PROVE  job'[w].pc \notin Decided
  BY <1>2, BecomeStep DEF Decided
<1>3. ASSUME Become(w, Idle) \/ \E e : Become(w, Logging(e)) \/ Become(w, Written(e)) \/ Become(w, AfterLog(e))
      PROVE  job'[w].pc \notin Decided
  BY <1>3, BecomeStep, IdleFresh DEF Decided, HoldsRow
<1>4. CASE Refused(w) \/ SaveRollout(w) \/ Log(w) \/ Deliver(w) \/ RecordDevice(w)
  BY <1>3, <1>4 DEF Refused, SaveRollout, Log, Deliver, RecordDevice
<1>5. CASE Reconcile(w)
  BY <1>2, <1>5 DEF Reconcile, Idle
<1>6. CASE CountBatch(w)
  BY <1>1, <1>2, <1>6 DEF CountBatch, Job
<1>7. CASE FetchTarget(w)
  BY <1>1, <1>2, <1>3, <1>7 DEF FetchTarget, Job
<1>8. CASE InsertReceipt(w)
  BY <1>1, <1>2, <1>3, <1>8 DEF InsertReceipt, Job
<1>9. CASE AckTarget(w)
  BY <1>1, <1>2, <1>3, <1>9 DEF AckTarget, Job
<1> QED BY <1>4, <1>5, <1>6, <1>7, <1>8, <1>9

\* A step of worker w leaves the other workers' jobs alone.
LEMMA OthersWait ==
    ASSUME TypeOK, NEW w \in Workers, Begin(w) \/ Continue(w) \/ Fault(w)
    PROVE  \A v \in Workers \ {w} : job'[v] = job[v]
<1>1. ASSUME NEW row, Proceed(w, row) \/ AutoPause(w, row) PROVE \E j : Become(w, j)
  BY <1>1 DEF Proceed, AutoPause, KeepCounts, FinishRollback, AdvanceBatch, Complete
<1>2. Begin(w) => \E j : Become(w, j)
  BY DEF Begin, Schedule, Start, Pause, Cancel, Rollback, Reconcile, Pull, Submit
<1>3. Continue(w) => \E j : Become(w, j)
  BY <1>1 DEF Continue, Start, Refused, List, MarkTarget, SaveRollout, Log, Reconcile, CountBatch,
              CountAll, Conclude, FetchTarget, Deliver, InsertReceipt, AckTarget, RecordDevice
<1>4. Fault(w) => \E j : Become(w, j)
  BY <1>1 DEF Fault, Abort, CountAllFails, RuleFails, Conclude, SaveFails, LogFails, RecordFails
<1> QED BY <1>2, <1>3, <1>4, BecomeStep

-----------------------------------------------------------------------------
(* The invariant of the decisions.                                         *)

\* What the history says of a handler that is current and has decided.
LEMMA DecidedHistory ==
    ASSUME Record, NEW v \in Workers, v \notin outdated', job'[v].pc \in Decided
    PROVE  /\ v \notin outdated /\ rollout'.status = rollout.status /\ rollout'.batch = rollout.batch
           /\ v \notin blind' => v \notin blind /\ ~DecidesBlindly(v)
           /\ ~LooksAgain(v) => missed'[v] = missed[v] \cup Acknowledged
  BY StillCurrent DEF Record, HoldsRow, Decided

\* What is to hold of a worker after a step.
DecidesSoundly(v) ==
    /\ Resets(rollout', target', missed'[v], job'[v])
    /\ v \notin blind' => Heeds(rollout', target', missed'[v], job'[v])

\* The handler that moves.
LEMMA MoverDecision ==
    ASSUME TypeOK, IInv, CopyInv, DecisionInv, Record, NEW w \in Workers,
           Begin(w) \/ Continue(w) \/ Fault(w), w \notin outdated', job'[w].pc \in Decided
    PROVE  DecidesSoundly(w)
<1>1. /\ w \in Workers \ outdated /\ (w \notin blind' => w \notin blind /\ ~DecidesBlindly(w))
      /\ ~LooksAgain(w) => missed'[w] = missed[w] \cup Acknowledged
  BY DecidedHistory
<1>2. Begin(w) \/ Fault(w) => rollout' = rollout /\ target' = target
  BY DEF Begin, Schedule, Start, Pause, Cancel, Rollback, Reconcile, Pull, Submit, store,
         Fault, Abort, CountAllFails, RuleFails, SaveFails, LogFails, RecordFails
<1>3. CASE Begin(w)
  BY <1>2, <1>3, BeginDecision DEF DecidesSoundly
<1>4. CASE Fault(w)
  BY <1>1, <1>2, <1>4, FaultDecision DEF DecidesSoundly
<1>5. CASE Start(w)
  BY <1>5, StartDecision DEF Start, store, DecidesSoundly
<1>6. CASE List(w)
  <2>1. rollout' = rollout /\ target' = target
    BY <1>6 DEF List, store
  <2>2. job'[w].row = job[w].row /\ job[w].pc = "list"
    BY <1>6, ListJob, BecomeStep
  <2>3. Acknowledged = {}
    BY <2>1 DEF Acknowledged
  <2>4. job[w].row.status # "rolling_back" => missed'[w] = missed[w]
    BY <1>1, <2>2, <2>3 DEF LooksAgain
  <2> QED BY <1>1, <1>6, <2>1, <2>4, ListDecision DEF DecidesSoundly
<1>7. CASE MarkTarget(w)
  <2>1. job[w].pc = "write" /\ rollout' = rollout
    BY <1>7, MarkTargetJob
  <2>2. missed'[w] = missed[w] \cup Acknowledged
    BY <1>1, <2>1 DEF LooksAgain
  <2>3. /\ Resets(rollout, target, missed[w], job[w])
        /\ w \notin blind => Heeds(rollout, target, missed[w], job[w])
    BY <1>1 DEF DecisionInv
  <2>4. /\ Resets(rollout, target, missed'[w], job[w])
        /\ w \notin blind => Heeds(rollout, target, missed'[w], job[w])
    BY <2>2, <2>3, DecisionKept
  <2> QED BY <1>1, <1>7, <2>1, <2>4, MarkTargetDecision DEF DecidesSoundly
<1>8. CASE CountAll(w)
  BY <1>1, <1>8, CountAllDecision DEF CountAll, store, DecidesSoundly
<1>9. CASE Continue(w)
  BY <1>5, <1>6, <1>7, <1>8, <1>9, AwaySteps DEF Continue
<1> QED BY <1>3, <1>4, <1>9

\* The handlers that do not.
LEMMA OtherDecision ==
    ASSUME DecisionInv, Record, NEW v \in Workers, job'[v] = job[v],
           v \notin outdated', job'[v].pc \in Decided
    PROVE  DecidesSoundly(v)
<1>1. /\ v \notin outdated /\ rollout'.status = rollout.status /\ rollout'.batch = rollout.batch
      /\ v \notin blind' => v \notin blind
      /\ missed'[v] = missed[v] \cup Acknowledged
  BY DecidedHistory DEF LooksAgain
<1>2. \A d \in Devices \ missed'[v] : target'[d] = target[d] \/ target'[d].status \notin Outcomes
  BY <1>1 DEF Acknowledged
<1>3. /\ Resets(rollout, target, missed[v], job[v])
      /\ v \notin blind => Heeds(rollout, target, missed[v], job[v])
  BY <1>1 DEF DecisionInv
<1> QED BY <1>1, <1>2, <1>3, DecisionKept DEF DecidesSoundly

LEMMA NextDecision ==
    ASSUME TypeOK, IInv, CopyInv, DecisionInv, [Next /\ Record]_overlapVars
    PROVE  DecisionInv'
<1>1. CASE UNCHANGED overlapVars
  BY <1>1 DEF overlapVars, vars, history, DecisionInv
<1>2. ASSUME Next, Record, NEW v \in Workers, v \notin outdated', job'[v].pc \in Decided
      PROVE  DecidesSoundly(v)
  <2>1. CASE \E w \in Workers : Begin(w) \/ Continue(w) \/ Fault(w)
    <3>1. PICK w \in Workers : Begin(w) \/ Continue(w) \/ Fault(w)
      BY <2>1
    <3>2. CASE v = w
      BY <1>2, <3>1, <3>2, MoverDecision
    <3>3. CASE v # w
      BY <1>2, <3>1, <3>3, OthersWait, OtherDecision
    <3> QED BY <3>2, <3>3
  <2>2. CASE TimePasses
    BY <1>2, <2>2, OtherDecision DEF TimePasses
  <2> QED BY <1>2, <2>1, <2>2 DEF Next
<1>3. CASE Next /\ Record
  BY <1>2, <1>3, AwayDecision DEF DecisionInv, DecidesSoundly
<1> QED BY <1>1, <1>3

\* Whoever has decided on a copy that is not outdated has decided rightly, but
\* for the outcomes stored since and for counts and rules it could not read:
\* however many handlers overlap and die anywhere.
THEOREM DecisionsHold == OverlapSpec => [](TypeOK /\ IInv /\ CopyInv /\ DecisionInv)
<1>1. OverlapInit => DecisionInv
  <2>1. Idle.pc \notin Decided
    BY IdleRow DEF Decided
  <2> QED BY <2>1, AwayDecision DEF OverlapInit, Init, DecisionInv
<1>2. TypeOK /\ IInv /\ CopyInv /\ DecisionInv /\ [Next /\ Record]_overlapVars => DecisionInv'
  BY NextDecision
<1> QED BY <1>1, <1>2, CopiesFresh, PTL DEF OverlapSpec

\* A rollback is saved with every processed target of the listed page reset,
\* but for those acknowledged after the list, however large the rollout.
THEOREM RollbackHolds == OverlapSpec => RollbackResets
<1>1. ASSUME DecisionInv, NEW w \in Workers \ outdated, SaveRollout(w),
             rollout.status # "rolling_back", rollout'.status = "rolling_back"
      PROVE  \A d \in Page(Devices) \ missed[w] : target[d].status \notin Outcomes
  BY <1>1 DEF DecisionInv, SaveRollout, Resets
<1>2. DecisionInv =>
          [\A w \in Workers \ outdated :
              /\ SaveRollout(w)
              /\ rollout.status # "rolling_back" /\ rollout'.status = "rolling_back"
              => \A d \in Page(Devices) \ missed[w] : target[d].status \notin Outcomes]_overlapVars
  BY <1>1
<1> QED BY <1>2, DecisionsHold, PTL DEF RollbackResets

\* No batch is opened and no rollout completed past the rule's rate by whoever
\* is current and could read, whatever the rate and whatever comes in between.
THEOREM RuleHolds == OverlapSpec => RuleHeeded
<1>1. ASSUME DecisionInv, NEW w \in Workers \ (outdated \cup blind), SaveRollout(w),
             Progress(rollout, rollout')
      PROVE  ~Reaches(HowMany(Devices \ missed[w], "failed"), MaxFailurePercent)
  BY <1>1 DEF DecisionInv, SaveRollout, Heeds, Decided, FailuresReach, HowMany
<1>2. DecisionInv =>
          [\A w \in Workers \ (outdated \cup blind) :
              SaveRollout(w) /\ Progress(rollout, rollout')
                  => ~Reaches(HowMany(Devices \ missed[w], "failed"), MaxFailurePercent)]_overlapVars
  BY <1>1
<1> QED BY <1>2, DecisionsHold, PTL DEF RuleHeeded
=============================================================================
