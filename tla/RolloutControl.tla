--------------------------- MODULE RolloutControl ---------------------------
(***************************************************************************)
(* One rollout as the control service runs it: its row, the rows of its    *)
(* targets, the receipts of its devices, and the request handlers and the  *)
(* scheduler that read and write them.                                     *)
(*                                                                         *)
(* A handler is not atomic.  It issues SQL statements one at a time over a *)
(* pool with a single connection, so that each statement is atomic and two *)
(* handlers interleave between statements.  No handler but CreateRollout   *)
(* opens a transaction.  An action below is therefore one statement, with  *)
(* the code up to the next one; what a handler holds in its local          *)
(* variables between two statements is its job.  Writes go back by primary *)
(* key and carry every mutable column, as UpdateRollout and UpdateTarget   *)
(* do, whatever happened to the row since it was read.                     *)
(*                                                                         *)
(* Devices are numbered by their place in the order of their IDs, which is *)
(* the order CreateRollout sorts them in.                                  *)
(***************************************************************************)
EXTENDS Integers, FiniteSets

CONSTANTS
    DeviceCount,             \* target_count of the rollout
    BatchSize,               \* batch_size of the rollout
    PageCap,                 \* rows a query returns when asked for more than 1000
    Workers,                 \* goroutines that can be inside a handler at once
    Keys,                    \* idempotency keys that devices use
    NoKey,                   \* the key of a job that submits no receipt
    NoReceipt,               \* what a key that was never stored maps to
    ConfigurationID,         \* configuration_id of the rollout
    RollbackConfigurationID, \* rollback_configuration_id, or NoConfiguration
    NoConfiguration,
    MaxFailurePercent,       \* the rule's rates in percent; 0 turns one off,
    MaxOfflinePercent,       \* and with all three at 0 the rollout has no rule
    MaxTimeoutPercent,
    Calls,                   \* the calls that clients and the scheduler make
    Audited,                 \* the audit actions this instance keeps track of
    StatementsMayFail        \* whether a statement may fail or a process die

CallNames == {"schedule", "start", "pause", "cancel", "rollback", "reconcile",
              "pull", "receipt", "report"}

ASSUME SizeAssumption ==
    /\ DeviceCount \in Nat \ {0}
    /\ BatchSize \in 1..DeviceCount
    /\ PageCap \in Nat \ {0}

ASSUME RuleAssumption ==
    /\ MaxFailurePercent \in 0..100
    /\ MaxOfflinePercent \in 0..100
    /\ MaxTimeoutPercent \in 0..100

ASSUME EnvironmentAssumption ==
    /\ Calls \subseteq CallNames
    /\ StatementsMayFail \in BOOLEAN

-----------------------------------------------------------------------------
(* Devices, batches and the rows.                                          *)

Devices == 1..DeviceCount

BatchNumber(d) == (d - 1) \div BatchSize + 1

MaxBatch == (DeviceCount + BatchSize - 1) \div BatchSize

\* The devices a query for batch b ranges over: 0 is no restriction.
Batch(b) == {d \in Devices : b > 0 => BatchNumber(d) = b}

\* A query asked for 10000 rows is cut to PageCap of them, the first in order.
Page(S) == {d \in S : Cardinality({e \in S : e < d}) < PageCap}

RolloutStatus == {"draft", "scheduled", "running", "paused", "completed",
                  "failed", "cancelled", "rolled_back", "rolling_back"}

TargetStatus == {"pending", "ready", "delivered", "succeeded", "failed",
                 "timed_out", "rollback_pending", "rolled_back"}

TerminalStatus == {"completed", "failed", "cancelled", "rolled_back"}

\* What a device reports, and the target status that stores it.
Outcomes == {"succeeded", "failed"}

Configurations == {ConfigurationID, RollbackConfigurationID}

Rollout == [status  : RolloutStatus,
            batch   : 0..MaxBatch,
            success : 0..DeviceCount,
            failure : 0..DeviceCount]

Target == [status : TargetStatus, desired : Configurations]

Receipt == [dev : Devices, cfg : Configurations, outcome : Outcomes]

ASSUME NameAssumption ==
    /\ NoKey \notin Keys
    /\ NoReceipt \notin Receipt
    /\ ConfigurationID # NoConfiguration

\* The statement a handler issues next.
Statement == {"idle", "start", "reconcile", "list", "write", "log",
              "countBatch", "countAll", "fetch", "deliver",
              "insert", "ack", "record"}

NoEvent == "none"

Events == {"rollout.started", "rollout.paused", "rollout.cancelled",
           "rollout.rollback_started", "rollout.auto_paused",
           "rollout.completed", "receipt.accepted", NoEvent}

Job == [pc      : Statement,
        row     : Rollout,          \* the local variable entity
        todo    : SUBSET Devices,   \* targets still to be written
        done    : BOOLEAN,          \* total # 0 and terminal = total
        event   : Events,           \* what to audit and emit at the end
        dev     : Devices,          \* the device of a pull or a receipt
        key     : Keys \cup {NoKey},
        cfg     : Configurations,
        outcome : Outcomes]

VARIABLES
    rollout,   \* the row of table rollouts
    target,    \* the rows of rollout_targets, by device
    receipt,   \* the rows of receipts, by idempotency key
    current,   \* the configuration that a receipt recorded last for each device
    audit,     \* the audit actions recorded so far, of those in Audited
    due,       \* scheduled_at is absent or has passed
    job        \* what each worker is doing

vars == <<rollout, target, receipt, current, audit, due, job>>

store == <<rollout, target, receipt, current, audit, due>>

Draft == [status |-> "draft", batch |-> 0, success |-> 0, failure |-> 0]

Idle == [pc |-> "idle", row |-> Draft, todo |-> {}, done |-> FALSE,
         event |-> NoEvent, dev |-> 1, key |-> NoKey,
         cfg |-> ConfigurationID, outcome |-> "succeeded"]

TypeOK ==
    /\ rollout \in Rollout
    /\ target \in [Devices -> Target]
    /\ receipt \in [Keys -> Receipt \cup {NoReceipt}]
    /\ current \in [Devices -> Configurations \cup {NoConfiguration}]
    /\ audit \subseteq Events
    /\ due \in BOOLEAN
    /\ job \in [Workers -> Job]

\* The rollout as CreateRollout commits it, due at once or at a later time.
Init ==
    /\ rollout = Draft
    /\ target = [d \in Devices |-> [status |-> "pending", desired |-> ConfigurationID]]
    /\ receipt = [k \in Keys |-> NoReceipt]
    /\ current = [d \in Devices |-> NoConfiguration]
    /\ audit = {}
    /\ due \in BOOLEAN
    /\ job = [w \in Workers |-> Idle]

-----------------------------------------------------------------------------
(* Jobs: what a worker does next.                                          *)

Become(w, j) == job' = [job EXCEPT ![w] = j]

\* A free worker picks up a call that somebody makes.
Called(w, name) == job[w].pc = "idle" /\ name \in Calls

Writing(row, event) == [Idle EXCEPT !.pc = "write", !.row = row, !.event = event]

Logging(event) == [Idle EXCEPT !.pc = "log", !.event = event]

\* After its last write a handler audits and emits, if it has an event to tell.
Written(event) == IF event = NoEvent THEN Idle ELSE Logging(event)

-----------------------------------------------------------------------------
(* The scheduler and the operator's calls: each reads the rollout, checks  *)
(* its status and goes on with a changed copy of the row.                  *)

\* ListRunnableRollouts; the branch taken depends on the status listed, and
\* StartRollout or ReconcileRollout then reads the row again.
\* The scheduler is one goroutine; that two workers may be at its work here
\* adds nothing to what starts and receipts do to one another anyway.
Schedule(w) ==
    /\ Called(w, "schedule")
    /\ due
    /\ rollout.status \in {"draft", "running"}
    /\ Become(w, [Idle EXCEPT !.pc = IF rollout.status = "draft"
                                     THEN "start" ELSE "reconcile"])
    /\ UNCHANGED store

\* Slip: a resumed rollout begins again at its first batch.
StartedRowAgain == [rollout EXCEPT !.status = "running", !.batch = 1]

StartedRow == [rollout EXCEPT !.status = "running",
                              !.batch = IF rollout.status = "draft" THEN 1 ELSE @]

Start(w) ==
    /\ rollout.status \in {"draft", "paused"}
    /\ Become(w, [Idle EXCEPT !.pc = "list", !.row = StartedRow,
                              !.event = "rollout.started"])
    /\ UNCHANGED store

\* Slip: everything that is not over can be paused.
PauseUnfinished(w) ==
    /\ Called(w, "pause")
    /\ rollout.status \notin TerminalStatus
    /\ Become(w, Writing([rollout EXCEPT !.status = "paused"], "rollout.paused"))
    /\ UNCHANGED store

Pause(w) ==
    /\ Called(w, "pause")
    /\ rollout.status = "running"
    /\ Become(w, Writing([rollout EXCEPT !.status = "paused"], "rollout.paused"))
    /\ UNCHANGED store

\* Slip: cancelling looks only at whether the rollout is completed.
CancelUnlessCompleted(w) ==
    /\ Called(w, "cancel")
    /\ rollout.status # "completed"
    /\ Become(w, Writing([rollout EXCEPT !.status = "cancelled"], "rollout.cancelled"))
    /\ UNCHANGED store

Cancel(w) ==
    /\ Called(w, "cancel")
    /\ rollout.status \notin TerminalStatus
    /\ Become(w, Writing([rollout EXCEPT !.status = "cancelled"], "rollout.cancelled"))
    /\ UNCHANGED store

\* Slip: whatever was started can be rolled back.
RollbackStarted(w) ==
    /\ Called(w, "rollback")
    /\ RollbackConfigurationID # NoConfiguration
    /\ rollout.status \notin {"draft", "scheduled"}
    /\ Become(w, [Idle EXCEPT !.pc = "list",
                              !.row = [rollout EXCEPT !.status = "rolling_back"],
                              !.event = "rollout.rollback_started"])
    /\ UNCHANGED store

Rollback(w) ==
    /\ Called(w, "rollback")
    /\ RollbackConfigurationID # NoConfiguration
    /\ rollout.status \in {"paused", "failed", "completed"}
    /\ Become(w, [Idle EXCEPT !.pc = "list",
                              !.row = [rollout EXCEPT !.status = "rolling_back"],
                              !.event = "rollout.rollback_started"])
    /\ UNCHANGED store

\* A start or a reconcile that finds another status on its own read ends.
Refused(w) ==
    /\ \/ job[w].pc = "start" /\ rollout.status \notin {"draft", "paused"}
       \/ job[w].pc = "reconcile" /\ rollout.status \notin {"running", "rolling_back"}
    /\ Become(w, Idle)
    /\ UNCHANGED store

-----------------------------------------------------------------------------
(* Writing targets, then the rollout, then the audit event.                *)

\* Slip: a rollback leaves out the targets that failed.
ListedSucceeded(row) ==
    IF row.status = "rolling_back"
    THEN {d \in Page(Devices) : target[d].status = "succeeded"}
    ELSE {d \in Page(Batch(row.batch)) : target[d].status = "pending"}

\* The targets a rollback resets, or an activated batch makes ready.
Listed(row) ==
    IF row.status = "rolling_back"
    THEN {d \in Page(Devices) : target[d].status \in Outcomes}
    ELSE {d \in Page(Batch(row.batch)) : target[d].status = "pending"}

List(w) ==
    /\ job[w].pc = "list"
    /\ Become(w, [job[w] EXCEPT !.pc = "write", !.todo = Listed(job[w].row)])
    /\ UNCHANGED store

\* A target that was pending still desires the rollout's configuration.
Marked(row) ==
    IF row.status = "rolling_back"
    THEN [status |-> "rollback_pending", desired |-> RollbackConfigurationID]
    ELSE [status |-> "ready", desired |-> ConfigurationID]

MarkTarget(w) ==
    /\ job[w].pc = "write"
    /\ \E d \in job[w].todo :
          /\ \A e \in job[w].todo : d <= e
          /\ target' = [target EXCEPT ![d] = Marked(job[w].row)]
          /\ Become(w, [job[w] EXCEPT !.todo = @ \ {d}])
    /\ UNCHANGED <<rollout, receipt, current, audit, due>>

SaveRollout(w) ==
    /\ job[w].pc = "write"
    /\ job[w].todo = {}
    /\ rollout' = job[w].row
    /\ Become(w, Written(job[w].event))
    /\ UNCHANGED <<target, receipt, current, audit, due>>

\* After its event, an accepted receipt goes on to reconcile the rollout.
AfterLog(event) ==
    IF event = "receipt.accepted" THEN [Idle EXCEPT !.pc = "reconcile"] ELSE Idle

Log(w) ==
    /\ job[w].pc = "log"
    /\ audit' = audit \cup ({job[w].event} \cap Audited)
    /\ Become(w, AfterLog(job[w].event))
    /\ UNCHANGED <<rollout, target, receipt, current, due>>

-----------------------------------------------------------------------------
(* ReconcileRollout.                                                       *)

HowMany(S, status) == Cardinality({d \in S : target[d].status = status})

\* entity with the counters of the devices in S.
Counted(row, S) == [row EXCEPT !.success = HowMany(S, "succeeded"),
                               !.failure = HowMany(S, "failed")]

\* Slip: a target that was delivered counts as processed.
FinishedOrDelivered == {"succeeded", "failed", "timed_out", "rolled_back", "delivered"}

Finished == {"succeeded", "failed", "timed_out", "rolled_back"}

\* The rule is read between the two counts; nothing in the service changes a
\* rule, and it is part of the constants here.
Reconcile(w) ==
    /\ rollout.status \in {"running", "rolling_back"}
    /\ Become(w, [Idle EXCEPT !.pc = "countBatch", !.row = rollout])
    /\ UNCHANGED store

\* Slip: the batch is not part of the first count's condition.
CountEveryBatch(w) ==
    LET row == job[w].row
    IN  /\ job[w].pc = "countBatch"
        /\ Become(w, [job[w] EXCEPT !.pc = "countAll",
                                    !.row = Counted(row, Devices),
                                    !.done = \A d \in Devices : target[d].status \in Finished])
        /\ UNCHANGED store

CountBatch(w) ==
    LET row == job[w].row
        B == Batch(row.batch)
    IN  /\ job[w].pc = "countBatch"
        /\ Become(w, [job[w] EXCEPT !.pc = "countAll",
                                    !.row = Counted(row, B),
                                    !.done = B # {} /\ \A d \in B : target[d].status \in Finished])
        /\ UNCHANGED store

\* rule.Evaluate, given every target that finished as its offline argument.
Reaches(count, percent) == percent > 0 /\ count * 100 >= percent * DeviceCount

RuleHit(row) ==
    \/ Reaches(row.failure, MaxFailurePercent)
    \/ Reaches(row.success + row.failure, MaxOfflinePercent)
    \/ Reaches(0, MaxTimeoutPercent)

AutoPause(w, row) ==
    Become(w, Writing([row EXCEPT !.status = "paused"], "rollout.auto_paused"))

KeepCounts(w, row) ==
    /\ ~job[w].done
    /\ Become(w, Writing(row, NoEvent))

FinishRollback(w, row) ==
    /\ job[w].done
    /\ row.status = "rolling_back"
    /\ Become(w, Writing([row EXCEPT !.status = "rolled_back"], NoEvent))

\* Slip: the next batch opens whether or not this one has finished.
AdvanceAnyway(w, row) ==
    /\ row.status # "rolling_back"
    /\ row.batch < MaxBatch
    /\ Become(w, [Idle EXCEPT !.pc = "list", !.row = [row EXCEPT !.batch = @ + 1]])

\* Slip: nothing is completed here, and the batch is counted up for ever.
AdvanceUnbounded(w, row) ==
    /\ job[w].done
    /\ row.status # "rolling_back"
    /\ Become(w, [Idle EXCEPT !.pc = "list", !.row = [row EXCEPT !.batch = @ + 1]])

AdvanceBatch(w, row) ==
    /\ job[w].done
    /\ row.status # "rolling_back"
    /\ row.batch < MaxBatch
    /\ Become(w, [Idle EXCEPT !.pc = "list", !.row = [row EXCEPT !.batch = @ + 1]])

Complete(w, row) ==
    /\ job[w].done
    /\ row.status # "rolling_back"
    /\ row.batch >= MaxBatch
    /\ Become(w, Writing([row EXCEPT !.status = "completed"], "rollout.completed"))

\* What becomes of a rollout that no rule holds back.
Proceed(w, row) ==
    \/ KeepCounts(w, row)
    \/ FinishRollback(w, row)
    \/ AdvanceBatch(w, row)
    \/ Complete(w, row)

\* Slip: the rule is asked only while the batch is under way.
ConcludeFinishedFirst(w, row) ==
    \/ ~job[w].done /\ RuleHit(row) /\ AutoPause(w, row)
    \/ (job[w].done \/ ~RuleHit(row)) /\ Proceed(w, row)

Conclude(w, row) ==
    \/ RuleHit(row) /\ AutoPause(w, row)
    \/ ~RuleHit(row) /\ Proceed(w, row)

\* Slip: the rule is asked about the batch instead of the rollout.
CountAllInBatch(w) ==
    /\ job[w].pc = "countAll"
    /\ Conclude(w, job[w].row)
    /\ UNCHANGED store

CountAll(w) ==
    /\ job[w].pc = "countAll"
    /\ Conclude(w, Counted(job[w].row, Devices))
    /\ UNCHANGED store

-----------------------------------------------------------------------------
(* Devices: pulling a configuration and submitting a receipt.              *)

\* ListRollouts with status running.
Pull(w, d) ==
    /\ Called(w, "pull")
    /\ rollout.status = "running"
    /\ Become(w, [Idle EXCEPT !.pc = "fetch", !.dev = d])
    /\ UNCHANGED store

\* GetTarget; a target that is not waiting to be sent yields nothing.
FetchTarget(w) ==
    LET t == target[job[w].dev]
    IN  /\ job[w].pc = "fetch"
        /\ \/ /\ t.status \in {"ready", "rollback_pending"}
              /\ Become(w, [job[w] EXCEPT !.pc = "deliver", !.cfg = t.desired])
           \/ /\ t.status \notin {"ready", "rollback_pending"}
              /\ Become(w, Idle)
        /\ UNCHANGED store

Deliver(w) ==
    /\ job[w].pc = "deliver"
    /\ target' = [target EXCEPT ![job[w].dev] = [status |-> "delivered", desired |-> job[w].cfg]]
    /\ Become(w, Idle)
    /\ UNCHANGED <<rollout, receipt, current, audit, due>>

\* GetTarget; a receipt for another configuration than the desired one is
\* refused there and changes nothing, so that only a matching one is a job.
\* A device that "reports" answers what it was sent, each time under a new
\* key; a "receipt" is whatever the interface accepts.
Submit(w, d, k, outcome) ==
    /\ \/ Called(w, "receipt")
       \/ Called(w, "report") /\ target[d].status = "delivered" /\ receipt[k] = NoReceipt
    /\ Become(w, [Idle EXCEPT !.pc = "insert", !.dev = d, !.key = k,
                              !.cfg = target[d].desired, !.outcome = outcome])
    /\ UNCHANGED store

ReceiptOf(j) == [dev |-> j.dev, cfg |-> j.cfg, outcome |-> j.outcome]

\* Slip: the result of INSERT OR IGNORE is not looked at.
InsertUnchecked(w) ==
    /\ job[w].pc = "insert"
    /\ receipt' = [receipt EXCEPT ![job[w].key] = IF @ = NoReceipt THEN ReceiptOf(job[w]) ELSE @]
    /\ Become(w, [job[w] EXCEPT !.pc = "ack"])
    /\ UNCHANGED <<rollout, target, current, audit, due>>

\* INSERT OR IGNORE: the key is unique over all devices and rollouts.
InsertReceipt(w) ==
    /\ job[w].pc = "insert"
    /\ \/ /\ receipt[job[w].key] = NoReceipt
          /\ receipt' = [receipt EXCEPT ![job[w].key] = ReceiptOf(job[w])]
          /\ Become(w, [job[w] EXCEPT !.pc = "ack"])
       \/ /\ receipt[job[w].key] # NoReceipt
          /\ Become(w, Idle)
          /\ UNCHANGED receipt
    /\ UNCHANGED <<rollout, target, current, audit, due>>

\* Slip: the device's configuration is recorded whatever the outcome.
AckAnyOutcome(w) ==
    LET j == job[w]
    IN  /\ j.pc = "ack"
        /\ target' = [target EXCEPT ![j.dev] = [status |-> j.outcome, desired |-> j.cfg]]
        /\ Become(w, [j EXCEPT !.pc = "record"])
        /\ UNCHANGED <<rollout, receipt, current, audit, due>>

AckTarget(w) ==
    LET j == job[w]
    IN  /\ j.pc = "ack"
        /\ target' = [target EXCEPT ![j.dev] = [status |-> j.outcome, desired |-> j.cfg]]
        /\ Become(w, IF j.outcome = "succeeded"
                     THEN [j EXCEPT !.pc = "record"]
                     ELSE Logging("receipt.accepted"))
        /\ UNCHANGED <<rollout, receipt, current, audit, due>>

\* GetDevice and UpdateDevice.  The value written does not depend on the row
\* read; what the write does to the device's other columns is DeviceRegistry's.
RecordDevice(w) ==
    /\ job[w].pc = "record"
    /\ current' = [current EXCEPT ![job[w].dev] = job[w].cfg]
    /\ Become(w, Logging("receipt.accepted"))
    /\ UNCHANGED <<rollout, target, receipt, audit, due>>

-----------------------------------------------------------------------------
(* Failures.  A statement fails when the client goes away, the deadline of *)
(* a tick passes or the database is busy; a process crash is every job     *)
(* aborting at once.                                                       *)

\* The handler returns an error, or dies, between two statements.
Abort(w) ==
    /\ job[w].pc # "idle"
    /\ Become(w, Idle)
    /\ UNCHANGED store

\* The second count failed: the counters keep those of the batch.
CountAllFails(w) ==
    /\ job[w].pc = "countAll"
    /\ Conclude(w, job[w].row)
    /\ UNCHANGED store

\* The rule could not be read: the rollout goes on without one.
RuleFails(w) ==
    /\ job[w].pc = "countAll"
    /\ \/ Proceed(w, Counted(job[w].row, Devices))
       \/ Proceed(w, job[w].row)
    /\ UNCHANGED store

\* The save of an automatic pause failed; its event is told nevertheless.
SaveFails(w) ==
    /\ job[w].pc = "write"
    /\ job[w].todo = {}
    /\ job[w].event = "rollout.auto_paused"
    /\ Become(w, Logging(job[w].event))
    /\ UNCHANGED store

\* AppendAudit failed: a warning in the log of the service.
LogFails(w) ==
    /\ job[w].pc = "log"
    /\ Become(w, AfterLog(job[w].event))
    /\ UNCHANGED store

\* The device could not be read or updated: the receipt stands.
RecordFails(w) ==
    /\ job[w].pc = "record"
    /\ Become(w, Logging("receipt.accepted"))
    /\ UNCHANGED store

Fault(w) ==
    /\ StatementsMayFail
    /\ \/ Abort(w)
       \/ CountAllFails(w)
       \/ RuleFails(w)
       \/ SaveFails(w)
       \/ LogFails(w)
       \/ RecordFails(w)

TimePasses ==
    /\ ~due
    /\ due' = TRUE
    /\ UNCHANGED <<rollout, target, receipt, current, audit, job>>

-----------------------------------------------------------------------------

Begin(w) ==
    \/ Schedule(w)
    \/ Called(w, "start") /\ Start(w)
    \/ Pause(w)
    \/ Cancel(w)
    \/ Rollback(w)
    \/ Called(w, "reconcile") /\ Reconcile(w)
    \/ \E d \in Devices : Pull(w, d)
    \/ \E d \in Devices, k \in Keys, o \in Outcomes : Submit(w, d, k, o)

Continue(w) ==
    \/ job[w].pc = "start" /\ Start(w)
    \/ Refused(w)
    \/ List(w)
    \/ MarkTarget(w)
    \/ SaveRollout(w)
    \/ Log(w)
    \/ job[w].pc = "reconcile" /\ Reconcile(w)
    \/ CountBatch(w)
    \/ CountAll(w)
    \/ FetchTarget(w)
    \/ Deliver(w)
    \/ InsertReceipt(w)
    \/ AckTarget(w)
    \/ RecordDevice(w)

Next ==
    \/ \E w \in Workers : Begin(w) \/ Continue(w) \/ Fault(w)
    \/ TimePasses

Spec == Init /\ [][Next]_vars

\* A statement that was issued is executed; the scheduler's ticker and every
\* device's polling and reporting go on for ever, and an operator who can
\* resume a paused rollout does so.  A call finds a worker only now and then,
\* when the workers are free: hence strong fairness.
Fairness ==
    /\ WF_vars(TimePasses)
    /\ \A w \in Workers : WF_vars(Continue(w))
    /\ SF_vars(\E w \in Workers : Schedule(w))
    /\ SF_vars(\E w \in Workers : Called(w, "start") /\ rollout.status = "paused" /\ Start(w))
    /\ \A d \in Devices :
          /\ SF_vars(\E w \in Workers : Pull(w, d))
          /\ SF_vars(\E w \in Workers, k \in Keys, o \in Outcomes : Submit(w, d, k, o))

FairSpec == Spec /\ Fairness

-----------------------------------------------------------------------------
(* What holds at every moment, however handlers interleave and fail.       *)

\* A receipt of device d was accepted and stored.
Reported(d) == \E k \in Keys : receipt[k] # NoReceipt /\ receipt[k].dev = d

\* Every device of the batches before batch b has reported.
ReportedBefore(b) == \A d \in Devices : BatchNumber(d) < b => Reported(d)

\* A device is offered the configuration, or has been sent it, only when every
\* device of every earlier batch has reported: activateBatch of one handler
\* may run on a row that another handler has overwritten, and still no batch
\* is opened early.  A device that has itself reported may be sent more.
BatchGating ==
    \A d \in Devices :
        target[d].status \in {"ready", "delivered"} /\ ~Reported(d)
            => ReportedBefore(BatchNumber(d))

\* The rollout is never called completed while a device has not reported:
\* ReconcileRollout counts, reads the rule and saves in separate statements,
\* and what it counted may have changed when it saves.
CompletedReported == rollout.status = "completed" => \A d \in Devices : Reported(d)

\* A target that succeeded or failed has a stored receipt of its device, for
\* the configuration that it desires and with that outcome: SubmitReceipt
\* stores the receipt first, and ignores one whose key was used before.
OutcomeBacked ==
    \A d \in Devices :
        target[d].status \in Outcomes =>
            \E k \in Keys : receipt[k] = [dev |-> d, cfg |-> target[d].desired,
                                          outcome |-> target[d].status]

\* The configuration that receipts have recorded for a device is one that it
\* reported success for, also after failed receipts, rollbacks and handlers that
\* died half way.  Heartbeats, which write the column too, are not part of this module.
CurrentBacked ==
    \A d \in Devices :
        current[d] # NoConfiguration =>
            \E k \in Keys : receipt[k] = [dev |-> d, cfg |-> current[d],
                                          outcome |-> "succeeded"]

-----------------------------------------------------------------------------
(* What a step never does when handlers run one at a time.  RolloutOverlap  *)
(* says what is left of it, and of more, when they overlap.                *)

\* The targets that failed, as they stand now, are at the rule's rate.
FailureRateReached ==
    HowMany(Devices, "failed") \in {n \in 0..DeviceCount : Reaches(n, MaxFailurePercent)}

\* With the failed targets at the rule's rate, no further batch is opened and
\* the rollout is not called completed.
NoProgressPastRule ==
    [][(\/ rollout'.batch > rollout.batch /\ rollout.batch > 0
        \/ rollout.status # "completed" /\ rollout'.status = "completed")
           => ~FailureRateReached]_vars

-----------------------------------------------------------------------------
(* Liveness, under FairSpec.                                               *)

\* The scheduler starts a rollout, and it goes through all its batches to the
\* end however often it is paused and resumed, unless it is cancelled or its
\* failures reach the rule's rate.
Completes ==
    rollout.status = "draft" ~>
        rollout.status \in {"completed", "cancelled"} \/ FailureRateReached

\* A running rollout whose failures have reached the rule's rate is paused with
\* the rule's audit record, and so is one that is resumed, unless it is cancelled.
RuleStops ==
    rollout.status = "running" /\ FailureRateReached
        ~> \/ rollout.status = "paused" /\ "rollout.auto_paused" \in audit
           \/ rollout.status = "cancelled"

-----------------------------------------------------------------------------
(* The domain's table of transitions as an abstract specification.         *)

Lifecycle == INSTANCE RolloutLifecycle WITH status <- rollout.status

\* Every change of the stored status is one the domain's table allows.
ImplementsLifecycle == Lifecycle!Spec

-----------------------------------------------------------------------------
(* A staged rollout as an abstract specification.                          *)

Gate == INSTANCE BatchGate WITH
            reported <- {d \in Devices : Reported(d)},
            open     <- rollout.batch,
            complete <- rollout.status = "completed"

\* Batches open one after the other, each when everybody in the open ones has
\* reported, and the rollout completes after the last, one handler at a time.
ImplementsGate == Gate!Spec

-----------------------------------------------------------------------------
(* What the documentation says and the code does not do.                   *)

\* "Rollback puts the processed targets up to be sent the rollback version":
\* what is waiting to be sent is sent at some time.
RollbackSent ==
    \A d \in Devices :
        target[d].status = "rollback_pending" ~> target[d].status = "delivered"
=============================================================================
