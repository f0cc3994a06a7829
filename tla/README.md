# A model of the edge rollout control service

These modules model the control service under `src/`: a Go HTTP service over
SQLite that rolls configurations out to devices in batches, takes their
receipts, pauses a rollout by rule, rolls it back, and tells webhook
subscribers. TLC checks the modules on small instances. TLAPS proves the safety
properties that the runs check, with a few exceptions named below, for every value of the
constants: numbers of devices, sizes of batches, overlapping requests, rules, bounds.

## The system

Requests and two tickers (scheduler and webhook dispatcher) run as goroutines of
one process over a database pool with a *single* connection
(`internal/infrastructure/sqlite/sqlite.go:41`). Every SQL statement is
therefore atomic, and handlers interleave between statements. Only
`CreateRollout` opens a transaction; all other handlers read rows, decide on what
they read, and write whole rows back by primary key.

| Part | State it keeps | Operations | Talks to |
|---|---|---|---|
| Rollout service (`application/service.go`) | none of its own; rows of `rollouts`, `rollout_targets` | create, start/resume, pause, cancel, rollback, reconcile, scheduler tick | repository, audit, outbox |
| Device delivery (same file) | `rollout_targets` | pull a pending configuration | rollouts, configurations |
| Receipts (same file, `domain/receipt`) | `receipts` (unique idempotency key), target and device rows | submit a receipt | reconcile |
| Pause rules (`domain/rule`) | `rollout_rules` | evaluate rates | reconcile |
| Lifecycle table (`domain/rollout/state_machine.go`) | none | `CanTransition`, `ApplyTransition`, history | not consulted by the service |
| Devices and groups (`domain/device`) | `devices`, `device_groups` | create, edit, heartbeat, resolve a group | rollout creation, receipts |
| Configurations (`domain/configuration`) | `configurations` (unique name and version) | create, publish, deprecate | rollout creation |
| Webhooks (`application/webhook_dispatcher.go`, `domain/webhook`) | `webhook_subscriptions`, `webhook_deliveries` | enqueue, list due, post, record, abandon | receivers over HTTP |
| Audit (`domain/audit`) | `audit_events` | append, timeline functions | every operation |
| Application (`internal/app`) | goroutines, contexts | start, tick, shut down | everything |
| HTTP interface and middleware (`api`) | rate limiter windows, metrics | routing, limits, timeouts | service |
| Functions: planner, summaries, receipt ordering, versions, diff, templates, timelines | none | | see below |

The planner, the progress summaries, the differences and variables of configurations, the health policy,
versions, selector expressions, receipt ordering, timelines, the names of webhook events, the field checks of `validation.go`,
the reports, the metric registry, `RetryPolicy`, the transition history and `RunWithRequestContext` are
written and tested but have no caller in the running service (of `selector` and `content` code only `ParseSelector`
and `ValidateContent` have one). They are modelled for what they promise to whoever calls them, and
compared with what the service does itself.

What is hard here is listed, line by line, under `hazards` in `PROJECT.json`:
whole rows written back over what another handler changed; counts, rule and save
of a reconciliation in separate statements; processes that die half way through
a batch, a rollback or a receipt; receipts that are repeated, late or unasked;
operator calls in any order; page limits; and retries of deliveries under a
deadline.

What makes each part correct:

- rollout service: batches open in order and only when the earlier ones have
  reported; completed means that everybody reported; what is over stays over, unless a handler
  saves a row that another has overtaken; a rule stops a rollout; a rollout whose devices answer
  ends; a rollback reaches what was processed;
- receipts: an outcome on record was reported, once per key, whatever is retried;
- delivery: a device is handed out what it should have;
- configurations: versions of a name are distinct and grow; only published
  configurations are rolled out;
- devices: what was acknowledged stays unless a handler saved an outdated copy; silence shows; a group is whole;
- webhooks: at most the configured number of attempts, nothing posted after it
  succeeded unless the process died, everything ends delivered or abandoned;
- application: no worker uses the database once it is closed, and a signal ends the process;
- rate limiter: a client is let through no more than the limit per window, whatever order requests arrive in;
- histories, timelines, plans, differences, versions, metrics: each keeps the order, the totals or the bounds
  its readers rely on.

## The modules

| Module | Models |
|---|---|
| `RolloutLifecycle` | The domain's table of statuses, as the abstract specification of a rollout's status. |
| `BatchGate` | Batches that open one after the other, as the abstract specification of a staged rollout. |
| `RolloutControl` | One rollout, its targets, receipts and devices, with every handler and the scheduler at the granularity of SQL statements. |
| `MCRolloutControl` | The symmetry of its instances. |
| `RolloutControlProofs` | Theorems about `RolloutControl`. |
| `RolloutOverlap` | `RolloutControl` with a record of what each handler has missed of the others, and what overlaps can spoil and what not. |
| `MCRolloutOverlap` | The symmetry of its instance. |
| `RolloutOverlapProofs` | Theorems about `RolloutOverlap`. |
| `DeviceDelivery` | A device's pull over several running rollouts. |
| `MCDeviceDelivery` | Which devices each rollout has in its instances. |
| `WebhookDispatch` | The outbox of webhook deliveries and the dispatcher's ticks, with their deadlines. |
| `MCWebhookDispatch` | Which events match which subscriptions in its instances. |
| `WebhookDispatchProofs` | Theorems about `WebhookDispatch`. |
| `ConfigurationRegistry` | The configurations' versions and statuses, and rollouts created of them. |
| `MCConfigurationRegistry` | The names and the symmetry of its instance. |
| `ConfigurationRegistryProofs` | Theorems about `ConfigurationRegistry`. |
| `DeviceRegistry` | Devices as rows that edits, heartbeats and receipts read and write whole; groups; health. |
| `MCDeviceRegistry` | The commands of its instances. |
| `DeviceRegistryProofs` | Theorems about `DeviceRegistry`. |
| `ServiceProcess` | The process: workers, server, shutdown, exit; and `RunWithRequestContext`. |
| `ServiceProcessProofs` | Theorems about `ServiceProcess`. |
| `RateLimiter` | The middleware's fixed windows, with requests that wait for the mutex. |
| `TransitionHistory` | `ApplyTransition` and the history its transitions are appended to; instantiates `RolloutLifecycle`. |
| `TransitionHistoryProofs` | Theorems about `TransitionHistory`. |
| `MetricRegistry` | Counters, gauges and histograms. |
| `BatchPlanning` | `CreateRollout`'s batching beside the planner, progress, schedules, and pause rules. |
| `ConfigurationContent` | Differences of JSON documents and the variables of templates. |
| `Versions` | Semantic versions and constraints. |
| `EventOrder` | The order of audit events, of receipts and of stored times. |
| `LibraryInputs` | The input of functions that keep no state, with `RolloutFits` and `ComparesInOrder`, which are asked of them. |
| `MCLibrary` | The parts that share no state, side by side, and their small inputs. |
| `LibraryProofs` | Theorems about `RateLimiter`, `MetricRegistry`, `Versions`, `BatchPlanning` and `EventOrder`. |

### RolloutControl

`rollout`, `target` and `receipt` are the rows of the tables of those names, reduced to the
columns that decide anything; `current` is what receipts last wrote to `current_configuration_id` of the
devices (heartbeats, which write it too, are in `DeviceRegistry`); `audit` the audit actions recorded, of those an instance follows; `due`
tells that `scheduled_at` is absent or past. `job` holds, for each goroutine inside
a handler, the statement it issues next and its local variables: above all
`job[w].row`, the copy of the rollout read at the start and written back at the
end. Each action is one statement together with the code up to the next one:

| Handler | Actions |
|---|---|
| `ProcessRunnableRollouts` | `Schedule`, then as below |
| `StartRollout` (start and resume) | `Start`, `List`, `MarkTarget`*, `SaveRollout`, `Log` |
| `PauseRollout`, `CancelRollout` | `Pause` or `Cancel`, `SaveRollout`, `Log` |
| `RollbackRollout` | `Rollback`, `List`, `MarkTarget`*, `SaveRollout`, `Log` |
| `ReconcileRollout` | `Reconcile`, `CountBatch`, `CountAll` (which concludes with `AutoPause`, `KeepCounts`, `FinishRollback`, `AdvanceBatch` or `Complete`), `List`, `MarkTarget`*, `SaveRollout`, `Log` |
| `PullPendingConfiguration` | `Pull`, `FetchTarget`, `Deliver` |
| `SubmitReceipt` | `Submit`, `InsertReceipt`, `AckTarget`, `RecordDevice`, `Log`, then `ReconcileRollout` |

`Refused` is the early return of a start or reconciliation that reads another
status. `Abort` ends any handler between two statements: a cancelled request, the
deadline of a tick, a busy database, or a crash, which is all of them aborting.
Statements whose errors the code swallows have an action of their own
(`CountAllFails`, `SaveFails`, `LogFails`, `RecordFails`; `RuleFails` for a rule that cannot be read).

Left out: names, texts and timestamps of rows; the columns no decision reads; the
enqueueing of webhook events, which follows each audit record and changes
nothing here; reads that change nothing. The timeout count is always zero,
since nothing in the service assigns `timed_out`. Several workers may be at the
scheduler's work in the model where the program has one goroutine; that is a
superset, and starts and reconciliations can overlap through requests anyway.

`BatchGate` forgets statuses, targets and handlers: which devices have reported, how many batches are open, whether
the rollout is completed. `Gate` in `RolloutControl` maps the stored receipts, `current_batch` and the status to these, so a
batch may be opened by one of many handlers, saved after others died, or resumed, but in order and only when
everybody in the open ones has reported. A completed rollout that is rolled back is taken back. `Replace` is no step of its
`Next`: it is what is left of the promise when a handler saves an overtaken row.

### RolloutOverlap

Nothing locks a rollout and nothing checks a version when one is saved, so a handler may save a row that another has moved
since it was read, with what it decided on it. `RolloutOverlap` adds three history variables to `RolloutControl`,
which restrict no step (the lemma `OverlapIsControl`): each step of `RolloutControl` is one here.

- `outdated`: the handlers whose copy of the row has been overtaken, since the status or the batch was stored by another
  (`Moved`) while they held it, from its reading to its saving (`HoldsRow`);
- `missed`: for each handler, the devices whose outcome was stored in their target since it listed the targets for a
  rollback, or counted them all (`LooksAgain`);
- `blind`: the reconciliations that decided after a count of all targets, or the reading of the rule, had failed.

Its properties say of every interleaving what a handler does that is in none of these positions, and of one that is
outdated, that its save (`Overwrite`) still takes the rollout only to where the reported outcomes justify it (`Replace` in
`BatchGate`). That a save may also take a batch back, undo a cancellation or lose a pause is what the code does.

### DeviceDelivery

`rollout` and `target` are the statuses of the rollouts and their targets, and `pull` what each
device's pull has still to look into. `List` is `ListRollouts`, `Look` one `GetTarget`, `Deliver` the
write of the target, `NothingPending` the empty answer, and `Abort` a failing statement. The
statuses are not read again after `List`. `Start`, `Stop`, `Activate`, `Complete`, `Rollback` and
`Submit` are the other handlers, each in one step, since their statements and how they overlap
are the subject of `RolloutControl`, and a device does not poll again before its pull is answered.
Left out is a rollback that died half way under a paused rollout.

### WebhookDispatch

`row` is the table `webhook_deliveries`, `enabled` a column of the subscriptions, `todo`
what `emit` has still to enqueue for each event, and `tick` the dispatcher's iteration:
where `Process` is (`pc`), the deliveries it listed and has not come to, the attempts they
were listed with, the one it is at, the row it is about to save, and the seconds to its
deadline. `accepted` records what the subscribers answered with 2xx, which no code reads.

| Code | Actions |
|---|---|
| `emit`, `EnqueueDelivery` | `Emit`, `Enqueue`*, `EnqueueFails`* |
| `Process`, `ListDueDeliveries` | `ListDue`, then per delivery as below, `EndTick` |
| `deliver`: subscription | `Load`; `PassOver` when it cannot be read |
| `deliver`: request | `Post`, which is `Reject`, `Accept`, `Unreachable`, `ClientTimesOut` or `CutOff` |
| `recordFailure`, `UpdateDelivery` | `Failed` as part of `Post`; `Save`, `SaveFails` |
| `runTicker` | `DeadlinePasses`, and `left`, which starts at the interval |
| the clock | `SecondPasses` |

Time enters in two places. A tick's context is cancelled after `Interval` seconds
(`internal/app/app.go:95`), and a slow subscriber takes `ClientTimeout` seconds of that,
or all that is left. A retry waits `Backoff` seconds; `next_attempt_at` then only decides which
deliveries are due and in which order, so the model keeps the seconds to wait and, for a due
delivery, the set of those due before it. Payloads, signatures and status codes are left out, as is
what `ListSubscriptions` pages. `Crash` is the death of the process at any point, after which the tick is forgotten
and the table is not; it has no line of its own.

### ConfigurationRegistry

`conf` is the table `configurations` (name, version and status), `rollouts` the
`configuration_id` of each row of `rollouts`, and `job` what a handler has read and the statement
it issues next. `Matches` says which names contain which, since the lookup of the last version uses
`LIKE '%name%'`.

| Code | Actions |
|---|---|
| `CreateConfiguration` | `Create` (up to the version's lookup, whose errors are ignored), `Insert` |
| `PublishConfiguration`, `DeprecateConfiguration` | `Publish` or `Deprecate`, `UpdateStatus` |
| `CreateRollout` | `Load`, `CreateRollout` (its transaction) |
| any statement | `Abort`: it fails, or the process dies |

Left out: contents, formats and digests; the rollback configuration and the rule of a rollout, which
the code does not check; the targets, which `RolloutControl` has. Whole handlers that are refused are no
step, since they change nothing.

### DeviceRegistry

`row` is the table `devices` and `selector` that of groups. `request` holds, for each handler, its command
and the copy of the row it read. `asked` is the row as all acknowledged commands together ask for it, field by
field, and `overlapped` the devices over which a handler saved a copy that was no longer the row; no code reads these.

| Code | Actions |
|---|---|
| `CreateDevice`, `CreateGroup` | the same |
| `UpdateDevice`, `Heartbeat`, the device's part of `SubmitReceipt` | `Read`, then `Write` or `WriteFails` |
| the clock | `TimePasses` |

`ListDevices`, `ResolveGroup` and `resolveTargets` are operators: a page is any of those that `ORDER BY name` allows.
`EvaluateHealth` and `ApplyHealthPolicy` are functions of a row and a time. Registration checks
labels and version, an edit checks neither, and a heartbeat takes a blank version and the device's own
clock, and makes any device online: the model does the same. Nothing in the service retires a device. Texts are numbers; which contains which is a constant.

### ServiceProcess

`main` is where `App.Run` is, `worker` and `request` where the goroutines are, `expired` whether `Shutdown`'s ten
seconds are over. A request runs under `http.TimeoutHandler`: `TimesOut` answers its client
while the handler goes on, and `server.Shutdown` waits for the answer only, so that what is left of the handler ends at a
database that is open or closed (`LateEnds`). `Tick` may be taken after the context is
done, since Go's `select` picks at random. `ServerFails` returns without `Shutdown`, as the code does. `call` is one call of
`RunWithRequestContext` with its channel of one place.

### The library

`RateLimiter` reads the clock (`Arrive`) before it has the mutex (`OpenWindow`, `Count`, `Refuse`), so that times reach
the table out of order. `TransitionHistory` applies a transition and appends it, which may be refused
for a time that goes back. `MetricRegistry` has one action per method. `BatchPlanning`,
`ConfigurationContent`, `Versions` and `EventOrder` are operators named as the functions are, followed by
what is asked of them as operators of one input. Names, ids and times are numbers, rates are in percent, a text is the
sequence of its parts that are compared, and a path is the sequence of its steps. `ConfigurationContent` alone has
recursive operators.

## What the runs check

Numbers are those of the run's `.cfg`. Two batches are enough for order between
batches, the third device makes one batch uneven; two handlers are enough for
every overwriting, which is always one handler writing over one other; two keys let
a device report twice under different keys, or again under the same.

| Run | Instance | Question |
|---|---|---|
| `rollout_overlap` | 2 devices in 2 batches, two handlers that start, cancel, roll back, take receipts and reconcile, failures and deaths between statements, a failure rule of 50 % | `TerminalUnlessOverwritten`, `TransitionsUnlessOverwritten`, `GateUnlessOverwritten`, `RollbackResets`, `RuleHeeded`: what only a save of an overtaken row can do, and what no other does |
| `rollout_concurrent` | 2 devices in 2 batches, two handlers, failures, a failure rule of 50 %, starts, the scheduler, rollbacks, pulls, arbitrary receipts | `TypeOK`, `BatchGating`, `CompletedReported`, `OutcomeBacked`, `CurrentBacked` |
| `rollout_live` | 3 devices, batches of 2, a 50 % rule, fair handlers | `Completes`, `RuleStops` (paused, and that audited), `NoProgressPastRule`, `ImplementsLifecycle`: without rollback, each status change is one of the domain's table, and `ImplementsGate`: each step is one of `BatchGate` |
| `delivery` | 3 rollouts, of which the oldest lacks the only device that polls, pulls that fail | `Served`: what waits for a polling device is handed to it while its rollout runs |
| `webhook_faults` | 2 events, 2 subscribers of which one is slow, 2 attempts, 12 s ticks, failures, crashes, ticks out of time, until they cease | `TypeOK`, `AttemptsBounded`, `SucceededAccepted`, `AbandonedForReason`, `SettledStays`, `PostedWhenDue`, and `Settles`: every delivery is made or given up in the end |
| `registry` | 2 names of which neither contains the other, 3 configurations, 2 rollouts, three handlers of any kind at once, failures | `VersionsContiguous`, `RolledOutPublished` |
| `devices` | 2 devices, 3 requests of which 2 at a time, 3 seconds, a largest page of 2 | `AcknowledgedKept`, `OfflineAgrees`, `GroupWhole`, `StaleFirst` |
| `process` | 2 workers, 2 requests, fair | `ClosedLast`, `Terminates`, `CallEnds` |
| `library` | the rate limiter with 3 waiting requests and a limit of 2; 5 transitions at 3 times; one metric, two labelled series and counts up to 2; and every input of a few elements | `AdmittedBounded`, `HistoryValid`, `BucketsCumulative`, `NeverLower`, `RolloutFits`, `DiffApplies`, `ComparesInOrder`, `OrderKept` |

Three deliveries (one event to both subscribers, one to the second) and pages of two make ticks
that leave a delivery out and a second one in the same tick to be delayed by the first;
two attempts reach every case of `recordFailure`. In `registry`, three configurations are enough for
two creations that read the same last version and a third under the other name; a worker
that reads nothing falls back to version 1. The third worker lets a publication, a deprecation and the creation of a rollout
meet over one configuration, with nothing kept apart.

`rollout_overlap` has the calls that an overtaken row can harm: a start or a reconciliation that saves over a
cancellation or a rollback, and the receipts that both miss. Two handlers are enough, since each save is over one row, and
with the rule they pause as well. `ImplementsGate`, `ImplementsLifecycle` and `NoProgressPastRule` in
`rollout_live` are of handlers one at a time, with pauses, the scheduler and pulls, where nothing is overtaken; for overlapping
handlers `GateUnlessOverwritten`, `TransitionsUnlessOverwritten` and `RuleHeeded` take their place. The
invariants of `rollout_concurrent` are true of any overlap. A rollout is paused there by its rule only, and it has no
cancellations, which `rollout_overlap` has.

`delivery` has two rollouts of the device, so that one with nothing left for it, which the pull looks at
first, runs on before one that waits; the third, older than both, is looked at when there is nothing
else, and makes the pull fail.

In `devices`, three requests are one more than it takes to overwrite, and the page of two just holds all devices, which is
where `lim` changes. In `library`, the limiter's seven seconds hold more than two windows of three; 5 transitions reach a
status a second time; documents have up to three levels, arrays of different lengths and keys on one side only;
prereleases are up to two identifiers, numbers with zeros before them and texts; events and receipts are
three at a time, tied and untied; stored times are every pair of three-digit fractions in two seconds.

More that the models show, or that was met while writing them, without a run of its own:

- a pull hands out a configuration although the rollout was paused or cancelled since the pull looked at it;
- a start that read the draft before it was cancelled saves it as running, and a cancellation of a rollback that is under
  way is accepted, though the domain's table has no such move;
- a receipt that is stored by a service that dies before it writes the target is answered as a duplicate when it
  is repeated, and the target stays as it was;
- a rollout that is resumed after a rollback died half-way has targets that wait for the rollback configuration, under a
  rollout of the other;
- a configuration may be deprecated between the check that it is published and the rollout's insertion, and a publication
  that read the draft before a deprecation undoes it;
- a service that dies between saving an automatic pause and auditing it never audits it;
- a rollback from the second batch ends, with a late receipt of that batch, while targets of the first wait for it;
- a batch larger than a page (`activateBatch` asks for 10000 targets, which `lim` makes 100) never finishes, and
  `RollbackRollout` and `BuildRolloutReport` see 100 targets for the same reason;
- with the default interval of 2 s, a subscriber that takes longer is posted to for ever, since its attempts are never
  recorded: `Settles` needs ticks longer than the client's timeout;
- `Evaluate` is given as its offline count the targets that have answered, so an offline rule pauses a rollout
  of which all succeed; and no receipt ever times out, although a timeout and a timeout rate can be configured;
- a scheduled rollout started early by hand is not reconciled by the scheduler before its time (`ScheduleHolds` in
  `BatchPlanning` says so);
- a percentage wins over a size in `CreateRollout`, a size over a percentage in the planner: they agree on what
  `ValidateRolloutCommand` accepts, which nobody calls;
- `CreateRollout` does not know the `*` model that `Compatible` accepts; `rollout.auto_paused` is not
  among the event types that `ValidateEventTypes` accepts;
- edits and heartbeats take labels and versions that a registration refuses; a group beyond the largest page is cut;
- the server's write timeout is longer than `Shutdown`'s ten seconds, so that a handler may find the database closed;
- histograms without labels are never rendered, and reset when configured again; a history goes on
  after a refused append, so it may end elsewhere than the rollout;
- `MergeTimelines` does not order events of one time by id, as `BuildTimeline` does; `ValidateSequence` of receipts
  takes two empty keys for duplicates; a variable defined with spaces around its name validates but never resolves;
- stored times sort wrongly within a second when one fraction is shorter (`TimesHold` in `EventOrder`).

Disagreements between the code and what the repository says of it, each with a
counterexample:

| Run | What happens |
|---|---|
| `rollout_rollback_sent` | Targets that wait for the rollback configuration are never sent it. |
| `delivery_uncovered` | A device is handed nothing while a newer rollout that it is no target of runs: the service takes the repository's not-found for a failure. |
| `group_selector` | A group resolves to the devices whose name or id holds its selector's text, not to those with the label. |

### Fairness

`FairSpec` assumes that a handler that has begun goes on (the runs with fairness have
no failing statements), that the scheduled time comes, and, strongly, that
the scheduler ticks, that devices poll and answer what they were sent, and that an
operator who paused a rollout, or found it paused, resumes it. The first three are the service's own
tickers and goroutines. The other two are assumptions on the environment, without which the code
promises nothing: no timeout ends the wait for a silent device. They are strong because one
worker stands for the turns that requests get, and is free only now and then.

`FairSpec` of `DeviceDelivery` assumes that the device polls (`WF` of `List`) and answers (`WF` of `Submit`), and
that no statement of its pulls fails every time it is issued (`SF` of `Look` for each rollout, `NothingPending` and
`Deliver`). Nothing is assumed of operators, the scheduler or the batches.

`FairSpec` of `WebhookDispatch` assumes that the ticker and each tick go on and that time passes
(`WF` of `Dispatch` and of `SecondPasses`): goroutines and the clock. `FaultsCease` adds that at some time
statements no longer fail, the process no longer dies and no tick's other work eats up its time, without which
nothing need ever be recorded. Nothing is assumed of subscribers.

`FairSpec` of `ServiceProcess` assumes that `App.Run` goes on (`WF` of its steps), that the work of a tick ends, which its
deadline makes it do, and that a worker whose context is done does not take a tick for ever (`SF` of `Stop`, since `select`
picks at random among what is ready). Handlers need not end, and a signal need not come. The work of a call ends once its
context is done.

## What is proved

`RolloutControlProofs` proves, for every number of devices, batch size, page limit,
set of keys and workers, rule and selection of calls, with failing statements and
overlapping handlers:

- `TypeCorrect`: `Spec => []TypeOK`;
- `GatingHolds`: `Spec => []BatchGating`;
- `CompletionHolds`: `Spec => []CompletedReported`;
- `OutcomeHolds`: `Spec => []OutcomeBacked`;
- `CurrentHolds`: `Spec => []CurrentBacked`.

None of these is inductive. A handler that is about to write brings back a copy of a
row which no longer agrees with the table, so the invariant has to say what every
such copy can be. The argument rests on one monotone fact: the set of stored receipts
only grows. What a job carries is *sound* if it is justified by the receipts stored so
far: a row whose batch is `b` only if the devices before `b` have reported, a
row that is completed only if all have, a target in its list to be made ready only if the
batches before it have reported, a receipt to be acknowledged only if it is stored.
Soundness is preserved by every step of any handler, since more receipts justify more, and
a write of a sound copy makes the table sound. The theorem `TypeAndInvariant` is that
induction; the others follow from it. Assumptions used are the named ones of `RolloutControl`.

`WebhookDispatchProofs` proves, for all events, subscriptions, matchings, bounds on attempts
(zero and negative ones too, which the configuration accepts), intervals, timeouts and page sizes, with
failing statements and crashes: `TypeCorrect`, `AttemptsHold` (`AttemptsBounded`), `SuccessHolds`
(`SucceededAccepted`), `AbandonHolds` (`AbandonedForReason`), `SettledHolds`
(`SettledStays`) and `PostedHolds` (`PostedWhenDue`). A tick works on rows it listed earlier, so the induction needs that
what it has still to deliver is due and has the attempts it was listed with (`Fresh`),
and that the row about to be saved may stand in the table (`RowSound`). It holds because
nobody else writes an existing row: there is one dispatcher, and a crash forgets its tick.

`ConfigurationRegistryProofs` proves, for all names, matchings, orders, ids, rollouts, workers
and selections of calls, with failing statements: `VersionsHold` (`VersionsContiguous`) and
`RolledOutHolds` (`RolledOutPublished`). What a handler has read may be out of date when it writes, so the
invariant says what stays true of it: the version about to be inserted is 1 or follows one
that is in the table (versions are never removed), a configuration about to be published is in it, and one about
to be deprecated or rolled out has been published, which nothing undoes. `UNIQUE(name, version)` does the rest.

`RolloutOverlapProofs` proves, of `OverlapSpec` and nothing else, for the same constants as `RolloutControlProofs`, with
handlers that overlap as they like and die at any statement, so that what they leave behind is found by the next:

| Theorem | States |
|---|---|
| `TerminalHolds` | `TerminalUnlessOverwritten` |
| `TransitionsHold` | `TransitionsUnlessOverwritten` |
| `GateHolds` | `GateUnlessOverwritten`: initial states are those of `BatchGate`, and each step is one of its steps, a stutter, or an overtaken row put back |
| `RollbackHolds` | `RollbackResets` |
| `RuleHolds` | `RuleHeeded` |

There is no condition on how steps are ordered, on the page or on failing statements. What the code cannot keep is in the
properties themselves: the saves of overtaken rows, the outcomes stored after a handler looked, the page that a rollback
lists, and reconciliations that could not count or read the rule. The two moves that
`TransitionsUnlessOverwritten` adds to the domain's table are needed too, for `CancelRollout` and the automatic pause both
take a rollout out of `rolling_back`.

The invariant `CopyInv` (`CopiesFresh`) says how each copy that is not outdated relates to the store: the row about to be
saved *follows* the stored one, by the status changes and the single step of the batch that the code makes
(`Follows`), and between the two counts the row is as it was read. It also says that a draft, stored or copied, has no
batch (`Steady`). `DecisionInv` (`DecisionsHold`) does the same for the targets, up to those in `missed`: the targets
to be reset by a rollback are all that its page has still to reset (`Resets`), and a row that opens a batch or completes was
decided with failures below the rate (`Heeds`). That an overtaken row, when it is saved, leaves only what was reported is
the soundness of `RolloutControlProofs`, which holds of every copy; so is the guard of `BatchGate`'s steps, that the
earlier batches have reported.

`DeviceRegistryProofs` proves, for any devices, requests, commands, policies and bounds: `AcknowledgedHolds`
(`AcknowledgedKept`), `OfflineHolds` (`OfflineAgrees`), `StaleFirstHolds` (`StaleFirst`) and `GroupHolds` (`GroupWhole`),
beside `TypeCorrect`. `AcknowledgedKept` is inductive once requests are known to be of registered devices, by the
lemma `ChangedIsAsked`: a command changes just the fields it asks for, so that a row saved over an unchanged one stays
what was asked. The
other three are about functions of the rows and the clock, and need the types only.

`ServiceProcessProofs` proves, for any workers and requests, `ClosedLastHolds` (`ClosedLast`): past `waitGroup.Wait`
all workers have stopped, and past `Shutdown` its time has run out or nobody is waiting for an answer. `SendNeverWaits`
says that the work of `RunWithRequestContext` has room in its channel whenever it sends, on which `CallEnds` rests.

`TransitionHistoryProofs` proves `HistoryHolds` (`HistoryValid`) for histories of any length and any times. The
invariant adds what a status says of the times (nothing before a start has one, whatever started has) and that no time taken is
later than the latest given.

`LibraryProofs` proves `AdmittedHolds` (`AdmittedBounded`), for any limit, window and clients: requests reach the
table out of order, so the invariant counts by windows and not by requests (`WindowSound`), and the arithmetic is that
every new window is a whole one after the last. It proves `BucketsHold` (`BucketsCumulative`) and `NeverLowerHolds`
(`NeverLower`) of the metric registry, for bounds and samples that are numbers: every histogram, whether
rendered or not, is cumulative and below its total. Of the functions without state it proves what the `library` run checks for
small inputs, for every input (`RolloutFitsHolds` of `RolloutFits`, `ComparesHold` of `ComparesInOrder`), from:

- `SizesHold`: `CreateRollout` and the planner size an accepted command alike, and its batches are 1 to `BatchCount`,
  of that size but for the last, which has the rest. A device's batch follows from its place, the number of devices
  before it; the places are 0 to n - 1, each once, since they are injective into as many numbers, and the devices of a batch
  are those whose places are in an interval;
- `ProgressCounted`: each target is counted once, and the rates are whole just when they should be. This is of fewer than
  20000 targets: of more, rounding to hundredths makes 99.995 percent whole, which bounded inputs would never show. A rollout's
  page of targets is half that;
- `ScheduleKept`: a rollout created of an accepted command is either scheduled or runnable, as the scheduler's query sees it;
- `RulePauses`: `Evaluate` and `Decision` agree where the counts fit together, and one more failure or fewer devices never turn a
  pause into none, nor its reason into a lesser one;
- `VersionsInOrder`: comparing versions, of any numbers and prereleases of any length, is a total
  order, and a constraint matches just what lies between its bounds. Comparing two prereleases is deciding at the first place
  where they differ, so the transitivity of three is a matter of the least of three places;
- `TimesInOrder`: stored times, with a fraction of any length, are told apart, and are in the order of time but within a
  second, where two fractions of different lengths can sort wrongly.

Assumptions on constants are the named ones of the modules and the hypotheses of the theorems, as listed here.
Only model-checked are:

- liveness, which the prover has no rules for: `Completes`, `RuleStops`, `Served`, `Settles`, `Terminates`, `CallEnds`;
- what is defined by recursion, by a fold or by the library's sorting, over data of any length: `DiffApplies`, and `OrderKept`,
  which is of plans, timelines and receipts, all of them sorted, and of the time a history accounts for. That such a definition has
  the value of its equation is an induction the prover cannot instantiate, and it knows nothing of `SortSeq`.

## Plan

Done: every component but those named below, and the theorems above. What is left:

1. That a pull of `DeviceDelivery` hands out only what was running when it listed the rollouts, as a theorem.
2. Webhook subscriptions and their event types, with changes of a subscription while events are enqueued.

Not modelled: HTTP decoding, configuration files, logging, migrations, request IDs, CORS, the
console, the reports and the read-only queries, which keep no state of their own; `RetryPolicy`, `Rollout.Transition` and
`ApplyTargetTransition`, which have no caller and whose tables are not those the service follows; and that events, which
are enqueued after the change they tell of, reach every subscriber, which the code does not promise.
