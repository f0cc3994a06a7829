--------------------------- MODULE BatchPlanning ---------------------------
(***************************************************************************)
(* How a rollout's devices are cut into batches: by CreateRollout, and by  *)
(* the planner of domain/rollout.  Device ids are numbers in their order,  *)
(* 0 the empty id; a candidate is [id, online, critical], and options give *)
(* its stable hash.  A time is a number, 0 none; a minute is Minute.  And   *)
(* the rules that pause a rollout (domain/rule), with rates in percent.    *)
(***************************************************************************)
EXTENDS Integers, SequencesExt

CONSTANT Minute

CeilDiv(n, k) == (n + k - 1) \div k

-----------------------------------------------------------------------------
(* CreateRollout.                                                          *)

\* What CreateRollout asks of a command itself.
Creatable(c) ==
    /\ c.strategy \in {"", "immediate", "scheduled", "percentage"}
    /\ c.strategy = "scheduled" => c.scheduled # 0

\* validation.go: what ValidateRolloutCommand asks of a command.
ValidateRolloutCommand(c, now) ==
    /\ c.strategy \in {"", "immediate", "scheduled", "percentage"}
    /\ c.strategy = "scheduled" => c.scheduled # 0
    /\ c.scheduled # 0 => c.scheduled >= now
    /\ c.size >= 0 /\ c.percent \in 0..100
    /\ ~(c.size > 0 /\ c.percent > 0)
    /\ c.group \/ c.ids # <<>>
    /\ 0 \notin ToSet(c.ids) /\ IsInjective(c.ids)

\* A percentage wins over a size; what does not fit is one batch of all.
ServiceBatchSize(n, c) ==
    LET size == IF c.percent > 0 THEN CeilDiv(n * c.percent, 100) ELSE c.size
    IN  IF size <= 0 \/ size > n THEN n ELSE size

\* The batch of each device's target, the devices taken in the order of their ids.
Targets(devices, size) ==
    [d \in devices |-> Cardinality({e \in devices : e < d}) \div size + 1]

BatchCount(n, size) == IF size <= 0 \/ n <= 0 THEN 0 ELSE CeilDiv(n, size)

\* Each batch in the order of the ids, so that it is the set of them.
GroupTargetsByBatch(targets) ==
    [b \in Range(targets) |-> {d \in DOMAIN targets : targets[d] = b}]

-----------------------------------------------------------------------------
(* The planner.                                                            *)

NoPlan == [total |-> 0, size |-> 0, batches |-> <<>>]

\* Slip: the percentage is rounded down.
SizeRoundedDown(total, explicit, percent) ==
    CASE total <= 0   -> 0
      [] total > 0 /\ explicit > 0 -> IF explicit > total THEN total ELSE explicit
      [] total > 0 /\ explicit <= 0 /\ percent > 0 ->
            IF total * percent < 100 THEN 1 ELSE (total * percent) \div 100
      [] OTHER -> total

CalculateBatchSize(total, explicit, percent) ==
    CASE total <= 0   -> 0
      [] total > 0 /\ explicit > 0 -> IF explicit > total THEN total ELSE explicit
      [] total > 0 /\ explicit <= 0 /\ percent > 0 -> CeilDiv(total * percent, 100)
      [] OTHER -> total

\* normalizeCandidates.
Normal(candidates) ==
    LET ids == [i \in DOMAIN candidates |-> candidates[i].id]
    IN  0 \notin ToSet(ids) /\ IsInjective(ids)

\* orderCandidates.
Before(a, b, o) ==
    IF o.criticalFirst /\ a.critical # b.critical THEN a.critical
    ELSE IF o.offlineLast /\ a.online # b.online THEN a.online
    ELSE IF o.hash[a.id] # o.hash[b.id] THEN o.hash[a.id] < o.hash[b.id]
    ELSE a.id < b.id

Counted(number, members) ==
    [number   |-> number, candidates |-> members,
     online   |-> Len(SelectSeq(members, LAMBDA m : m.online)),
     offline  |-> Len(SelectSeq(members, LAMBDA m : ~m.online)),
     critical |-> Len(SelectSeq(members, LAMBDA m : m.critical))]

BuildPlan(candidates, o) ==
    IF candidates = <<>> \/ o.percent \notin 0..100 \/ ~Normal(candidates) THEN NoPlan
    ELSE LET n == Len(candidates)
             size == CalculateBatchSize(n, o.size, o.percent)
             ordered == SetToSortSeq(ToSet(candidates), LAMBDA a, b : Before(a, b, o))
         IN  [total |-> n, size |-> size,
              batches |-> [k \in 1..CeilDiv(n, size) |->
                  Counted(k, SubSeq(ordered, (k - 1) * size + 1, IF k * size > n THEN n ELSE k * size))]]

Planned(plan) == FlattenSeq([k \in DOMAIN plan.batches |-> plan.batches[k].candidates])
CandidateIDs(plan) == [i \in DOMAIN Planned(plan) |-> Planned(plan)[i].id]

Validate(plan) ==
    /\ plan.total > 0 /\ plan.size > 0
    /\ \A k \in DOMAIN plan.batches :
          plan.batches[k].number = k /\ Len(plan.batches[k].candidates) \in 1..plan.size
    /\ IsInjective(CandidateIDs(plan)) /\ Len(CandidateIDs(plan)) = plan.total

\* The number of a candidate's batch, 0 if it is in none.
FindCandidate(plan, id) ==
    LET k == SelectInSeq(plan.batches, LAMBDA b : \E i \in DOMAIN b.candidates : b.candidates[i].id = id)
    IN  IF k = 0 THEN 0 ELSE plan.batches[k].number

BuildBatchWindows(plan, start, interval, timeout) ==
    IF ~Validate(plan) \/ interval < 0 \/ timeout <= 0 THEN <<>>
    ELSE [k \in DOMAIN plan.batches |->
             [number |-> k, start |-> start + (k - 1) * interval,
              deadline |-> start + (k - 1) * interval + timeout]]

-----------------------------------------------------------------------------
(* Progress and schedule (summary.go).                                     *)

Count(statuses, S) == Cardinality({i \in DOMAIN statuses : statuses[i] \in S})

\* In hundredths of a percent, a half rounded up.
Rate(part, whole) == IF whole = 0 THEN 0 ELSE (2 * part * 10000 + whole) \div (2 * whole)

BuildProgress(statuses) ==
    LET succeeded == Count(statuses, {"succeeded", "rolled_back"})
        failed    == Count(statuses, {"failed"})
        timedOut  == Count(statuses, {"timed_out"})
        terminal  == succeeded + failed + timedOut
    IN  [total     |-> Len(statuses),
         pending   |-> Count(statuses, {"pending", "rollback_pending"}),
         ready     |-> Count(statuses, {"ready"}),
         delivered |-> Count(statuses, {"delivered"}),
         succeeded |-> succeeded, failed |-> failed, timedOut |-> timedOut,
         percentage  |-> Rate(terminal, Len(statuses)),
         failureRate |-> Rate(failed + timedOut, terminal)]

IsScheduled(r, now) == r.status = "draft" /\ r.scheduled # 0 /\ r.scheduled > now

IsRunnable(r, now) ==
    \/ r.status = "running"
    \/ r.status = "draft" /\ (r.scheduled = 0 \/ r.scheduled <= now)

ValidateSchedule(r, now) ==
    /\ r.strategy = "scheduled" => r.scheduled # 0
    /\ ~(r.scheduled # 0 /\ r.scheduled < now - Minute /\ r.status = "draft")

\* ListRunnableRollouts, the query of the scheduler.
Listed(r, now) == r.status \in {"draft", "running"} /\ (r.scheduled = 0 \/ r.scheduled <= now)

-----------------------------------------------------------------------------
(* Pause rules.                                                            *)

Reached(rate, n, total) == rate > 0 /\ 100 * n >= rate * total

\* The reason to pause, failures first.
Reason(rule, m) ==
    CASE Reached(rule.failure, m.failed, m.total) -> "failure_rate"
      [] ~Reached(rule.failure, m.failed, m.total) /\ Reached(rule.offline, m.offline, m.total) -> "offline_rate"
      [] OTHER -> IF Reached(rule.timeout, m.timedOut, m.total) THEN "timeout_rate" ELSE "none"

Evaluate(rule, m) ==
    IF \E n \in {m.failed, m.offline, m.timedOut} : n \notin 0..m.total THEN "invalid"
    ELSE IF ~rule.enabled \/ m.total = 0 THEN "none" ELSE Reason(rule, m)

\* Metrics.Valid asks nothing of the offline devices but their sign.
ValidMetrics(m) ==
    /\ \A n \in {m.total, m.succeeded, m.failed, m.timedOut, m.offline} : n >= 0
    /\ m.succeeded + m.failed + m.timedOut <= m.total

Decision(rule, m) ==
    IF ~ValidMetrics(m) \/ ~rule.enabled \/ m.total = 0 THEN "none" ELSE Reason(rule, m)

-----------------------------------------------------------------------------
(* What is asked of them, for inputs x.                                    *)

\* A plan is valid and holds every candidate; it is the same whatever order
\* the candidates came in; a later batch holds no candidate that belongs
\* before one of an earlier batch.
PlanHolds(x) ==
    LET plan == BuildPlan(x.candidates, x.options)
        ids  == {x.candidates[i].id : i \in DOMAIN x.candidates}
        all  == Planned(plan)
    IN  plan # NoPlan =>
            /\ Validate(plan)
            /\ ToSet(CandidateIDs(plan)) = ids
            /\ plan = BuildPlan(SetToSortSeq(ToSet(x.candidates), LAMBDA a, b : a.id < b.id), x.options)
            /\ \A i, j \in DOMAIN all :
                  FindCandidate(plan, all[i].id) < FindCandidate(plan, all[j].id)
                     => Before(all[i], all[j], x.options)
            /\ MapThenSumSet(LAMBDA k : plan.batches[k].online + plan.batches[k].offline,
                             DOMAIN plan.batches) = plan.total
            /\ LET w == BuildBatchWindows(plan, 0, 2, 3)
               IN  \A k \in DOMAIN w : k > 1 => w[k - 1].start < w[k].start /\ w[k].start < w[k - 1].deadline

\* A command that ValidateRolloutCommand accepts is sized alike by CreateRollout
\* and the planner; the batches CreateRollout numbers are as many as BatchCount
\* says and of that size, but for the last, which has the rest.
SizesAgree(x) ==
    LET n     == Cardinality(x.devices)
        size  == ServiceBatchSize(n, x.command)
        batch == GroupTargetsByBatch(Targets(x.devices, size))
    IN  ValidateRolloutCommand(x.command, x.now) =>
            /\ Creatable(x.command)
            /\ size = CalculateBatchSize(n, x.command.size, x.command.percent)
            /\ DOMAIN batch = 1..BatchCount(n, size)
            /\ \A b \in DOMAIN batch :
                  Cardinality(batch[b]) = IF b < BatchCount(n, size) THEN size
                                          ELSE n - size * (BatchCount(n, size) - 1)

\* Every target is counted once; the percentage is whole when, and only when,
\* every target has ended, and the failure rate when none of them succeeded.  Of
\* 20000 targets and more rounding makes it whole before.
ProgressHolds(x) ==
    LET p == BuildProgress(x.statuses)
    IN  /\ p.total = p.pending + p.ready + p.delivered + p.succeeded + p.failed + p.timedOut
        /\ p.total > 0 => (p.percentage = 10000 <=> p.pending + p.ready + p.delivered = 0)
        /\ p.failureRate = 10000 <=> p.succeeded = 0 /\ p.failed + p.timedOut > 0

\* A rollout created of an accepted command passes ValidateSchedule, and is from
\* then on either scheduled or runnable, as the scheduler's query sees it.  One
\* that was started early is runnable, but not listed before its time.
ScheduleHolds(x) ==
    LET r == [status |-> "draft", strategy |-> x.command.strategy, scheduled |-> x.command.scheduled]
    IN  ValidateRolloutCommand(x.command, x.now) =>
            /\ ValidateSchedule(r, x.now)
            /\ \A later \in x.now..x.now + 2 * Minute :
                  /\ IsScheduled(r, later) <=> ~IsRunnable(r, later)
                  /\ IsRunnable(r, later) <=> Listed(r, later)
                  /\ Listed([r EXCEPT !.status = "running"], later) <=> ~IsScheduled(r, later)

\* Where the counts fit together the domain has one answer.  A rule that pauses
\* goes on to do so, for the same reason or a graver one, with one more failure,
\* and with the counts of some of the devices taken for those of all.
RuleHolds(x) ==
    LET m == x.metrics
        reason == Evaluate(x.rule, m)
        graver == CASE reason = "failure_rate" -> {"failure_rate"}
                    [] reason = "offline_rate" -> {"failure_rate", "offline_rate"}
                    [] OTHER -> {"failure_rate", "offline_rate", "timeout_rate"}
        fewer  == {[m EXCEPT !.total = n] : n \in 0..m.total - 1}
    IN  /\ ValidMetrics(m) /\ m.offline <= m.total => Decision(x.rule, m) = reason
        /\ reason \notin {"none", "invalid"} =>
              /\ Evaluate(x.rule, [m EXCEPT !.failed = @ + 1]) \in graver \cup {"invalid"}
              /\ \A f \in fewer : f.total > 0 => Evaluate(x.rule, f) \in graver \cup {"invalid"}
              /\ \A f \in fewer : ValidMetrics(f) /\ f.total > 0 => Decision(x.rule, f) \in graver

=============================================================================
