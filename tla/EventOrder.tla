----------------------------- MODULE EventOrder -----------------------------
(***************************************************************************)
(* How audit events and receipts are put in order: timelines of domain/    *)
(* audit, and ordering.go of domain/receipt.  Ids, keys and times are      *)
(* numbers; 0 is the empty key, and the time a device did not give.  And   *)
(* times as the repository stores and compares them, which is as text.     *)
(***************************************************************************)
EXTENDS Integers, SequencesExt

\* sort.SliceStable.
StableSort(s, less(_, _)) ==
    LET order == SetToSortSeq(DOMAIN s, LAMBDA i, j : less(s[i], s[j]) \/ (~less(s[j], s[i]) /\ i < j))
    IN  [k \in DOMAIN s |-> s[order[k]]]

\* Of several events with the same id, the first is kept.
FirstOfEach(s) ==
    LET kept == SelectSeq([i \in DOMAIN s |-> i], LAMBDA i : \A j \in 1..i - 1 : s[j].id # s[i].id)
    IN  [k \in DOMAIN kept |-> s[kept[k]]]

-----------------------------------------------------------------------------
(* Timelines of events [id, resource, action, at].                         *)

\* Refused with an empty timeline.
Mixed(events) == \E i \in DOMAIN events : events[i].resource # events[1].resource

BuildTimeline(events) ==
    IF Mixed(events) THEN <<>>
    ELSE StableSort(events, LAMBDA e, f : e.at < f.at \/ (e.at = f.at /\ e.id < f.id))

\* Only the times are compared: at equal times the timelines' order stays.
MergeTimelines(timelines) ==
    StableSort(FirstOfEach(FlattenSeq(timelines)), LAMBDA e, f : e.at < f.at)

ValidateActions(timeline, required) ==
    LET advance(position, e) ==
            IF position < Len(required) /\ e.action = required[position + 1] THEN position + 1 ELSE position
    IN  FoldLeft(advance, 0, timeline) = Len(required)

Actions(timeline) == {timeline[i].action : i \in DOMAIN timeline}
Find(timeline, action) == SelectSeq(timeline, LAMBDA e : e.action = action)
Duration(timeline) == IF timeline = <<>> THEN 0 ELSE timeline[Len(timeline)].at - timeline[1].at

-----------------------------------------------------------------------------
(* Receipts [id, key, target, configuration, status, device, received].    *)

\* Slip: the device's clock is not looked at.
CompareReceived(old, new) ==
    CASE old.key # 0 /\ old.key = new.key -> "duplicate"
      [] ~(old.key # 0 /\ old.key = new.key) ->
            IF old.target # new.target \/ old.configuration # new.configuration THEN "conflict"
            ELSE IF new.received < old.received THEN "stale"
            ELSE "accept"

Compare(old, new) ==
    LET timed == old.device # 0 /\ new.device # 0
    IN  CASE old.key # 0 /\ old.key = new.key -> "duplicate"
          [] ~(old.key # 0 /\ old.key = new.key) ->
                IF old.target # new.target \/ old.configuration # new.configuration THEN "conflict"
                ELSE IF timed /\ new.device < old.device THEN "stale"
                ELSE IF timed /\ new.device = old.device /\ new.status # old.status THEN "conflict"
                ELSE IF new.received < old.received THEN "stale"
                ELSE "accept"

SortByReceivedAt(receipts, descending) ==
    LET before(r, s) == r.received < s.received \/ (r.received = s.received /\ r.id < s.id)
    IN  StableSort(receipts, LAMBDA r, s : IF descending THEN before(s, r) ELSE before(r, s))

\* At equal times the first received stays.
LatestByDevice(receipts) ==
    LET of(t) == SelectSeq(receipts, LAMBDA r : r.target = t)
    IN  [t \in {receipts[i].target : i \in DOMAIN receipts} |->
            FoldLeft(LAMBDA r, s : IF s.received > r.received THEN s ELSE r, of(t)[1], of(t))]

\* Each receipt is compared with the one before it of the same target; receipts
\* without a key count as having the same.
ValidateSequence(receipts) ==
    LET s == SortByReceivedAt(receipts, FALSE)
    IN  /\ IsInjective([i \in DOMAIN s |-> s[i].key])
        /\ \A i, j \in DOMAIN s :
              /\ i < j /\ s[i].target = s[j].target
              /\ \A k \in i + 1..j - 1 : s[k].target # s[i].target
              => Compare(s[i], s[j]) \notin {"conflict", "stale"}

Summarize(receipts) ==
    LET counted(S) == Len(SelectSeq(receipts, LAMBDA r : r.status \in S))
        times == {receipts[i].received : i \in DOMAIN receipts}
    IN  [total |-> Len(receipts), succeeded |-> counted({"succeeded"}),
         failed |-> counted({"failed"}), timedOut |-> counted({"timeout"}),
         first |-> IF times = {} THEN 0 ELSE Min(times),
         last  |-> IF times = {} THEN 0 ELSE Max(times)]

-----------------------------------------------------------------------------
(* Stored times [second, fraction], the fraction as its digits.            *)

Point == -1     \* "." comes before the digits,
Zulu  == 10     \* "Z" after them

\* RFC3339Nano: no zeros at the end of the fraction, and no point without one.
ts(t) ==
    LET digits == SelectLastInSeq(t.fraction, LAMBDA d : d # 0)
    IN  IF digits = 0 THEN <<t.second, Zulu>>
        ELSE <<t.second, Point>> \o SubSeq(t.fraction, 1, digits) \o <<Zulu>>

\* SQLite's comparison of texts.
TextBefore(s, t) ==
    \E i \in DOMAIN s \cap DOMAIN t : s[i] < t[i] /\ \A j \in 1..i - 1 : s[j] = t[j]

-----------------------------------------------------------------------------
(* What is asked of them, for inputs x.                                    *)

\* A timeline is the same whatever order its events came in, and parts of it
\* that share events merge into it where no two events are of one time; the
\* actions required are found exactly when they are among its own in that order.
TimelineHolds(x) ==
    LET whole == BuildTimeline(x.events)
        part(S) == BuildTimeline(SelectSeq(x.events, LAMBDA e : e.id \in S))
        merged == MergeTimelines(<<part(x.left), part(x.right)>>)
        untied == IsInjective([i \in DOMAIN x.events |-> x.events[i].at])
        held == SelectSeq(x.events, LAMBDA e : e.id \in x.left \cup x.right)
        actionsOf(D) == LET s == SetToSortSeq(D, <) IN [k \in DOMAIN s |-> whole[s[k]].action]
    IN  ~Mixed(x.events) =>
            /\ whole = BuildTimeline(Reverse(x.events))
            /\ untied => merged = BuildTimeline(held)
            /\ ToSet(merged) = ToSet(held) /\ Len(merged) = Len(held)
            /\ IsSorted(merged, LAMBDA e, f : e.at <= f.at)
            /\ ValidateActions(whole, x.required)
                  <=> \E D \in SUBSET DOMAIN whole : actionsOf(D) = x.required
            /\ Actions(merged) = {e.action : e \in ToSet(held)}
            /\ Duration(merged) <= Duration(whole)

\* Receipts in an order that validates tell one story per target, whatever
\* order they came in: one configuration, and where every device time is given,
\* times that do not go back and one status at a time.
ReceiptsHold(x) ==
    LET rs == x.receipts
        sorted == SortByReceivedAt(rs, FALSE)
        sameTarget(i, j) == sorted[i].target = sorted[j].target
        summary == Summarize(rs)
    IN  /\ sorted = Reverse(SortByReceivedAt(rs, TRUE))
        /\ ValidateSequence(rs) <=> ValidateSequence(sorted)
        /\ ValidateSequence(rs) =>
              \A i, j \in DOMAIN sorted : i < j /\ sameTarget(i, j) =>
                 /\ sorted[i].configuration = sorted[j].configuration
                 /\ (\A k \in DOMAIN sorted : sameTarget(i, k) => sorted[k].device # 0) =>
                       /\ sorted[i].device <= sorted[j].device
                       /\ sorted[i].device = sorted[j].device => sorted[i].status = sorted[j].status
        /\ \A r \in ToSet(rs) : LatestByDevice(rs)[r.target].received >= r.received
        /\ summary.total = summary.succeeded + summary.failed + summary.timedOut
        /\ \A r \in ToSet(rs) : r.received \in summary.first..summary.last

\* Times that are stored apart are apart by less than a second if their texts
\* are in the wrong order, and then one of the fractions is the longer one.
TimesHold(x) ==
    LET later == x.s.second > x.t.second
                 \/ (x.s.second = x.t.second /\ TextBefore(x.t.fraction, x.s.fraction))
    IN  /\ ts(x.s) = ts(x.t) <=> x.s = x.t
        /\ TextBefore(ts(x.s), ts(x.t)) \/ TextBefore(ts(x.t), ts(x.s)) \/ x.s = x.t
        /\ later /\ TextBefore(ts(x.s), ts(x.t)) =>
              x.s.second = x.t.second /\ Len(ts(x.s)) # Len(ts(x.t))

=============================================================================
