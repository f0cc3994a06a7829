--------------------------- MODULE DeviceRegistry ---------------------------
(***************************************************************************)
(* Devices and groups: registration, edits, heartbeats, what a receipt     *)
(* records about its device, the queries that find devices, and the health *)
(* policy of domain/device.                                                *)
(*                                                                         *)
(* A device is one row, read and then written whole.  An edit, a heartbeat *)
(* and a receipt therefore take two steps each, and overlap.               *)
(* Ids, names and versions are numbers; 0 is what is blank once trimmed.   *)
(* Time is a number too, 0 the zero time.                                  *)
(***************************************************************************)
EXTENDS Integers, FiniteSets

CONSTANTS
    Devices, Names, Versions,   \* sets of numbers
    Configurations,
    Labels,             \* sets of labels <<key, value>>
    Groups,
    Selectors,          \* a set of labels
    Like,               \* pairs <<selector, text>>: the text contains the selector
    Handlers,           \* requests under way at a time
    Absent,             \* a field a command leaves out
    Registrations, Edits, Heartbeats,   \* commands
    Policies,           \* [stale, offline] durations
    MaxClock, MaxRequests,              \* bounds of the model
    MaxLimit, DefaultLimit              \* 1000 and 100 in the code

ASSUME NumbersAssumption ==
    /\ Devices \subseteq Nat \ {0} /\ Names \subseteq Nat /\ Versions \subseteq Nat
    /\ MaxClock \in Nat \ {0} /\ MaxRequests \in Nat
    /\ MaxLimit \in Nat \ {0} /\ DefaultLimit \in 1..MaxLimit
    /\ IsFiniteSet(Devices)

ASSUME CommandAssumption ==
    /\ Registrations \subseteq [name : Names, version : Versions, labels : Labels]
    /\ Edits \subseteq [name : Names \cup {Absent}, version : Versions \cup {Absent},
                        labels : Labels \cup {Absent}]
    /\ Heartbeats \subseteq [version : Versions \cup {Absent},
                             configuration : Configurations \cup {Absent}, time : Nat]
    /\ Policies \subseteq [stale : Int, offline : Int]
    /\ Absent \notin Configurations

VARIABLES
    row,        \* the devices table
    selector,   \* the device_groups table: a group's selector, or Absent
    request,    \* for each handler what it is at, and its copy of the row
    clock,
    started,    \* how many requests were made
    \* of no influence on the service:
    asked,      \* the row as the acknowledged requests together ask for it
    overlapped  \* whether a handler saved a copy that was no longer the row

ghosts == <<asked, overlapped>>
vars == <<row, selector, request, clock, started, ghosts>>

NoRow == [status |-> "none"]
Idle == [pc |-> "idle"]

Rows == [status : {"offline", "online", "retired"}, name : Names \ {0},
         version : Versions, labels : Labels,
         configuration : Configurations \cup {Absent}, beat : Nat]

Registered == {d \in Devices : row[d] # NoRow}

TypeOK ==
    /\ row \in [Devices -> Rows \cup {NoRow}]
    /\ selector \in [Groups -> Selectors \cup {Absent}]
    /\ clock \in 1..MaxClock /\ started \in 0..MaxRequests
    /\ overlapped \subseteq Registered
    /\ \A h \in Handlers :
          request[h] # Idle => request[h].device \in Registered /\ request[h].copy \in Rows

Init ==
    /\ row = [d \in Devices |-> NoRow]
    /\ selector = [g \in Groups |-> Absent]
    /\ request = [h \in Handlers |-> Idle]
    /\ clock = 1 /\ started = 0
    /\ asked = row /\ overlapped = {}

-----------------------------------------------------------------------------
(* Registration.                                                           *)

Blank(c) == c.name = 0 \/ c.version = 0 \/ \E l \in c.labels : 0 \in {l[1], l[2]}

\* Labels are checked here only: an edit takes any, a heartbeat any version.
CreateDevice(d) ==
    /\ row[d] = NoRow
    /\ \E c \in {c \in Registrations : ~Blank(c)} :
          row' = [row EXCEPT ![d] =
                     [status |-> "offline", name |-> c.name, version |-> c.version,
                      labels |-> c.labels, configuration |-> Absent, beat |-> 0]]
    /\ asked' = [asked EXCEPT ![d] = row'[d]]
    /\ UNCHANGED <<selector, request, clock, started, overlapped>>

\* ParseSelector: a key and a value, separated by "=".
ParseSelector(s) == s[1] # 0 /\ s[2] # 0

\* SelectorExpression.Match: the terms of a selector, on a device's labels.
Match(terms, labels) == terms # {} /\ terms \subseteq labels

CreateGroup(g) ==
    /\ selector[g] = Absent
    /\ \E s \in {s \in Selectors : ParseSelector(s)} : selector' = [selector EXCEPT ![g] = s]
    /\ UNCHANGED <<row, request, clock, started, ghosts>>

-----------------------------------------------------------------------------
(* Edits, heartbeats, receipts.                                            *)

Given(field, old) == IF field = Absent THEN old ELSE field

\* Slip: an edited device has yet to be heard of.
EditedAsNew(r, c) ==
    [r EXCEPT !.name = Given(c.name, @), !.version = Given(c.version, @),
              !.labels = Given(c.labels, @), !.status = "offline", !.beat = 0]

Edited(r, c) ==
    [r EXCEPT !.name = Given(c.name, @), !.version = Given(c.version, @),
              !.labels = Given(c.labels, @)]

\* The device's own clock is taken, if the heartbeat has one.
HeardOf(r, c, now) ==
    [r EXCEPT !.status = "online", !.beat = IF c.time = 0 THEN now ELSE c.time,
              !.version = Given(c.version, @), !.configuration = Given(c.configuration, @)]

Configured(r, c) == [r EXCEPT !.configuration = c.configuration]

Commands ==
    [kind : {"edit"}, command : {c \in Edits : c.name # 0 /\ c.version # 0}]
    \cup [kind : {"heartbeat"}, command : Heartbeats]
    \cup [kind : {"receipt"}, command : [configuration : Configurations]]

Changed(r, c, now) ==
    CASE c.kind = "edit"      -> Edited(r, c.command)
      [] c.kind = "heartbeat" -> HeardOf(r, c.command, now)
      [] c.kind = "receipt"   -> Configured(r, c.command)

\* GetDevice.  A device that is not registered is refused.
Read(h) ==
    /\ request[h] = Idle
    /\ started < MaxRequests
    /\ \E d \in Registered, c \in Commands :
          request' = [request EXCEPT ![h] =
                         [pc |-> "read", device |-> d, command |-> c, copy |-> row[d]]]
    /\ started' = started + 1
    /\ UNCHANGED <<row, selector, clock, ghosts>>

\* What a command asks for: the fields it sets.
Asked(c, now) ==
    LET given == {f \in DOMAIN c.command \ {"time"} : c.command[f] # Absent}
    IN  [f \in given \cup (IF c.kind = "heartbeat" THEN {"status", "beat"} ELSE {}) |->
            CASE f = "status" -> "online"
              [] f = "beat"   -> IF c.command.time = 0 THEN now ELSE c.command.time
              [] OTHER        -> c.command[f]]

\* UpdateDevice in the repository: every column but the id and created_at.
Write(h) ==
    /\ request[h] # Idle
    /\ LET d == request[h].device
           a == Asked(request[h].command, clock)
       IN  /\ row' = [row EXCEPT ![d] = Changed(request[h].copy, request[h].command, clock)]
           /\ asked' = [asked EXCEPT ![d] =
                           [f \in DOMAIN @ |-> IF f \in DOMAIN a THEN a[f] ELSE @[f]]]
           /\ overlapped' = IF request[h].copy = row[d] THEN overlapped ELSE overlapped \cup {d}
    /\ request' = [request EXCEPT ![h] = Idle]
    /\ UNCHANGED <<selector, clock, started>>

\* The statement fails; a receipt goes on without it.
WriteFails(h) ==
    /\ request[h] # Idle
    /\ request' = [request EXCEPT ![h] = Idle]
    /\ UNCHANGED <<row, selector, clock, started, ghosts>>

TimePasses ==
    /\ clock < MaxClock
    /\ clock' = clock + 1
    /\ UNCHANGED <<row, selector, request, started, ghosts>>

Next ==
    \/ \E d \in Devices : CreateDevice(d)
    \/ \E g \in Groups : CreateGroup(g)
    \/ \E h \in Handlers : Read(h) \/ Write(h) \/ WriteFails(h)
    \/ TimePasses

Spec == Init /\ [][Next]_vars

-----------------------------------------------------------------------------
(* Queries.  A page is one of those ORDER BY name allows: names may tie.   *)

\* Slip: the largest page is taken for one too large.
LimitBelow(v) == IF v <= 0 \/ v >= MaxLimit THEN DefaultLimit ELSE v

lim(v) == IF v <= 0 \/ v > MaxLimit THEN DefaultLimit ELSE v

ListDevices(matching, limit) ==
    {P \in SUBSET matching :
        /\ Cardinality(P) = IF Cardinality(matching) < lim(limit) THEN Cardinality(matching)
                                                                  ELSE lim(limit)
        /\ \A p \in P, q \in matching \ P : row[p].name <= row[q].name}

\* The selector is looked for in names and ids, as text.
Matching(s) == {d \in Registered : <<s, row[d].name>> \in Like \/ <<s, d>> \in Like}

ResolveGroup(g) == ListDevices(Matching(selector[g]), MaxLimit)

\* The devices a rollout is created for: a group's, or Absent, and some by id.
resolveTargets(g, ids) ==
    {{d \in members \cup ids : row[d].status # "retired"} :
        members \in IF g = Absent THEN {{}} ELSE ResolveGroup(g)}

-----------------------------------------------------------------------------
(* Health (domain/device/health.go).                                       *)

\* Slip: any two durations will do.
PositivePolicy(p) == p.stale > 0

ValidPolicy(p) == p.stale > 0 /\ p.offline > p.stale

EvaluateHealth(r, now, p) ==
    CASE r.status = "retired" -> "retired"
      [] r.status # "retired" /\ r.beat = 0 -> IF r.status = "offline" THEN "offline" ELSE "unknown"
      [] OTHER -> IF now - r.beat >= p.offline \/ r.status = "offline" THEN "offline"
                  ELSE IF now - r.beat >= p.stale THEN "stale" ELSE "healthy"

\* Slip: silence is measured against the shorter duration.
MarkStaleOffline(r, now, p) ==
    r.status # "retired" /\ r.beat # 0 /\ now - r.beat >= p.stale

ShouldMarkOffline(r, now, p) ==
    r.status # "retired" /\ r.beat # 0 /\ now - r.beat >= p.offline

ApplyHealthPolicy(r, now, p) ==
    IF ShouldMarkOffline(r, now, p) THEN [r EXCEPT !.status = "offline"] ELSE r

-----------------------------------------------------------------------------
(* Properties.                                                             *)

\* Every acknowledged edit, heartbeat and receipt is in the row, with all the
\* fields it set, unless a handler saved a copy that another had outdated.
AcknowledgedKept == \A d \in Registered \ overlapped : row[d] = asked[d]

Rank(r, now, p) ==
    CASE EvaluateHealth(r, now, p) = "healthy" -> 1
      [] EvaluateHealth(r, now, p) = "stale"   -> 2
      [] OTHER                                 -> 3

\* A silent device is stale before it is offline, and nothing but a request
\* makes it healthier.
StaleFirst ==
    [][row' = row =>
          \A d \in Registered, p \in {p \in Policies : ValidPolicy(p)} :
             Rank(row[d], clock', p) - Rank(row[d], clock, p) \in 0..1]_vars

\* A device the policy would mark offline is one whose health reads offline
\* already, and marking it changes the health of no device, then or later.
OfflineAgrees ==
    \A d \in Registered, p \in {p \in Policies : ValidPolicy(p)}, t \in 0..MaxClock :
        LET marked == ApplyHealthPolicy(row[d], clock, p)
        IN  EvaluateHealth(marked, clock + t, p) = EvaluateHealth(row[d], clock + t, p)

\* A group that fits the largest page resolves to all that match its selector.
GroupWhole ==
    \A g \in {g \in Groups : selector[g] # Absent} :
        Cardinality(Matching(selector[g])) <= MaxLimit
            => ResolveGroup(g) = {Matching(selector[g])}

\* A group resolves to the devices that carry its key=value label.
GroupSelectsLabels ==
    \A g \in {g \in Groups : selector[g] # Absent} :
        \A members \in ResolveGroup(g) :
            members = {d \in Registered : Match({selector[g]}, row[d].labels)}

=============================================================================
