------------------------ MODULE DeviceRegistryProofs ------------------------
(***************************************************************************)
(* Theorems about DeviceRegistry, for any devices, handlers, commands,     *)
(* policies and bounds.                                                    *)
(***************************************************************************)
EXTENDS DeviceRegistry, FiniteSetTheorems, TLAPS

-----------------------------------------------------------------------------
(* The inductive invariant.                                                *)

Fields == {"status", "name", "version", "labels", "configuration", "beat"}

Request == [pc : {"read"}, device : Devices, command : Commands, copy : Rows]

DInv ==
    /\ row \in [Devices -> Rows \cup {NoRow}]
    /\ clock \in Nat /\ clock >= 1
    /\ request \in [Handlers -> Request \cup {Idle}]
    /\ \A h \in Handlers : request[h] # Idle => request[h].device \in Registered
    /\ asked = [d \in Devices |-> asked[d]]
    /\ AcknowledgedKept

-----------------------------------------------------------------------------
(* Rows and what commands make of them.                                    *)

LEMMA RowFields ==
    ASSUME NEW r \in Rows
    PROVE  /\ r = [f \in Fields |-> r[f]]
           /\ r.status \in {"offline", "online", "retired"} /\ r.name \in Names \ {0}
           /\ r.version \in Versions /\ r.labels \in Labels
           /\ r.configuration \in Configurations \cup {Absent} /\ r.beat \in Nat
           /\ r # NoRow
  BY DEF Rows, Fields, NoRow

LEMMA FieldsRow ==
    ASSUME NEW r, r = [f \in Fields |-> r[f]],
           r.status \in {"offline", "online", "retired"}, r.name \in Names \ {0},
           r.version \in Versions, r.labels \in Labels,
           r.configuration \in Configurations \cup {Absent}, r.beat \in Nat
    PROVE  r \in Rows
<1>1. r = [status |-> r.status, name |-> r.name, version |-> r.version, labels |-> r.labels,
           configuration |-> r.configuration, beat |-> r.beat]
  BY DEF Fields
<1> QED BY <1>1 DEF Rows

LEMMA EditIsAsked ==
    ASSUME NEW r \in Rows, NEW c \in Commands, c.kind = "edit", NEW now \in Nat
    PROVE  /\ Edited(r, c.command) \in Rows
           /\ Edited(r, c.command) =
                 [f \in Fields |-> IF f \in DOMAIN Asked(c, now) THEN Asked(c, now)[f] ELSE r[f]]
<1> DEFINE e == c.command
           a == Asked(c, now)
           s == Edited(r, e)
<1>1. /\ e \in [name : Names \cup {Absent}, version : Versions \cup {Absent}, labels : Labels \cup {Absent}]
      /\ e.name # 0
  BY CommandAssumption DEF Commands
<1>2. /\ s.status = r.status /\ s.name = Given(e.name, r.name)
      /\ s.version = Given(e.version, r.version) /\ s.labels = Given(e.labels, r.labels)
      /\ s.configuration = r.configuration /\ s.beat = r.beat
      /\ s = [f \in Fields |-> s[f]]
  BY RowFields DEF Edited, Fields
<1> HIDE DEF s
<1>3. s \in Rows
  BY <1>1, <1>2, RowFields, FieldsRow DEF Given
<1>4. DOMAIN e = {"name", "version", "labels"}
  BY <1>1
<1> DEFINE given == {f \in DOMAIN e \ {"time"} : e[f] # Absent}
           set == given \cup (IF c.kind = "heartbeat" THEN {"status", "beat"} ELSE {})
<1>5. set = {f \in {"name", "version", "labels"} : e[f] # Absent}
  BY <1>4
<1>8. DOMAIN a = set /\ \A f \in set : f \notin {"status", "beat"} => a[f] = e[f]
  BY DEF Asked
<1> HIDE DEF a, set
<1>7. ASSUME NEW f \in Fields PROVE s[f] = IF f \in DOMAIN a THEN a[f] ELSE r[f]
  BY <1>2, <1>5, <1>8 DEF Fields, Given
<1> QED BY <1>2, <1>3, <1>7 DEF a, s

LEMMA HeartbeatIsAsked ==
    ASSUME NEW r \in Rows, NEW c \in Commands, c.kind = "heartbeat", NEW now \in Nat
    PROVE  /\ HeardOf(r, c.command, now) \in Rows
           /\ HeardOf(r, c.command, now) =
                 [f \in Fields |-> IF f \in DOMAIN Asked(c, now) THEN Asked(c, now)[f] ELSE r[f]]
<1> DEFINE e == c.command
           a == Asked(c, now)
           s == HeardOf(r, e, now)
           time == IF e.time = 0 THEN now ELSE e.time
<1>1. e \in [version : Versions \cup {Absent}, configuration : Configurations \cup {Absent}, time : Nat]
  BY CommandAssumption DEF Commands
<1>2. /\ s.status = "online" /\ s.beat = time /\ s.name = r.name /\ s.labels = r.labels
      /\ s.version = Given(e.version, r.version)
      /\ s.configuration = Given(e.configuration, r.configuration)
      /\ s = [f \in Fields |-> s[f]]
  BY RowFields DEF HeardOf, Fields
<1> HIDE DEF s
<1>3. s \in Rows
  BY <1>1, <1>2, RowFields, FieldsRow DEF Given
<1>4. DOMAIN e = {"version", "configuration", "time"}
  BY <1>1
<1> DEFINE given == {f \in DOMAIN e \ {"time"} : e[f] # Absent}
           set == given \cup (IF c.kind = "heartbeat" THEN {"status", "beat"} ELSE {})
<1>5. set = {f \in {"version", "configuration"} : e[f] # Absent} \cup {"status", "beat"}
  BY <1>4
<1>6. /\ DOMAIN a = set
      /\ "status" \in set => a["status"] = "online"
      /\ "beat" \in set => a["beat"] = time
      /\ \A f \in set : f \notin {"status", "beat"} => a[f] = e[f]
  BY DEF Asked
<1> HIDE DEF a, set, time
<1>7. ASSUME NEW f \in Fields PROVE s[f] = IF f \in DOMAIN a THEN a[f] ELSE r[f]
  BY <1>2, <1>5, <1>6 DEF Fields, Given
<1> QED BY <1>2, <1>3, <1>7 DEF a, s

LEMMA ReceiptIsAsked ==
    ASSUME NEW r \in Rows, NEW c \in Commands, c.kind = "receipt", NEW now \in Nat
    PROVE  /\ Configured(r, c.command) \in Rows
           /\ Configured(r, c.command) =
                 [f \in Fields |-> IF f \in DOMAIN Asked(c, now) THEN Asked(c, now)[f] ELSE r[f]]
<1> DEFINE e == c.command
           a == Asked(c, now)
           s == Configured(r, e)
<1>1. e \in [configuration : Configurations] /\ e.configuration # Absent
  BY CommandAssumption DEF Commands
<1>2. /\ s.status = r.status /\ s.beat = r.beat /\ s.name = r.name /\ s.labels = r.labels
      /\ s.version = r.version /\ s.configuration = e.configuration
      /\ s = [f \in Fields |-> s[f]]
  BY RowFields DEF Configured, Fields
<1> HIDE DEF s
<1>3. s \in Rows
  BY <1>1, <1>2, RowFields, FieldsRow
<1>4. DOMAIN e = {"configuration"}
  BY <1>1
<1> DEFINE given == {f \in DOMAIN e \ {"time"} : e[f] # Absent}
           set == given \cup (IF c.kind = "heartbeat" THEN {"status", "beat"} ELSE {})
<1>5. set = {"configuration"}
  BY <1>1, <1>4
<1>6. DOMAIN a = set /\ \A f \in set : f \notin {"status", "beat"} => a[f] = e[f]
  BY DEF Asked
<1> HIDE DEF a, set
<1>7. ASSUME NEW f \in Fields PROVE s[f] = IF f \in DOMAIN a THEN a[f] ELSE r[f]
  BY <1>2, <1>5, <1>6 DEF Fields
<1> QED BY <1>2, <1>3, <1>7 DEF a, s

\* A command changes the fields it asks for, as it asks, and no other field.
LEMMA ChangedIsAsked ==
    ASSUME NEW r \in Rows, NEW c \in Commands, NEW now \in Nat
    PROVE  /\ Changed(r, c, now) \in Rows
           /\ Changed(r, c, now) =
                 [f \in DOMAIN r |-> IF f \in DOMAIN Asked(c, now) THEN Asked(c, now)[f] ELSE r[f]]
<1>1. c.kind \in {"edit", "heartbeat", "receipt"}
  BY DEF Commands
<1>2. DOMAIN r = Fields
  BY DEF Rows, Fields
<1>3. CASE c.kind = "edit"
  BY <1>2, <1>3, EditIsAsked DEF Changed
<1>4. CASE c.kind = "heartbeat"
  BY <1>2, <1>4, HeartbeatIsAsked DEF Changed
<1>5. CASE c.kind = "receipt"
  BY <1>2, <1>5, ReceiptIsAsked DEF Changed
<1> QED BY <1>1, <1>3, <1>4, <1>5

-----------------------------------------------------------------------------
(* The actions.                                                            *)

LEMMA CreateDeviceStep ==
    ASSUME DInv, NEW d \in Devices, CreateDevice(d)
    PROVE  DInv' /\ Registered \subseteq Registered' /\ row' # row
<1>1. PICK c \in Registrations :
          /\ ~Blank(c)
          /\ row' = [row EXCEPT ![d] =
                        [status |-> "offline", name |-> c.name, version |-> c.version,
                         labels |-> c.labels, configuration |-> Absent, beat |-> 0]]
  BY DEF CreateDevice
<1>2. /\ row[d] = NoRow /\ asked' = [asked EXCEPT ![d] = row'[d]]
      /\ UNCHANGED <<selector, request, clock, started, overlapped>>
  BY DEF CreateDevice
<1>3. row'[d] \in Rows /\ row'[d] # NoRow
  <2>1. c.name \in Names \ {0} /\ c.version \in Versions /\ c.labels \in Labels
    BY <1>1, CommandAssumption DEF Blank
  <2>2. row'[d] = [status |-> "offline", name |-> c.name, version |-> c.version,
                   labels |-> c.labels, configuration |-> Absent, beat |-> 0]
    BY <1>1 DEF DInv
  <2> QED BY <2>1, <2>2 DEF Rows, NoRow
<1>4. /\ row' = [row EXCEPT ![d] = row'[d]]
      /\ row' \in [Devices -> Rows \cup {NoRow}]
      /\ \A e \in Devices \ {d} : row'[e] = row[e]
  BY <1>1, <1>3 DEF DInv
<1>5. /\ asked' = [e \in Devices |-> asked'[e]]
      /\ asked'[d] = row'[d]
      /\ \A e \in Devices \ {d} : asked'[e] = asked[e]
  BY <1>2 DEF DInv
<1>6. Registered' = Registered \cup {d} /\ d \notin Registered
  BY <1>2, <1>3, <1>4 DEF Registered
<1>7. AcknowledgedKept'
  BY <1>2, <1>4, <1>5, <1>6 DEF AcknowledgedKept, DInv, Registered
<1>8. \A h \in Handlers : request'[h] # Idle => request'[h].device \in Registered'
  BY <1>2, <1>6 DEF DInv
<1>9. row' # row
  BY <1>2, <1>3
<1> QED BY <1>2, <1>4, <1>5, <1>6, <1>7, <1>8, <1>9 DEF DInv

LEMMA ReadStep ==
    ASSUME DInv, NEW h \in Handlers, Read(h)
    PROVE  DInv'
<1>1. PICK d \in Registered, c \in Commands :
          request' = [request EXCEPT ![h] =
                         [pc |-> "read", device |-> d, command |-> c, copy |-> row[d]]]
  BY DEF Read
<1> DEFINE j == [pc |-> "read", device |-> d, command |-> c, copy |-> row[d]]
<1>2. d \in Devices /\ row[d] \in Rows
  BY DEF Registered, DInv
<1>3. j \in Request /\ j # Idle /\ j.device = d /\ j.copy = row[d]
  BY <1>2 DEF Request, Idle
<1>4. UNCHANGED <<row, clock, asked, overlapped>> /\ Registered' = Registered
  BY DEF Read, ghosts, Registered
<1>5. request' \in [Handlers -> Request \cup {Idle}] /\ request'[h] = j
      /\ \A g \in Handlers \ {h} : request'[g] = request[g]
  BY <1>1, <1>3 DEF DInv
<1> HIDE DEF j
<1>6. \A g \in Handlers : request'[g] # Idle => request'[g].device \in Registered'
  BY <1>3, <1>4, <1>5 DEF DInv
<1>7. AcknowledgedKept'
  BY <1>4 DEF AcknowledgedKept, DInv
<1> QED BY <1>4, <1>5, <1>6, <1>7 DEF DInv

\* A handler that is not at work any more.
LEMMA DoneStep ==
    ASSUME DInv, NEW h \in Handlers, request' = [request EXCEPT ![h] = Idle],
           Registered \subseteq Registered'
    PROVE  /\ request' \in [Handlers -> Request \cup {Idle}]
           /\ \A g \in Handlers : request'[g] # Idle => request'[g].device \in Registered'
  BY DEF DInv

LEMMA WriteStep ==
    ASSUME DInv, NEW h \in Handlers, Write(h)
    PROVE  DInv'
<1> DEFINE q == request[h]
           d == q.device
           a == Asked(q.command, clock)
           r == Changed(q.copy, q.command, clock)
<1>1. /\ q \in Request /\ q # Idle /\ d \in Registered /\ d \in Devices
      /\ q.copy \in Rows /\ q.command \in Commands /\ clock \in Nat
  BY DEF Write, DInv, Request, Registered
<1>2. /\ row' = [row EXCEPT ![d] = r]
      /\ asked' = [asked EXCEPT ![d] = [f \in DOMAIN asked[d] |-> IF f \in DOMAIN a THEN a[f] ELSE asked[d][f]]]
      /\ overlapped' = IF q.copy = row[d] THEN overlapped ELSE overlapped \cup {d}
      /\ request' = [request EXCEPT ![h] = Idle]
      /\ clock' = clock
  BY DEF Write
<1>3. r \in Rows /\ r # NoRow
  BY <1>1, ChangedIsAsked, RowFields
<1>4. asked[d] = q.copy => [f \in DOMAIN asked[d] |-> IF f \in DOMAIN a THEN a[f] ELSE asked[d][f]] = r
  <2>1. r = [f \in DOMAIN q.copy |-> IF f \in DOMAIN a THEN a[f] ELSE q.copy[f]]
    BY <1>1, ChangedIsAsked
  <2> QED BY <2>1
<1> HIDE DEF r, a
<1>5. /\ row' \in [Devices -> Rows \cup {NoRow}] /\ row'[d] = r
      /\ \A e \in Devices \ {d} : row'[e] = row[e]
  BY <1>1, <1>2, <1>3 DEF DInv
<1>6. /\ asked' = [e \in Devices |-> asked'[e]]
      /\ asked[d] = q.copy => asked'[d] = r
      /\ \A e \in Devices \ {d} : asked'[e] = asked[e]
  BY <1>1, <1>2, <1>4 DEF DInv
<1>7. Registered' = Registered
  BY <1>1, <1>3, <1>5 DEF Registered
<1>8. AcknowledgedKept'
  <2> SUFFICES ASSUME NEW e \in Registered, e \notin overlapped' PROVE row'[e] = asked'[e]
    BY <1>7 DEF AcknowledgedKept
  <2>1. CASE e = d
    <3>1. q.copy = row[d] /\ d \notin overlapped
      BY <1>2, <2>1
    <3> QED BY <1>1, <1>5, <1>6, <2>1, <3>1 DEF DInv, AcknowledgedKept
  <2>2. CASE e # d
    <3>1. e \in Devices /\ e \notin overlapped
      BY <1>2 DEF Registered
    <3> QED BY <1>5, <1>6, <2>2, <3>1 DEF DInv, AcknowledgedKept
  <2> QED BY <2>1, <2>2
<1> QED BY <1>2, <1>5, <1>6, <1>7, <1>8, DoneStep DEF DInv

LEMMA WriteFailsStep ==
    ASSUME DInv, NEW h \in Handlers, WriteFails(h)
    PROVE  DInv'
<1>1. /\ UNCHANGED <<row, clock, asked, overlapped>> /\ Registered' = Registered
      /\ request' = [request EXCEPT ![h] = Idle]
  BY DEF WriteFails, ghosts, Registered
<1> QED BY <1>1, DoneStep DEF DInv, AcknowledgedKept

LEMMA InitSound == Init => DInv
<1> SUFFICES ASSUME Init PROVE DInv
  OBVIOUS
<1>1. \A d \in Devices : row[d] = NoRow
  BY DEF Init
<1>2. Registered = {}
  BY <1>1 DEF Registered
<1> QED BY <1>2 DEF Init, DInv, AcknowledgedKept

LEMMA NextSound ==
    ASSUME DInv, [Next]_vars
    PROVE  DInv' /\ Registered \subseteq Registered'
<1>1. CASE \E g \in Groups : CreateGroup(g)
  BY <1>1 DEF CreateGroup, ghosts, DInv, AcknowledgedKept, Registered
<1>2. CASE TimePasses \/ UNCHANGED vars
  BY <1>2 DEF TimePasses, vars, ghosts, DInv, AcknowledgedKept, Registered
<1>3. ASSUME NEW h \in Handlers, Read(h) \/ Write(h) \/ WriteFails(h)
      PROVE  DInv' /\ Registered \subseteq Registered'
  <2>1. DInv'
    BY <1>3, ReadStep, WriteStep, WriteFailsStep
  <2>2. CASE Write(h)
    <3>1. /\ request[h] \in Request /\ request[h].copy \in Rows /\ request[h].command \in Commands
          /\ clock \in Nat
      BY <2>2 DEF Write, DInv, Request
    <3>2. Changed(request[h].copy, request[h].command, clock) # NoRow
      BY <3>1, ChangedIsAsked, RowFields
    <3> QED BY <2>1, <2>2, <3>2 DEF Write, Registered, DInv
  <2>3. CASE Read(h) \/ WriteFails(h)
    BY <2>1, <2>3 DEF Read, WriteFails, Registered
  <2> QED BY <1>3, <2>1, <2>2, <2>3
<1> QED BY <1>1, <1>2, <1>3, CreateDeviceStep DEF Next

-----------------------------------------------------------------------------
(* The registry.                                                           *)

LEMMA TypeStep ==
    ASSUME DInv, DInv', Registered \subseteq Registered', TypeOK, [Next]_vars
    PROVE  TypeOK'
<1>1. /\ row' \in [Devices -> Rows \cup {NoRow}]
      /\ \A h \in Handlers :
            request'[h] # Idle => request'[h].device \in Registered' /\ request'[h].copy \in Rows
  BY DEF DInv, Request
<1>2. selector' \in [Groups -> Selectors \cup {Absent}]
  BY DEF TypeOK, Next, CreateDevice, CreateGroup, Read, Write, WriteFails, TimePasses, vars
<1>3. clock' \in 1..MaxClock /\ started' \in 0..MaxRequests
  <2>1. MaxClock \in Nat /\ MaxRequests \in Nat
    BY NumbersAssumption
  <2>2. /\ clock' = clock \/ (clock < MaxClock /\ clock' = clock + 1)
        /\ started' = started \/ (started < MaxRequests /\ started' = started + 1)
    BY DEF Next, CreateDevice, CreateGroup, Read, Write, WriteFails, TimePasses, vars
  <2>3. clock \in 1..MaxClock /\ started \in 0..MaxRequests
    BY DEF TypeOK
  <2> QED BY <2>1, <2>2, <2>3
<1>4. overlapped' \subseteq Registered'
  <2>1. overlapped' = overlapped \/ \E h \in Handlers : Write(h)
    BY DEF Next, CreateDevice, CreateGroup, Read, WriteFails, TimePasses, vars, ghosts
  <2>2. ASSUME NEW h \in Handlers, Write(h) PROVE overlapped' \subseteq Registered \cup overlapped
    BY <2>2 DEF Write, DInv
  <2> QED BY <2>1, <2>2 DEF TypeOK
<1> QED BY <1>1, <1>2, <1>3, <1>4 DEF TypeOK

\* The registry keeps its types: rows, copies held by handlers, and the bounds.
THEOREM TypeCorrect == Spec => []TypeOK
<1>1. Init => TypeOK
  BY NumbersAssumption DEF Init, TypeOK
<1>2. DInv /\ TypeOK /\ [Next]_vars => (DInv /\ TypeOK)'
  BY NextSound, TypeStep
<1> QED BY <1>1, <1>2, InitSound, PTL DEF Spec

LEMMA Invariant == Spec => []DInv
  BY InitSound, NextSound, PTL DEF Spec

\* Every field of every acknowledged edit, heartbeat and receipt is in the row,
\* unless a handler saved a copy that another had outdated: for any commands
\* and any number of requests under way.
THEOREM AcknowledgedHolds == Spec => []AcknowledgedKept
<1>1. DInv => AcknowledgedKept
  BY DEF DInv
<1> QED BY <1>1, Invariant, PTL

-----------------------------------------------------------------------------
(* Health.                                                                 *)

\* Health by itself: for any row, any moment, and any sound policy.
LEMMA MarkedAgrees ==
    ASSUME NEW r \in Rows, NEW now \in Nat, NEW t \in Nat, NEW p \in Policies
    PROVE  EvaluateHealth(ApplyHealthPolicy(r, now, p), now + t, p) = EvaluateHealth(r, now + t, p)
<1>1. r.beat \in Nat /\ p.offline \in Int /\ p.stale \in Int
  BY RowFields, CommandAssumption
<1>2. CASE ShouldMarkOffline(r, now, p)
  <2> DEFINE m == [r EXCEPT !.status = "offline"]
  <2>1. m.status = "offline" /\ m.beat = r.beat
    BY DEF Rows
  <2>2. r.status # "retired" /\ r.beat # 0 /\ (now + t) - r.beat >= p.offline
    BY <1>1, <1>2 DEF ShouldMarkOffline
  <2>3. ApplyHealthPolicy(r, now, p) = m
    BY <1>2 DEF ApplyHealthPolicy
  <2> HIDE DEF m
  <2>4. EvaluateHealth(m, now + t, p) = "offline"
    BY <2>1, <2>2 DEF EvaluateHealth
  <2>5. EvaluateHealth(r, now + t, p) = "offline"
    BY <2>2 DEF EvaluateHealth
  <2> QED BY <2>3, <2>4, <2>5
<1>3. CASE ~ShouldMarkOffline(r, now, p)
  BY <1>3 DEF ApplyHealthPolicy
<1> QED BY <1>2, <1>3

\* From one moment to the next a row's health falls by one rank at most, since
\* a sound policy's durations differ, and never rises.
LEMMA RankFalls ==
    ASSUME NEW r \in Rows, NEW now \in Nat, NEW p \in Policies, ValidPolicy(p)
    PROVE  Rank(r, now + 1, p) - Rank(r, now, p) \in 0..1
<1>1. /\ r.beat \in Nat /\ p.offline \in Int /\ p.stale \in Int /\ p.offline > p.stale
      /\ r.status \in {"offline", "online", "retired"}
  BY RowFields, CommandAssumption DEF ValidPolicy
<1>2. CASE r.status \in {"offline", "retired"} \/ r.beat = 0
  <2>1. \A n : EvaluateHealth(r, n, p) \in {"retired", "offline", "unknown"}
    BY <1>1, <1>2 DEF EvaluateHealth
  <2>2. \A n : Rank(r, n, p) = 3
    BY <2>1 DEF Rank
  <2> QED BY <2>2
<1>3. CASE r.status = "online" /\ r.beat # 0
  <2>1. \A n : EvaluateHealth(r, n, p) =
                  IF n - r.beat >= p.offline THEN "offline"
                  ELSE IF n - r.beat >= p.stale THEN "stale" ELSE "healthy"
    BY <1>3 DEF EvaluateHealth
  <2>2. \A n : Rank(r, n, p) = IF n - r.beat >= p.offline THEN 3
                               ELSE IF n - r.beat >= p.stale THEN 2 ELSE 1
    BY <2>1 DEF Rank
  <2> QED BY <1>1, <2>2
<1> QED BY <1>1, <1>2, <1>3

\* A device the policy would mark offline reads offline already, and marking it
\* changes its health neither now nor later.
THEOREM OfflineHolds == Spec => []OfflineAgrees
<1>1. DInv => OfflineAgrees
  <2> SUFFICES ASSUME DInv, NEW d \in Registered, NEW p \in Policies, NEW t \in 0..MaxClock
               PROVE  EvaluateHealth(ApplyHealthPolicy(row[d], clock, p), clock + t, p)
                          = EvaluateHealth(row[d], clock + t, p)
    BY DEF OfflineAgrees
  <2>1. row[d] \in Rows /\ clock \in Nat
    BY DEF DInv, Registered
  <2>2. t \in Nat
    BY NumbersAssumption
  <2> QED BY <2>1, <2>2, MarkedAgrees
<1> QED BY <1>1, Invariant, PTL

\* A silent device is stale before it is offline, and nothing but a request
\* makes it healthier, for any row and any sound policy.
THEOREM StaleFirstHolds == Spec => StaleFirst
<1>1. ASSUME DInv, [Next]_vars, row' = row, NEW d \in Registered, NEW p \in Policies, ValidPolicy(p)
      PROVE  Rank(row[d], clock', p) - Rank(row[d], clock, p) \in 0..1
  <2>1. row[d] \in Rows /\ clock \in Nat
    BY <1>1 DEF DInv, Registered
  <2>2. clock' \in {clock, clock + 1}
    BY <1>1 DEF Next, CreateDevice, CreateGroup, Read, Write, WriteFails, TimePasses, vars
  <2>3. CASE clock' = clock + 1
    BY <1>1, <2>1, <2>3, RankFalls
  <2>4. CASE clock' = clock
    <3>1. Rank(row[d], clock, p) \in {1, 2, 3}
      BY DEF Rank
    <3> QED BY <2>4, <3>1
  <2> QED BY <2>2, <2>3, <2>4
<1>2. DInv /\ [Next]_vars =>
          [row' = row =>
              \A d \in Registered, p \in {p \in Policies : ValidPolicy(p)} :
                 Rank(row[d], clock', p) - Rank(row[d], clock, p) \in 0..1]_vars
  BY <1>1
<1> QED BY <1>2, Invariant, PTL DEF Spec, StaleFirst

-----------------------------------------------------------------------------
(* Groups.                                                                 *)

\* The only page of a set that fits it is the whole set.
LEMMA WholePage ==
    ASSUME NEW S, IsFiniteSet(S), Cardinality(S) <= MaxLimit
    PROVE  ListDevices(S, MaxLimit) = {S}
<1>1. Cardinality(S) \in Nat /\ MaxLimit \in Nat \ {0}
  BY FS_CardinalityType, NumbersAssumption
<1>2. (IF Cardinality(S) < lim(MaxLimit) THEN Cardinality(S) ELSE lim(MaxLimit)) = Cardinality(S)
  BY <1>1 DEF lim
<1>3. ASSUME NEW P \in SUBSET S, Cardinality(P) = Cardinality(S) PROVE P = S
  BY <1>3, FS_Subset
<1> QED BY <1>2, <1>3 DEF ListDevices

\* A group that fits the largest page resolves to all that match its selector,
\* whatever the names, selectors and order of the rows.
THEOREM GroupHolds == Spec => []GroupWhole
<1>1. GroupWhole
  <2> SUFFICES ASSUME NEW s, Cardinality(Matching(s)) <= MaxLimit
               PROVE  ListDevices(Matching(s), MaxLimit) = {Matching(s)}
    BY DEF GroupWhole, ResolveGroup
  <2>1. Matching(s) \subseteq Devices
    BY DEF Matching, Registered
  <2> QED BY <2>1, FS_Subset, NumbersAssumption, WholePage
<1> QED BY <1>1, PTL
=============================================================================
