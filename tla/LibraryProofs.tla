---------------------------- MODULE LibraryProofs ----------------------------
(***************************************************************************)
(* Theorems about the rate limiter and the metric registry, for any        *)
(* clients, limit and window, and for any metrics, labels and samples; and *)
(* about the functions that keep no state, for any input.                  *)
(***************************************************************************)
EXTENDS RateLimiter, MetricRegistry, LibraryInputs, SequenceTheorems, FiniteSetTheorems,
        WellFoundedInduction, TLAPS

-----------------------------------------------------------------------------
(* Arithmetic.                                                             *)

LEMMA DivisionBounds ==
    ASSUME NEW a \in Nat, NEW b \in Nat \ {0}
    PROVE  /\ a \div b \in Nat
           /\ b * (a \div b) <= a
           /\ a < b * (a \div b) + b
  OBVIOUS

LEMMA Monotone ==
    ASSUME NEW b \in Nat, NEW p \in Nat, NEW q \in Nat, p <= q
    PROVE  b * p <= b * q
<1> PICK r \in Nat : q = p + r
  <2>1. q - p \in Nat /\ q = p + (q - p)
    OBVIOUS
  <2> QED BY <2>1
<1>1. b * (p + r) = b * p + b * r
  OBVIOUS
<1>2. b * r \in Nat /\ b * p \in Nat
  OBVIOUS
<1> QED BY <1>1, <1>2

LEMMA Cancelled ==
    ASSUME NEW b \in Nat \ {0}, NEW p \in Nat, NEW q \in Nat, b * p < b * q + b
    PROVE  p <= q
<1> SUFFICES ASSUME q + 1 <= p PROVE FALSE
  OBVIOUS
<1>1. b * (q + 1) <= b * p
  BY Monotone
<1>2. b * (q + 1) = b * q + b
  OBVIOUS
<1>3. b * q \in Nat /\ b * p \in Nat
  OBVIOUS
<1> QED BY <1>1, <1>2, <1>3

\* Whole windows between two times: more time, no fewer of them, and one more
\* for each window that passes.
LEMMA WindowsPass ==
    ASSUME NEW m \in Nat, NEW n \in Nat, NEW b \in Nat \ {0}, m <= n
    PROVE  /\ m \div b <= n \div b
           /\ m + b <= n => (m \div b) + 1 <= n \div b
<1> DEFINE p == m \div b
           q == n \div b
<1>1. p \in Nat /\ b * p <= m /\ m < b * p + b
  BY DivisionBounds
<1>2. q \in Nat /\ b * q <= n /\ n < b * q + b
  BY DivisionBounds
<1>3. b * p \in Nat /\ b * q \in Nat /\ b * (p + 1) = b * p + b
  BY <1>1, <1>2
<1> HIDE DEF p, q
<1>4. p <= q
  <2>1. b * p < b * q + b
    BY <1>1, <1>2, <1>3
  <2> QED BY <1>1, <1>2, <2>1, Cancelled
<1>5. m + b <= n => p + 1 <= q
  <2>1. m + b <= n => b * (p + 1) < b * q + b
    BY <1>1, <1>2, <1>3
  <2> QED BY <1>1, <1>2, <2>1, Cancelled
<1> QED BY <1>4, <1>5 DEF p, q

-----------------------------------------------------------------------------
(* The rate limiter: its inductive invariant.                              *)

\* How many requests of a client one window lets through.
Most == IF Limit < 1 THEN 1 ELSE Limit

\* What client c has had, its window being k: nothing before its first window,
\* then no more than the most of each window since, and the count of this one.
WindowSound(c, k) ==
    IF k.started = 0 THEN admitted[c] = 0 /\ since[c] = 0
    ELSE /\ since[c] # 0 /\ since[c] <= k.started /\ k.count >= 1 /\ k.count <= Most
         /\ admitted[c] <= Most * ((k.started - since[c]) \div Window) + k.count

LInv == LimiterTypeOK /\ \A c \in Clients : WindowSound(c, clients[c])

LEMMA MostType == Most \in Nat /\ Most >= 1 /\ Window \in Nat \ {0}
  BY LimiterAssumption DEF Most

LEMMA LimiterTypes ==
    ASSUME LimiterTypeOK
    PROVE  /\ time \in Nat /\ time >= 1
           /\ \A c \in Clients : /\ clients[c].started \in Nat /\ clients[c].started <= time
                                 /\ clients[c].count \in Nat
                                 /\ admitted[c] \in Nat /\ since[c] \in Nat /\ since[c] <= time
           /\ \A a \in Arrivals : arrival[a].at # 0 =>
                 /\ arrival[a].at \in Nat /\ arrival[a].at <= time /\ arrival[a].client \in Clients
  BY LimiterAssumption DEF LimiterTypeOK

LEMMA LimiterInit == Init => LInv
<1> SUFFICES ASSUME Init PROVE LInv
  OBVIOUS
<1>1. 0 \in 0..time /\ 1 \in 1..MaxTime + 1
  BY LimiterAssumption DEF Init
<1>2. LimiterTypeOK
  BY <1>1 DEF Init, LimiterTypeOK
<1>3. ASSUME NEW c \in Clients PROVE WindowSound(c, clients[c])
  BY DEF Init, WindowSound
<1> QED BY <1>2, <1>3 DEF LInv

\* A request of client c is let through in the window k.
LEMMA AdmitStep ==
    ASSUME LInv, NEW c \in Clients, NEW now \in 1..time, NEW k \in [started : 0..time, count : Nat],
           clients' = [clients EXCEPT ![c] = k], Admit(c, now), time' = time,
           arrival' \in [Arrivals -> [at : 0..time, client : Clients] \cup {[at |-> 0]}],
           k.started # 0, k.count >= 1, k.count <= Most,
           LET s == IF since[c] = 0 THEN now ELSE since[c]
           IN  s <= k.started /\ admitted[c] + 1 <= Most * ((k.started - s) \div Window) + k.count
    PROVE  LInv'
<1>1. time \in Nat /\ time >= 1 /\ now \in Nat /\ now # 0 /\ now <= time
  BY LimiterTypes DEF LInv
<1>2. /\ clients' \in [Clients -> [started : 0..time, count : Nat]]
      /\ clients'[c] = k /\ \A e \in Clients \ {c} : clients'[e] = clients[e]
  BY DEF LInv, LimiterTypeOK
<1>3. /\ admitted' = [admitted EXCEPT ![c] = @ + 1]
      /\ since' = [since EXCEPT ![c] = IF @ = 0 THEN now ELSE @]
  BY DEF Admit
<1>4. /\ admitted' \in [Clients -> Nat] /\ admitted'[c] = admitted[c] + 1
      /\ \A e \in Clients \ {c} : admitted'[e] = admitted[e]
  BY <1>3 DEF LInv, LimiterTypeOK
<1>5. /\ since' \in [Clients -> 0..time] /\ since'[c] = IF since[c] = 0 THEN now ELSE since[c]
      /\ \A e \in Clients \ {c} : since'[e] = since[e]
  BY <1>1, <1>3 DEF LInv, LimiterTypeOK
<1>6. LimiterTypeOK'
  BY <1>2, <1>4, <1>5 DEF LInv, LimiterTypeOK
<1>7. ASSUME NEW e \in Clients PROVE WindowSound(e, clients[e])'
  <2>1. CASE e # c
    BY <1>2, <1>4, <1>5, <2>1 DEF LInv, WindowSound
  <2>2. CASE e = c
    BY <1>1, <1>2, <1>4, <1>5, <2>2 DEF WindowSound
  <2> QED BY <2>1, <2>2
<1> QED BY <1>6, <1>7 DEF LInv

LEMMA ServedType ==
    ASSUME LInv, NEW a \in Arrivals, Served(a)
    PROVE  arrival' \in [Arrivals -> [at : 0..time, client : Clients] \cup {[at |-> 0]}]
  BY DEF Served, LInv, LimiterTypeOK

\* A further window begins at least Window after the one before.
LEMMA OpenWindowStep ==
    ASSUME LInv, NEW a \in Arrivals, OpenWindow(a)
    PROVE  LInv'
<1> DEFINE c == arrival[a].client
           now == arrival[a].at
           k == [started |-> now, count |-> 1]
           s == IF since[c] = 0 THEN now ELSE since[c]
<1>1. /\ now # 0 /\ now \in Nat /\ now <= time /\ c \in Clients
      /\ Expired(c, now) /\ clients' = [clients EXCEPT ![c] = k] /\ Admit(c, now)
      /\ Served(a) /\ time' = time
  BY LimiterTypes DEF OpenWindow, LInv
<1>2. /\ clients[c].started \in Nat /\ clients[c].count \in Nat
      /\ admitted[c] \in Nat /\ since[c] \in Nat /\ WindowSound(c, clients[c])
      /\ time \in Nat
  BY <1>1, LimiterTypes DEF LInv
<1>3. k \in [started : 0..time, count : Nat] /\ k.started = now /\ k.count = 1 /\ now \in 1..time
  BY <1>1, <1>2
<1>4. s <= now /\ admitted[c] + 1 <= Most * ((now - s) \div Window) + 1
  <2>1. CASE clients[c].started = 0
    <3>1. admitted[c] = 0 /\ s = now
      BY <1>2, <2>1 DEF WindowSound
    <3>2. (now - s) \div Window \in Nat
      BY <1>1, <3>1, MostType, DivisionBounds
    <3>3. Most * ((now - s) \div Window) \in Nat
      BY <3>2, MostType
    <3> QED BY <1>1, <3>1, <3>3
  <2>2. CASE clients[c].started # 0
    <3> DEFINE st == clients[c].started
               p == (st - since[c]) \div Window
               q == (now - since[c]) \div Window
    <3>1. /\ since[c] # 0 /\ since[c] <= st /\ clients[c].count <= Most
          /\ admitted[c] <= Most * p + clients[c].count
      BY <1>2, <2>2 DEF WindowSound
    <3>2. s = since[c] /\ now - st >= Window
      BY <1>1, <2>2, <3>1 DEF Expired
    <3>3. /\ st - since[c] \in Nat /\ now - since[c] \in Nat /\ st - since[c] <= now - since[c]
          /\ (st - since[c]) + Window <= now - since[c] /\ since[c] <= now
      BY <1>1, <1>2, <3>1, <3>2, MostType
    <3>4. p \in Nat /\ q \in Nat /\ p + 1 <= q
      BY <3>3, MostType, DivisionBounds, WindowsPass
    <3> HIDE DEF p, q
    <3>5. Most * (p + 1) <= Most * q
      BY <3>4, MostType, Monotone
    <3>6. Most * (p + 1) = Most * p + Most /\ Most * p \in Nat /\ Most * q \in Nat
      BY <3>4, MostType
    <3>7. admitted[c] + 1 <= Most * q + 1
      BY <1>2, <3>1, <3>5, <3>6, MostType
    <3> QED BY <3>2, <3>3, <3>7 DEF q
  <2> QED BY <2>1, <2>2
<1> HIDE DEF k, s
<1>5. s <= k.started /\ admitted[c] + 1 <= Most * ((k.started - s) \div Window) + k.count
  BY <1>3, <1>4
<1>6. k.started # 0 /\ k.count >= 1 /\ k.count <= Most
  BY <1>1, <1>3, MostType
<1> QED BY <1>1, <1>3, <1>5, <1>6, ServedType, AdmitStep DEF s

LEMMA CountStep ==
    ASSUME LInv, NEW a \in Arrivals, Count(a)
    PROVE  LInv'
<1> DEFINE c == arrival[a].client
           now == arrival[a].at
           k == [clients[c] EXCEPT !.count = @ + 1]
           s == IF since[c] = 0 THEN now ELSE since[c]
<1>1. /\ now # 0 /\ now \in Nat /\ now <= time /\ c \in Clients
      /\ ~Expired(c, now) /\ clients[c].count < Limit
      /\ clients' = [clients EXCEPT ![c].count = @ + 1] /\ Admit(c, now)
      /\ Served(a) /\ time' = time
  BY LimiterTypes DEF Count, LInv
<1>2. /\ clients[c] \in [started : 0..time, count : Nat]
      /\ clients[c].started \in Nat /\ clients[c].count \in Nat
      /\ admitted[c] \in Nat /\ since[c] \in Nat /\ WindowSound(c, clients[c])
      /\ time \in Nat
  BY <1>1, LimiterTypes DEF LInv, LimiterTypeOK
<1>3. /\ k \in [started : 0..time, count : Nat]
      /\ k.started = clients[c].started /\ k.count = clients[c].count + 1 /\ now \in 1..time
  BY <1>1, <1>2
<1>4. clients' = [clients EXCEPT ![c] = k]
  BY <1>1
<1>5. k.started # 0 /\ k.count >= 1 /\ k.count <= Most
  BY <1>1, <1>2, <1>3, LimiterAssumption DEF Expired, Most
<1>6. s <= k.started /\ admitted[c] + 1 <= Most * ((k.started - s) \div Window) + k.count
  <2> DEFINE st == clients[c].started
             p == (st - since[c]) \div Window
  <2>1. /\ since[c] # 0 /\ since[c] <= st
        /\ admitted[c] <= Most * p + clients[c].count
    BY <1>2, <1>3, <1>5 DEF WindowSound
  <2>2. s = since[c]
    BY <2>1
  <2>3. p \in Nat
    <3>1. st - since[c] \in Nat
      BY <1>2, <2>1
    <3> QED BY <3>1, MostType, DivisionBounds
  <2> HIDE DEF p
  <2>4. Most * p \in Nat
    BY <2>3, MostType
  <2>5. admitted[c] + 1 <= Most * p + (clients[c].count + 1)
    BY <1>2, <2>1, <2>4
  <2> QED BY <1>3, <2>1, <2>2, <2>5 DEF p
<1> HIDE DEF k, s
<1> QED BY <1>1, <1>3, <1>4, <1>5, <1>6, ServedType, AdmitStep DEF s

\* Nothing about the clients changes.
LEMMA QuietStep ==
    ASSUME LInv, UNCHANGED <<clients, admitted, since>>,
           time' \in 1..MaxTime + 1, time <= time',
           arrival' \in [Arrivals -> [at : 0..time', client : Clients] \cup {[at |-> 0]}]
    PROVE  LInv'
<1>1. 0..time \subseteq 0..time'
  BY LimiterTypes, LimiterAssumption DEF LInv
<1>2. LimiterTypeOK'
  BY <1>1 DEF LInv, LimiterTypeOK
<1>3. \A c \in Clients : WindowSound(c, clients[c])'
  BY DEF LInv, WindowSound
<1> QED BY <1>2, <1>3 DEF LInv

LEMMA LimiterStep ==
    ASSUME LInv, [Next]_limiter
    PROVE  LInv'
<1>1. time \in Nat /\ time >= 1 /\ time \in 1..MaxTime + 1
  BY LimiterTypes DEF LInv, LimiterTypeOK
<1>2. CASE TimePasses
  <2>1. time' = time + 1 /\ time' \in 1..MaxTime + 1 /\ time <= time'
    BY <1>1, <1>2, LimiterAssumption DEF TimePasses
  <2>2. 0..time \subseteq 0..time'
    BY <1>1, <2>1
  <2>3. arrival' \in [Arrivals -> [at : 0..time', client : Clients] \cup {[at |-> 0]}]
    BY <1>2, <2>2 DEF TimePasses, LInv, LimiterTypeOK
  <2> QED BY <1>2, <2>1, <2>3, QuietStep DEF TimePasses
<1>3. ASSUME NEW a \in Arrivals, NEW c \in Clients, Arrive(a, c) PROVE LInv'
  <2>1. time' = time /\ time <= time' /\ time' \in 1..MaxTime + 1 /\ time \in 0..time
    BY <1>1, <1>3 DEF Arrive
  <2>2. arrival' \in [Arrivals -> [at : 0..time', client : Clients] \cup {[at |-> 0]}]
    BY <1>3, <2>1 DEF Arrive, LInv, LimiterTypeOK
  <2> QED BY <1>3, <2>1, <2>2, QuietStep DEF Arrive
<1>4. ASSUME NEW a \in Arrivals, Refuse(a) PROVE LInv'
  <2>1. time' = time /\ time <= time' /\ time' \in 1..MaxTime + 1
    BY <1>1, <1>4 DEF Refuse
  <2> QED BY <1>4, <2>1, ServedType, QuietStep DEF Refuse
<1>5. CASE UNCHANGED limiter
  <2>1. /\ UNCHANGED <<clients, admitted, since>> /\ time' = time /\ arrival' = arrival
        /\ time <= time' /\ time' \in 1..MaxTime + 1
    BY <1>1, <1>5 DEF limiter
  <2> QED BY <2>1, QuietStep DEF LInv, LimiterTypeOK
<1> QED BY <1>2, <1>3, <1>4, <1>5, OpenWindowStep, CountStep DEF Next

\* A client is let through no more than the limit, and once at least, for each
\* window begun since its first: for any limit and window, any number of clients
\* and requests, and times that reach the table in any order.
THEOREM AdmittedHolds == LimiterSpec => []AdmittedBounded
<1>1. ASSUME LInv PROVE AdmittedBounded
  <2> SUFFICES ASSUME NEW c \in Clients
               PROVE  admitted[c] <= Most * ((time - since[c]) \div Window + 1)
    BY DEF AdmittedBounded, Most
  <2> DEFINE k == clients[c]
             p == (k.started - since[c]) \div Window
             q == (time - since[c]) \div Window
  <2>1. /\ k.started \in Nat /\ k.started <= time /\ k.count \in Nat /\ admitted[c] \in Nat
        /\ since[c] \in Nat /\ since[c] <= time /\ time \in Nat /\ WindowSound(c, k)
    BY <1>1, LimiterTypes DEF LInv
  <2>2. time - since[c] \in Nat
    BY <2>1
  <2>3. q \in Nat
    BY <2>2, MostType, DivisionBounds
  <2>4. Most * (q + 1) = Most * q + Most /\ Most * q \in Nat
    BY <2>3, MostType
  <2>5. CASE k.started = 0
    BY <2>1, <2>4, <2>5, MostType DEF WindowSound
  <2>6. CASE k.started # 0
    <3>1. since[c] <= k.started /\ k.count <= Most /\ admitted[c] <= Most * p + k.count
      BY <2>1, <2>6 DEF WindowSound
    <3>2. k.started - since[c] \in Nat /\ k.started - since[c] <= time - since[c]
      BY <2>1, <3>1
    <3>3. p \in Nat /\ p <= q
      BY <2>2, <3>2, MostType, DivisionBounds, WindowsPass
    <3> HIDE DEF p, q
    <3>4. Most * p <= Most * q /\ Most * p \in Nat
      BY <2>3, <3>3, MostType, Monotone
    <3> QED BY <2>1, <2>4, <3>1, <3>4, MostType DEF q
  <2> QED BY <2>5, <2>6
<1> QED BY <1>1, LimiterInit, LimiterStep, PTL DEF LimiterSpec

-----------------------------------------------------------------------------
(* The metric registry: its inductive invariant.                           *)

Number == Bounds \subseteq Int /\ Samples \subseteq Int

\* What every histogram is, templates and those without labels included.
HistogramSound(h) ==
    /\ DOMAIN h = {"buckets", "counts", "count"}
    /\ h.buckets \subseteq Bounds /\ h.count \in Nat
    /\ \A b \in h.buckets : h.counts[b] \in Nat /\ h.counts[b] <= h.count
    /\ \A b, c \in h.buckets : b <= c => h.counts[b] <= h.counts[c]

MInv ==
    /\ values \in [Keys -> Int]
    /\ DOMAIN descriptors = Metrics
    /\ DOMAIN histograms = Keys
    /\ \A k \in Keys : HistogramSound(histograms[k])

LEMMA EmptySound ==
    ASSUME NEW buckets \in SUBSET Bounds
    PROVE  HistogramSound(Empty(buckets)) /\ Empty(buckets).buckets = buckets
  BY DEF HistogramSound, Empty

LEMMA NoHistogramSound == HistogramSound(NoHistogram)
  BY DEF HistogramSound, NoHistogram

\* A sample goes into its bucket and all wider ones.
LEMMA ObservedSound ==
    ASSUME Number, NEW h, HistogramSound(h), NEW sample \in Samples
    PROVE  /\ HistogramSound(Observed(h, sample))
           /\ Observed(h, sample).count >= h.count
           /\ \A b \in h.buckets : /\ b \in Observed(h, sample).buckets
                                   /\ Observed(h, sample).counts[b] >= h.counts[b]
<1> DEFINE g == Observed(h, sample)
<1>1. /\ DOMAIN g = {"buckets", "counts", "count"}
      /\ g.buckets = h.buckets /\ g.count = h.count + 1
      /\ g.counts = [b \in h.buckets |-> IF sample <= b THEN h.counts[b] + 1 ELSE h.counts[b]]
  BY DEF Observed, HistogramSound
<1>2. /\ h.count \in Nat /\ h.buckets \subseteq Int /\ sample \in Int
      /\ \A b \in h.buckets : h.counts[b] \in Nat /\ h.counts[b] <= h.count
  BY DEF HistogramSound, Number
<1> HIDE DEF g
<1>3. \A b \in h.buckets : g.counts[b] = IF sample <= b THEN h.counts[b] + 1 ELSE h.counts[b]
  BY <1>1
<1>4. \A b, c \in h.buckets : b <= c => g.counts[b] <= g.counts[c]
  BY <1>2, <1>3 DEF HistogramSound
<1>5. HistogramSound(g)
  BY <1>1, <1>2, <1>3, <1>4 DEF HistogramSound
<1>6. g.count >= h.count /\ \A b \in h.buckets : b \in g.buckets /\ g.counts[b] >= h.counts[b]
  BY <1>1, <1>2, <1>3
<1> QED BY <1>5, <1>6 DEF g

\* Histogram k is replaced by h.
LEMMA HistogramStep ==
    ASSUME MInv, NEW k, NEW h, HistogramSound(h), UNCHANGED <<descriptors, values>>,
           histograms' = [histograms EXCEPT ![k] = h],
           k \in Keys /\ k[2] # <<>> /\ histograms[k] # NoHistogram =>
              /\ h.count >= histograms[k].count
              /\ \A b \in histograms[k].buckets :
                    b \in h.buckets /\ h.counts[b] >= histograms[k].counts[b]
    PROVE  MInv' /\ NotLower
<1>1. /\ DOMAIN histograms' = Keys
      /\ \A l \in Keys : histograms'[l] = IF l = k THEN h ELSE histograms[l]
  BY DEF MInv
<1>2. MInv'
  BY <1>1 DEF MInv
<1>3. \A l \in Keys : values'[l] = values[l] /\ values[l] \in Int
  BY DEF MInv
<1>4. ASSUME NEW l \in Rendered
      PROVE  /\ histograms'[l].count >= histograms[l].count
             /\ \A b \in histograms[l].buckets :
                   b \in histograms'[l].buckets /\ histograms'[l].counts[b] >= histograms[l].counts[b]
  <2>1. l \in Keys /\ l[2] # <<>> /\ histograms[l] # NoHistogram
    BY DEF Rendered
  <2>2. CASE l = k
    BY <1>1, <2>1, <2>2
  <2>3. CASE l # k
    <3>1. histograms'[l] = histograms[l] /\ HistogramSound(histograms[l])
      BY <1>1, <2>1, <2>3 DEF MInv
    <3> QED BY <3>1 DEF HistogramSound
  <2> QED BY <2>2, <2>3
<1> QED BY <1>2, <1>3, <1>4 DEF NotLower

\* Histograms are left alone, and values of counters not lowered.
LEMMA ValueStep ==
    ASSUME MInv, UNCHANGED histograms, DOMAIN descriptors' = Metrics, values' \in [Keys -> Int],
           \A k \in Keys : descriptors[k[1]].type = "counter" => values'[k] >= values[k]
    PROVE  MInv' /\ NotLower
<1>1. MInv'
  BY DEF MInv
<1>2. ASSUME NEW l \in Rendered
      PROVE  /\ histograms'[l].count >= histograms[l].count
             /\ \A b \in histograms[l].buckets :
                   b \in histograms'[l].buckets /\ histograms'[l].counts[b] >= histograms[l].counts[b]
  <2>1. HistogramSound(histograms[l])
    BY DEF Rendered, MInv
  <2> QED BY <2>1 DEF HistogramSound
<1> QED BY <1>1, <1>2 DEF NotLower

\* A number is replaced in a function to numbers.
LEMMA Replaced ==
    ASSUME NEW K, NEW f \in [K -> Int], NEW key, NEW v, key \in K => v \in Int
    PROVE  /\ [f EXCEPT ![key] = v] \in [K -> Int]
           /\ \A k \in K : /\ f[k] \in Int
                            /\ [f EXCEPT ![key] = v][k] = IF k = key THEN v ELSE f[k]
  OBVIOUS

LEMMA RegistryStep ==
    ASSUME Number, MInv, [RegistryNext]_(registry)
    PROVE  MInv' /\ [NotLower]_(registry)
<1>1. ASSUME NEW m \in Metrics, NEW type, NEW names, Register(m, type, names)
      PROVE  MInv' /\ NotLower
  <2>1. \A k \in Keys : values'[k] = values[k] /\ values[k] \in Int
    BY <1>1 DEF Register, MInv
  <2> QED BY <1>1, <2>1, ValueStep DEF Register, MInv
<1>2. ASSUME NEW m \in Metrics, NEW labels \in Labels, NEW n \in {-1, 1}, Add(m, labels, n)
      PROVE  MInv' /\ NotLower
  <2> DEFINE key == <<m, labels>>
  <2>1. values' = [values EXCEPT ![key] = values[key] + n] /\ values \in [Keys -> Int]
    BY <1>2 DEF Add, MInv
  <2>2. key[1] = m
    OBVIOUS
  <2>3. n \in Int
    OBVIOUS
  <2> HIDE DEF key
  <2>4. key \in Keys => values[key] + n \in Int
    BY <2>1, <2>3
  <2>5. /\ values' \in [Keys -> Int]
        /\ \A k \in Keys : values[k] \in Int
                             /\ values'[k] = IF k = key THEN values[key] + n ELSE values[k]
    BY <2>1, <2>4, Replaced
  <2>6. descriptors[m].type = "counter" => n >= 0
    BY <1>2 DEF Add
  <2>7. \A k \in Keys : descriptors[k[1]].type = "counter" => values'[k] >= values[k]
    BY <2>5, <2>6, <2>2, <2>3
  <2> QED BY <1>2, <2>5, <2>7, ValueStep DEF Add, MInv
<1>3. ASSUME NEW m \in Metrics, NEW labels \in Labels, NEW n \in {-1, 1}, Set(m, labels, n)
      PROVE  MInv' /\ NotLower
  <2> DEFINE key == <<m, labels>>
  <2>1. values' = [values EXCEPT ![key] = n] /\ values \in [Keys -> Int]
    BY <1>3 DEF Set, MInv
  <2>2. key[1] = m
    OBVIOUS
  <2>3. n \in Int
    OBVIOUS
  <2> HIDE DEF key
  <2>5. /\ values' \in [Keys -> Int]
        /\ \A k \in Keys : values[k] \in Int
                             /\ values'[k] = IF k = key THEN n ELSE values[k]
    BY <2>1, <2>3, Replaced
  <2>6. descriptors[m].type = "gauge"
    BY <1>3 DEF Set
  <2>7. \A k \in Keys : descriptors[k[1]].type = "counter" => values'[k] >= values[k]
    BY <2>5, <2>6, <2>2, <2>3
  <2> QED BY <1>3, <2>5, <2>7, ValueStep DEF Set, MInv
<1>4. ASSUME NEW m \in Metrics, NEW labels \in Labels, NEW sample \in Samples,
             Observe(m, labels, sample)
      PROVE  MInv' /\ NotLower
  <2> DEFINE k == <<m, labels>>
             template == histograms[<<m, <<>> >>]
             h == IF histograms[k] = NoHistogram THEN Empty(template.buckets) ELSE histograms[k]
  <2>1. /\ histograms' = [histograms EXCEPT ![k] = Observed(h, sample)]
        /\ UNCHANGED <<descriptors, values>>
    BY <1>4 DEF Observe
  <2>2. k \in Keys /\ <<m, <<>> >> \in Keys
    <3>1. <<>> \in Labels
      <4>1. <<>> \in [{} -> LabelValues]
        OBVIOUS
      <4> QED BY <4>1 DEF Labels
    <3> QED BY <3>1 DEF Keys
  <2>3. HistogramSound(histograms[k]) /\ template.buckets \subseteq Bounds
    BY <2>2 DEF MInv, HistogramSound
  <2>4. HistogramSound(h)
    BY <2>3, EmptySound
  <2>5. /\ HistogramSound(Observed(h, sample))
        /\ Observed(h, sample).count >= h.count
        /\ \A b \in h.buckets : /\ b \in Observed(h, sample).buckets
                                /\ Observed(h, sample).counts[b] >= h.counts[b]
    BY <2>4, ObservedSound
  <2>6. histograms[k] # NoHistogram => h = histograms[k]
    OBVIOUS
  <2> HIDE DEF h, k
  <2> QED BY <2>1, <2>5, <2>6, HistogramStep
<1>5. ASSUME NEW m \in Metrics, NEW buckets \in SUBSET Bounds, ConfigureHistogram(m, buckets)
      PROVE  MInv' /\ NotLower
  <2> DEFINE k == <<m, <<>> >>
  <2>1. /\ histograms' = [histograms EXCEPT ![k] = Empty(buckets)] /\ k[2] = <<>>
        /\ UNCHANGED <<descriptors, values>>
    BY <1>5 DEF ConfigureHistogram
  <2> HIDE DEF k
  <2> QED BY <2>1, EmptySound, HistogramStep
<1>6. CASE UNCHANGED registry
  BY <1>6 DEF registry, MInv
<1>7. CASE RegistryNext
  <2>1. PICK m \in Metrics :
          \/ \E type \in {"counter", "gauge", "histogram"}, names \in SUBSET LabelNames :
                Register(m, type, names)
          \/ \E labels \in Labels :
                \/ \E n \in {-1, 1} : Add(m, labels, n)
                \/ \E n \in {-1, 1} : Set(m, labels, n)
                \/ \E sample \in Samples : Observe(m, labels, sample)
          \/ \E buckets \in SUBSET Bounds : ConfigureHistogram(m, buckets)
    BY <1>7, Zenon DEF RegistryNext
  <2> QED BY <2>1, <1>1, <1>2, <1>3, <1>4, <1>5
<1> QED BY <1>6, <1>7

LEMMA InitSound == RegistryInit => MInv
<1> SUFFICES ASSUME RegistryInit PROVE MInv
  OBVIOUS
<1>1. \A k \in Keys : histograms[k] = NoHistogram
  BY DEF RegistryInit
<1> QED BY <1>1, NoHistogramSound DEF RegistryInit, MInv

\* What is rendered of a histogram is cumulative, for any buckets, samples and
\* labels, and whatever is configured in between.
THEOREM BucketsHold ==
    ASSUME Number
    PROVE  RegistrySpec => []BucketsCumulative
<1>1. MInv => BucketsCumulative
  BY DEF MInv, HistogramSound, BucketsCumulative, Rendered
<1>2. MInv /\ [RegistryNext]_(registry) => MInv'
  BY RegistryStep
<1> QED BY <1>1, <1>2, InitSound, PTL DEF RegistrySpec

\* What a scrape reads of a counter, or of a histogram, never goes down.
THEOREM NeverLowerHolds ==
    ASSUME Number
    PROVE  RegistrySpec => NeverLower
<1>1. MInv /\ [RegistryNext]_(registry) => MInv' /\ [NotLower]_(registry)
  BY RegistryStep
<1> QED BY <1>1, InitSound, PTL DEF RegistrySpec, NeverLower

-----------------------------------------------------------------------------
\* A set of numbers has a least one.
LEMMA Least ==
    ASSUME NEW T, T \subseteq Nat, T # {}
    PROVE  \E i \in T : \A j \in T : i <= j
<1> DEFINE R == OpToRel(<, Nat)
<1>1. IsWellFoundedOn(R, Nat)
  BY NatLessThanWellFounded
<1>2. \A i, j \in Nat : <<j, i>> \in R <=> j < i
  BY Zenon DEF OpToRel
<1> HIDE DEF R
<1>3. PICK i \in T : \A j \in T : ~(<<j, i>> \in R)
  BY <1>1, WFMin, Zenon
<1>4. \A j \in T : ~(j < i)
  BY <1>2, <1>3, Zenon
<1> QED BY <1>4

-----------------------------------------------------------------------------
(* Versions: comparing identifiers.                                        *)

Identifier == [number : Nat, zeros : Nat] \cup [text : Int]
Version == [core : [1..3 -> Nat], prerelease : Seq(Identifier)]

LEMMA IdentifierKind ==
    ASSUME NEW a \in Identifier
    PROVE  \/ V!IsNumber(a) /\ a.number \in Nat
           \/ ~V!IsNumber(a) /\ a.text \in Int
  BY DEF Identifier, V!IsNumber

LEMMA IdentifierOrder ==
    ASSUME NEW a \in Identifier, NEW b \in Identifier, NEW c \in Identifier
    PROVE  /\ V!compareIdentifier(a, b) \in {-1, 0, 1}
           /\ V!compareIdentifier(b, a) = -V!compareIdentifier(a, b)
           /\ V!compareIdentifier(a, a) = 0
           /\ V!compareIdentifier(a, b) = 0 => V!compareIdentifier(a, c) = V!compareIdentifier(b, c)
           /\ V!compareIdentifier(a, b) <= 0 /\ V!compareIdentifier(b, c) <= 0
                 => V!compareIdentifier(a, c) <= 0
  BY IdentifierKind DEF V!compareIdentifier, V!compareInteger

\* The prereleases l and r part at place i: one ends there, or they differ.
Parts(l, r, i) == i > Len(l) \/ i > Len(r) \/ V!compareIdentifier(l[i], r[i]) # 0

PartAt(l, r, i) == i \in Nat \ {0} /\ Parts(l, r, i) /\ \A j \in 1..i - 1 : ~Parts(l, r, j)

LEMMA SomewhereApart ==
    ASSUME NEW l \in Seq(Identifier), NEW r \in Seq(Identifier)
    PROVE  PartAt(l, r, V!Differs(l, r))
<1> DEFINE P(i) == i > 0 /\ Parts(l, r, i)
           S == {i \in Nat : P(i)}
<1>1. Len(l) + 1 \in S
  BY DEF Parts
<1>2. PICK i \in S : \A j \in S : i <= j
  BY <1>1, Least
<1>3. PartAt(l, r, i) /\ i <= Len(l) + 1
  BY <1>1, <1>2 DEF PartAt
<1> DEFINE Q(k) == /\ k \in DOMAIN l /\ k \in DOMAIN r => V!compareIdentifier(l[k], r[k]) # 0
                   /\ \A j \in 1..k - 1 : j \in DOMAIN r /\ V!compareIdentifier(l[j], r[j]) = 0
<1>4. \A k \in 1..Len(l) + 1 : Q(k) <=> PartAt(l, r, k)
  BY DEF PartAt, Parts
<1>5. \E k \in 1..Len(l) + 1 : Q(k)
  BY <1>3, <1>4 DEF PartAt
<1>6. V!Differs(l, r) = CHOOSE k \in 1..Len(l) + 1 : Q(k)
  BY DEF V!Differs
<1> HIDE DEF Q
<1> QED BY <1>4, <1>5, <1>6
\* How they compare when they part at i.
Sign(l, r, i) ==
    IF i > Len(l) THEN IF i > Len(r) THEN 0 ELSE -1
    ELSE IF i > Len(r) THEN 1 ELSE V!compareIdentifier(l[i], r[i])

LEMMA SignIs ==
    ASSUME NEW l \in Seq(Identifier), NEW r \in Seq(Identifier), l # <<>>, r # <<>>,
           NEW i, PartAt(l, r, i)
    PROVE  V!comparePrerelease(l, r) = Sign(l, r, i)
<1>1. V!Differs(l, r) = i
  BY SomewhereApart DEF PartAt
<1>2. CASE l = r
  <2>1. i > Len(l)
    <3> SUFFICES ASSUME i <= Len(l) PROVE FALSE
      BY DEF PartAt
    <3>1. l[i] \in Identifier
      BY DEF PartAt
    <3> QED BY <1>2, <3>1, IdentifierOrder DEF PartAt, Parts
  <2> QED BY <1>2, <2>1 DEF V!comparePrerelease, Sign
<1>3. CASE l # r
  BY <1>1, <1>3 DEF V!comparePrerelease, Sign, PartAt
<1> QED BY <1>2, <1>3

LEMMA Elements ==
    ASSUME NEW l \in Seq(Identifier), NEW i \in Nat \ {0}
    PROVE  Len(l) \in Nat /\ (i <= Len(l) => l[i] \in Identifier)
  OBVIOUS

LEMMA SignOther ==
    ASSUME NEW l \in Seq(Identifier), NEW r \in Seq(Identifier), NEW i, PartAt(l, r, i)
    PROVE  /\ PartAt(r, l, i)
           /\ Sign(l, r, i) \in {-1, 0, 1}
           /\ Sign(r, l, i) = -Sign(l, r, i)
<1>1. ASSUME NEW k \in Nat \ {0}
      PROVE  Parts(l, r, k) <=> Parts(r, l, k)
  BY Elements, IdentifierOrder DEF Parts
<1>2. PartAt(r, l, i)
  BY <1>1 DEF PartAt
<1>3. i \in Nat \ {0}
  BY DEF PartAt
<1>4. Sign(l, r, i) \in {-1, 0, 1} /\ Sign(r, l, i) = -Sign(l, r, i)
  <2>1. CASE i <= Len(l) /\ i <= Len(r)
    BY <1>3, <2>1, Elements, IdentifierOrder DEF Sign
  <2>2. CASE i > Len(l) \/ i > Len(r)
    BY <1>3, <2>2, Elements DEF Sign
  <2> QED BY <1>3, <2>1, <2>2, Elements
<1> QED BY <1>2, <1>4

LEMMA PartsOnce ==
    ASSUME NEW l, NEW r, NEW i, PartAt(l, r, i), NEW k, PartAt(l, r, k)
    PROVE  i = k
  BY DEF PartAt

\* What compares as equal compares alike with a third.
LEMMA SignCongruent ==
    ASSUME NEW l \in Seq(Identifier), NEW m \in Seq(Identifier), NEW r \in Seq(Identifier),
           NEW i, PartAt(l, m, i), Sign(l, m, i) = 0, NEW k, PartAt(m, r, k)
    PROVE  PartAt(l, r, k) /\ Sign(l, r, k) = Sign(m, r, k)
<1>1. /\ i \in Nat \ {0} /\ k \in Nat \ {0}
      /\ Len(l) = i - 1 /\ Len(m) = i - 1
      /\ \A p \in 1..i - 1 : V!compareIdentifier(l[p], m[p]) = 0
  <2>1. i \in Nat \ {0} /\ k \in Nat \ {0} /\ \A p \in 1..i - 1 : ~Parts(l, m, p)
    BY DEF PartAt
  <2>2. i > Len(l) /\ i > Len(m)
    BY <2>1, Elements DEF Sign, PartAt, Parts
  <2>3. \A p \in 1..i - 1 : p <= Len(l) /\ p <= Len(m) /\ V!compareIdentifier(l[p], m[p]) = 0
    BY <2>1, Elements DEF Parts
  <2>4. Len(l) = i - 1 /\ Len(m) = i - 1
    <3>1. i - 1 <= Len(l) /\ i - 1 <= Len(m)
      BY <2>1, <2>3, Elements
    <3> QED BY <2>1, <2>2, <3>1, Elements
  <2> QED BY <2>1, <2>3, <2>4
<1>2. ASSUME NEW p \in Nat \ {0}, p <= Len(l), p <= Len(r)
      PROVE  V!compareIdentifier(l[p], r[p]) = V!compareIdentifier(m[p], r[p])
  BY <1>1, <1>2, Elements, IdentifierOrder
<1>3. ASSUME NEW p \in Nat \ {0}
      PROVE  Parts(l, r, p) <=> Parts(m, r, p)
  BY <1>1, <1>2, Elements DEF Parts
<1> QED BY <1>1, <1>2, <1>3, Elements DEF PartAt, Sign

LEMMA SignTransitive ==
    ASSUME NEW l \in Seq(Identifier), NEW m \in Seq(Identifier), NEW r \in Seq(Identifier),
           NEW i, PartAt(l, m, i), Sign(l, m, i) <= 0,
           NEW j, PartAt(m, r, j), Sign(m, r, j) <= 0,
           NEW k, PartAt(l, r, k)
    PROVE  Sign(l, r, k) <= 0
<1>1. CASE Sign(l, m, i) = 0
  BY <1>1, SignCongruent, PartsOnce
<1>2. CASE Sign(m, r, j) = 0
  <2>1. PartAt(r, m, j) /\ Sign(r, m, j) = 0 /\ PartAt(m, l, i) /\ Sign(m, l, i) = -Sign(l, m, i)
    BY <1>2, SignOther
  <2>2. PartAt(r, l, i) /\ Sign(r, l, i) = Sign(m, l, i)
    BY <2>1, SignCongruent
  <2>3. PartAt(l, r, i) /\ Sign(r, l, i) = -Sign(l, r, i) /\ Sign(l, r, i) \in {-1, 0, 1}
    BY <2>2, SignOther
  <2>4. i = k /\ Sign(l, m, i) \in {-1, 0, 1}
    BY <2>3, PartsOnce, SignOther
  <2> QED BY <2>1, <2>2, <2>3, <2>4
<1>3. CASE Sign(l, m, i) < 0 /\ Sign(m, r, j) < 0
  <2> DEFINE n == IF i <= j THEN i ELSE j
  <2>1. /\ i \in Nat \ {0} /\ j \in Nat \ {0} /\ n \in Nat \ {0} /\ n <= i /\ n <= j
        /\ n = i \/ n = j
        /\ \A p \in 1..i - 1 : ~Parts(l, m, p)
        /\ \A p \in 1..j - 1 : ~Parts(m, r, p)
    BY DEF PartAt
  <2> HIDE DEF n
  <2>2. ASSUME NEW p \in 1..n - 1
        PROVE  ~Parts(l, r, p)
    <3>1. ~Parts(l, m, p) /\ ~Parts(m, r, p) /\ p \in Nat \ {0}
      BY <2>1
    <3> QED BY <3>1, Elements, IdentifierOrder DEF Parts
  <2>3. /\ n <= Len(m)
        /\ n <= Len(l) => V!compareIdentifier(l[n], m[n]) <= 0
        /\ n <= Len(l) /\ n = i => V!compareIdentifier(l[n], m[n]) < 0
    <3>1. CASE n = i
      BY <3>1, <2>1, <1>3, Elements, IdentifierOrder DEF Sign
    <3>2. CASE n # i
      BY <3>2, <2>1, Elements DEF Parts
    <3> QED BY <3>1, <3>2
  <2>4. /\ n <= Len(r)
        /\ n <= Len(m) => V!compareIdentifier(m[n], r[n]) <= 0
        /\ n <= Len(m) /\ n = j => V!compareIdentifier(m[n], r[n]) < 0
    <3>1. CASE n = j
      BY <3>1, <2>1, <2>3, <1>3, Elements, IdentifierOrder DEF Sign
    <3>2. CASE n # j
      BY <3>2, <2>1, Elements DEF Parts
    <3> QED BY <3>1, <3>2
  <2>5. Parts(l, r, n) /\ Sign(l, r, n) < 0
    <3>1. CASE n > Len(l)
      BY <3>1, <2>1, <2>4, Elements DEF Parts, Sign
    <3>2. CASE n <= Len(l)
      <4>1. l[n] \in Identifier /\ m[n] \in Identifier /\ r[n] \in Identifier
        BY <3>2, <2>1, <2>3, <2>4, Elements
      <4>2. V!compareIdentifier(l[n], r[n]) <= 0
        BY <4>1, <3>2, <2>3, <2>4, IdentifierOrder
      <4>3. V!compareIdentifier(l[n], r[n]) # 0
        BY <4>1, <3>2, <2>1, <2>3, <2>4, IdentifierOrder
      <4>4. V!compareIdentifier(l[n], r[n]) \in {-1, 0, 1}
        BY <4>1, IdentifierOrder
      <4> QED BY <4>2, <4>3, <4>4, <3>2, <2>1, <2>4, Elements DEF Parts, Sign
    <3> QED BY <3>1, <3>2, <2>1, Elements
  <2>6. PartAt(l, r, n)
    BY <2>1, <2>2, <2>5 DEF PartAt
  <2>7. n = k /\ Sign(l, r, k) \in {-1, 0, 1}
    BY <2>6, PartsOnce, SignOther
  <2> QED BY <2>5, <2>7
<1> QED BY <1>1, <1>2, <1>3, SignOther

\* A release is above its prereleases.
LEMMA ReleaseAbove ==
    ASSUME NEW l
    PROVE  /\ V!comparePrerelease(l, l) = 0
           /\ l # <<>> => V!comparePrerelease(<<>>, l) = 1 /\ V!comparePrerelease(l, <<>>) = -1
  BY DEF V!comparePrerelease

\* Prereleases are totally ordered, up to what compares as equal.
LEMMA PrereleaseOrder ==
    ASSUME NEW l \in Seq(Identifier), NEW m \in Seq(Identifier), NEW r \in Seq(Identifier)
    PROVE  /\ V!comparePrerelease(l, m) \in {-1, 0, 1}
           /\ V!comparePrerelease(m, l) = -V!comparePrerelease(l, m)
           /\ V!comparePrerelease(l, m) = 0 => V!comparePrerelease(l, r) = V!comparePrerelease(m, r)
           /\ V!comparePrerelease(l, m) <= 0 /\ V!comparePrerelease(m, r) <= 0
                 => V!comparePrerelease(l, r) <= 0
<1>1. CASE l = <<>> \/ m = <<>> \/ r = <<>>
  <2>1. \A x, y \in Seq(Identifier) :
           /\ V!comparePrerelease(x, y) \in {-1, 0, 1}
           /\ V!comparePrerelease(y, x) = -V!comparePrerelease(x, y)
    <3> SUFFICES ASSUME NEW x \in Seq(Identifier), NEW y \in Seq(Identifier)
                 PROVE  /\ V!comparePrerelease(x, y) \in {-1, 0, 1}
                        /\ V!comparePrerelease(y, x) = -V!comparePrerelease(x, y)
      OBVIOUS
    <3>1. CASE x = <<>> \/ y = <<>>
      BY <3>1, ReleaseAbove
    <3>2. CASE x # <<>> /\ y # <<>>
      BY <3>2, SomewhereApart, SignIs, SignOther
    <3> QED BY <3>1, <3>2
  <2>2. CASE l = <<>>
    BY <2>1, <2>2, ReleaseAbove
  <2>3. CASE m = <<>>
    BY <2>1, <2>3, ReleaseAbove
  <2>4. CASE r = <<>>
    BY <2>1, <2>4, ReleaseAbove
  <2> QED BY <1>1, <2>2, <2>3, <2>4
<1>2. CASE l # <<>> /\ m # <<>> /\ r # <<>>
  <2>1. PICK i : PartAt(l, m, i)
    BY SomewhereApart
  <2>2. PICK j : PartAt(m, r, j)
    BY SomewhereApart
  <2>3. PICK k : PartAt(l, r, k)
    BY SomewhereApart
  <2>4. /\ V!comparePrerelease(l, m) = Sign(l, m, i) /\ V!comparePrerelease(m, r) = Sign(m, r, j)
        /\ V!comparePrerelease(l, r) = Sign(l, r, k)
    BY <1>2, <2>1, <2>2, <2>3, SignIs
  <2>5. PartAt(m, l, i) /\ Sign(l, m, i) \in {-1, 0, 1} /\ Sign(m, l, i) = -Sign(l, m, i)
    BY <2>1, SignOther
  <2>6. V!comparePrerelease(m, l) = Sign(m, l, i)
    BY <1>2, <2>5, SignIs
  <2>7. Sign(l, m, i) = 0 => Sign(l, r, k) = Sign(m, r, j)
    BY <2>1, <2>2, <2>3, SignCongruent, PartsOnce
  <2>8. Sign(l, m, i) <= 0 /\ Sign(m, r, j) <= 0 => Sign(l, r, k) <= 0
    BY <2>1, <2>2, <2>3, SignTransitive
  <2> QED BY <2>4, <2>5, <2>6, <2>7, <2>8
<1> QED BY <1>1, <1>2

-----------------------------------------------------------------------------
(* Versions: comparing them.                                               *)

LEMMA CompareIs ==
    ASSUME NEW v \in Version, NEW w \in Version
    PROVE  V!Compare(v, w) =
              IF v.core[1] # w.core[1] THEN V!compareInteger(v.core[1], w.core[1])
              ELSE IF v.core[2] # w.core[2] THEN V!compareInteger(v.core[2], w.core[2])
              ELSE IF v.core[3] # w.core[3] THEN V!compareInteger(v.core[3], w.core[3])
              ELSE V!comparePrerelease(v.prerelease, w.prerelease)
<1> DEFINE d == {k \in 1..3 : v.core[k] # w.core[k]}
           first == CHOOSE k \in d : \A j \in d : k <= j
<1>1. V!Compare(v, w) =
         IF d # {} THEN V!compareInteger(v.core[first], w.core[first])
         ELSE V!comparePrerelease(v.prerelease, w.prerelease)
  BY DEF V!Compare
<1>2. \A k \in 1..3 : k = 1 \/ k = 2 \/ k = 3
  OBVIOUS
<1>3. ASSUME NEW k \in d, \A j \in d : k <= j
      PROVE  first = k
  <2>1. first \in d /\ \A j \in d : first <= j
    BY <1>3
  <2> QED BY <1>3, <2>1
<1>4. v.core[1] # w.core[1] => first = 1 /\ d # {}
  BY <1>3
<1>5. v.core[1] = w.core[1] /\ v.core[2] # w.core[2] => first = 2 /\ d # {}
  BY <1>2, <1>3
<1>6. v.core[1] = w.core[1] /\ v.core[2] = w.core[2] /\ v.core[3] # w.core[3] => first = 3 /\ d # {}
  BY <1>2, <1>3
<1>7. v.core[1] = w.core[1] /\ v.core[2] = w.core[2] /\ v.core[3] = w.core[3] => d = {}
  BY <1>2
<1> HIDE DEF d, first
<1> QED BY <1>1, <1>4, <1>5, <1>6, <1>7

\* Numbers first, and the last part only where they agree.
Lexical(x, y, last) ==
    IF x[1] # y[1] THEN V!compareInteger(x[1], y[1])
    ELSE IF x[2] # y[2] THEN V!compareInteger(x[2], y[2])
    ELSE IF x[3] # y[3] THEN V!compareInteger(x[3], y[3])
    ELSE last

Above(x, y, last) ==
    \/ x[1] > y[1]
    \/ x[1] = y[1] /\ x[2] > y[2]
    \/ x[1] = y[1] /\ x[2] = y[2] /\ x[3] > y[3]
    \/ x[1] = y[1] /\ x[2] = y[2] /\ x[3] = y[3] /\ last = 1

LEMMA LexicalIs ==
    ASSUME NEW x \in [1..3 -> Nat], NEW y \in [1..3 -> Nat], NEW last
    PROVE  /\ Lexical(x, y, last) = 1 <=> Above(x, y, last)
           /\ last \in {-1, 0, 1} => Lexical(x, y, last) \in {-1, 0, 1}
<1>1. x[1] \in Nat /\ x[2] \in Nat /\ x[3] \in Nat /\ y[1] \in Nat /\ y[2] \in Nat /\ y[3] \in Nat
  OBVIOUS
<1> QED BY <1>1 DEF Lexical, Above, V!compareInteger

LEMMA LexicalOpposite ==
    ASSUME NEW x \in [1..3 -> Nat], NEW y \in [1..3 -> Nat], NEW last \in Int
    PROVE  Lexical(y, x, -last) = -Lexical(x, y, last)
<1>1. x[1] \in Nat /\ x[2] \in Nat /\ x[3] \in Nat /\ y[1] \in Nat /\ y[2] \in Nat /\ y[3] \in Nat
  OBVIOUS
<1>2. \A i, j \in Nat : V!compareInteger(j, i) = -V!compareInteger(i, j)
  BY DEF V!compareInteger
<1>3. CASE x[1] # y[1]
  BY <1>1, <1>2, <1>3 DEF Lexical
<1>4. CASE x[1] = y[1] /\ x[2] # y[2]
  BY <1>1, <1>2, <1>4 DEF Lexical
<1>5. CASE x[1] = y[1] /\ x[2] = y[2] /\ x[3] # y[3]
  BY <1>1, <1>2, <1>5 DEF Lexical
<1>6. CASE x[1] = y[1] /\ x[2] = y[2] /\ x[3] = y[3]
  BY <1>6, Zenon DEF Lexical
<1> QED BY <1>3, <1>4, <1>5, <1>6

LEMMA LexicalEqual ==
    ASSUME NEW x \in [1..3 -> Nat], NEW y \in [1..3 -> Nat], NEW last, Lexical(x, y, last) = 0
    PROVE  x[1] = y[1] /\ x[2] = y[2] /\ x[3] = y[3] /\ last = 0
<1>1. x[1] \in Nat /\ x[2] \in Nat /\ x[3] \in Nat /\ y[1] \in Nat /\ y[2] \in Nat /\ y[3] \in Nat
  OBVIOUS
<1> QED BY <1>1 DEF Lexical, V!compareInteger

\* So are versions.
LEMMA VersionOrder ==
    ASSUME NEW u \in Version, NEW v \in Version, NEW w \in Version
    PROVE  /\ V!Compare(u, v) \in {-1, 0, 1}
           /\ V!Compare(v, u) = -V!Compare(u, v)
           /\ V!Compare(u, u) = 0
           /\ V!Compare(u, v) = 0 => V!Compare(u, w) = V!Compare(v, w)
           /\ V!Compare(u, v) <= 0 /\ V!Compare(v, w) <= 0 => V!Compare(u, w) <= 0
<1> DEFINE p(x, y) == V!comparePrerelease(x.prerelease, y.prerelease)
<1>1. /\ u.core \in [1..3 -> Nat] /\ v.core \in [1..3 -> Nat] /\ w.core \in [1..3 -> Nat]
      /\ u.prerelease \in Seq(Identifier) /\ v.prerelease \in Seq(Identifier)
      /\ w.prerelease \in Seq(Identifier)
  BY DEF Version
<1>2. /\ p(u, v) \in {-1, 0, 1} /\ p(v, w) \in {-1, 0, 1} /\ p(u, w) \in {-1, 0, 1}
      /\ p(v, u) = -p(u, v) /\ p(u, u) = 0
      /\ p(u, v) = 0 => p(u, w) = p(v, w)
      /\ p(u, v) <= 0 /\ p(v, w) <= 0 => p(u, w) <= 0
  BY <1>1, PrereleaseOrder, ReleaseAbove
<1>3. /\ V!Compare(u, v) = Lexical(u.core, v.core, p(u, v))
      /\ V!Compare(v, u) = Lexical(v.core, u.core, p(v, u))
      /\ V!Compare(u, u) = Lexical(u.core, u.core, p(u, u))
      /\ V!Compare(u, w) = Lexical(u.core, w.core, p(u, w))
      /\ V!Compare(v, w) = Lexical(v.core, w.core, p(v, w))
  BY CompareIs DEF Lexical
<1> HIDE DEF p
<1>4. \A x, y \in {u, v, w} : \A k \in 1..3 : x.core[k] \in Nat /\ y.core[k] \in Nat
  BY <1>1
<1>5. /\ V!Compare(u, v) \in {-1, 0, 1} /\ V!Compare(u, w) \in {-1, 0, 1}
      /\ V!Compare(v, w) \in {-1, 0, 1}
  <2>1. /\ Lexical(u.core, v.core, p(u, v)) \in {-1, 0, 1}
        /\ Lexical(u.core, w.core, p(u, w)) \in {-1, 0, 1}
        /\ Lexical(v.core, w.core, p(v, w)) \in {-1, 0, 1}
    BY <1>1, <1>2, LexicalIs
  <2> QED BY <1>3, <2>1
<1>6. V!Compare(v, u) = -V!Compare(u, v) /\ V!Compare(u, u) = 0
  <2>1. V!Compare(u, u) = 0
    BY <1>2, <1>3 DEF Lexical
  <2>2. p(u, v) \in Int
    BY <1>2
  <2>3. Lexical(v.core, u.core, -p(u, v)) = -Lexical(u.core, v.core, p(u, v))
    BY <1>1, <2>2, LexicalOpposite
  <2>4. V!Compare(v, u) = -V!Compare(u, v)
    BY <1>2, <1>3, <2>3
  <2> QED BY <2>1, <2>4
<1>7. ASSUME V!Compare(u, v) = 0
      PROVE  u.core[1] = v.core[1] /\ u.core[2] = v.core[2] /\ u.core[3] = v.core[3] /\ p(u, v) = 0
  <2>1. Lexical(u.core, v.core, p(u, v)) = 0
    BY <1>3, <1>7
  <2> QED BY <1>1, <2>1, LexicalEqual
<1>8. V!Compare(u, v) = 0 => V!Compare(u, w) = V!Compare(v, w)
  BY <1>2, <1>3, <1>7 DEF Lexical
<1>9. V!Compare(u, v) <= 0 /\ V!Compare(v, w) <= 0 => V!Compare(u, w) <= 0
  <2> SUFFICES ASSUME V!Compare(u, v) # 1, V!Compare(v, w) # 1, V!Compare(u, w) = 1
               PROVE  FALSE
    BY <1>5
  <2>1. /\ ~Above(u.core, v.core, p(u, v)) /\ ~Above(v.core, w.core, p(v, w))
        /\ Above(u.core, w.core, p(u, w))
    <3>1. /\ Lexical(u.core, v.core, p(u, v)) # 1 /\ Lexical(v.core, w.core, p(v, w)) # 1
          /\ Lexical(u.core, w.core, p(u, w)) = 1
      BY <1>3
    <3> QED BY <1>1, <3>1, LexicalIs
  <2>2. p(u, v) # 1 /\ p(v, w) # 1 => p(u, w) # 1
    BY <1>2
  <2>3. \A k \in 1..3 : u.core[k] \in Nat /\ v.core[k] \in Nat /\ w.core[k] \in Nat
    BY <1>4
  <2> QED BY <2>1, <2>2, <2>3 DEF Above
<1> QED BY <1>5, <1>6, <1>8, <1>9

\* Versions of any numbers and any prereleases are in one order, and a
\* constraint matches just those between its bounds (OrderHolds of Versions).
THEOREM VersionsInOrder ==
    ASSUME Unset \notin Version, \A l, r : [minimum |-> l, maximum |-> r] # Unset,
           NEW x \in [u : Version, v : Version, w : Version]
    PROVE  V!OrderHolds(x)
<1> DEFINE u == x.u
           v == x.v
           w == x.w
           c == V!ParseVersionConstraint(u, w)
           final(y) == [y EXCEPT !.prerelease = <<>>]
<1>1. u \in Version /\ v \in Version /\ w \in Version
  OBVIOUS
<1>2. u # Unset /\ v # Unset /\ w # Unset
  BY <1>1
<1>3. c # Unset => /\ V!Compare(u, w) <= 0
                   /\ \A y \in Version : V!Match(c, y) <=> V!Compare(y, u) >= 0 /\ V!Compare(y, w) <= 0
  BY <1>1, <1>2, VersionOrder DEF V!ParseVersionConstraint, V!Match
<1>4. V!Compare(u, w) <= 0 => c # Unset
  BY <1>1, VersionOrder DEF V!ParseVersionConstraint
<1>5. \A y \in Version : /\ final(y) \in Version /\ final(y).core = y.core
                         /\ final(y).prerelease = <<>>
  <2> SUFFICES ASSUME NEW y \in Version
               PROVE  /\ final(y) \in Version /\ final(y).core = y.core
                      /\ final(y).prerelease = <<>>
    OBVIOUS
  <2>1. /\ y.core \in [1..3 -> Nat] /\ <<>> \in Seq(Identifier)
        /\ y = [core |-> y.core, prerelease |-> y.prerelease]
    BY DEF Version
  <2>2. final(y) = [core |-> y.core, prerelease |-> <<>>]
    BY <2>1
  <2> HIDE DEF final
  <2> QED BY <2>1, <2>2 DEF Version
<1> HIDE DEF final
<1>6. u.prerelease # <<>> => V!Compare(u, final(u)) < 0
  <2>1. V!Compare(u, final(u)) = V!comparePrerelease(u.prerelease, <<>>)
    BY <1>1, <1>5, CompareIs
  <2> QED BY <2>1, ReleaseAbove
<1>7. V!Compare(final(v), final(u)) < 0 => V!Compare(final(v), u) < 0
  <2>1. V!comparePrerelease(<<>>, <<>>) = 0
    BY ReleaseAbove
  <2>2. \A k \in 1..3 : final(u).core[k] = u.core[k]
    BY <1>1, <1>5
  <2> QED BY <1>1, <1>5, <2>1, <2>2, CompareIs
<1> HIDE DEF u, v, w, c
<1>8. V!Compare(u, v) = -V!Compare(v, u) /\ V!Compare(u, u) = 0
  BY <1>1, VersionOrder
<1>9. V!Compare(u, v) = 0 => V!Compare(u, w) = V!Compare(v, w)
  BY <1>1, VersionOrder
<1>10. V!Compare(u, v) <= 0 /\ V!Compare(v, w) <= 0
          => c # Unset /\ V!Match(c, u) /\ V!Match(c, v) /\ V!Match(c, w)
  BY <1>1, <1>3, <1>4, VersionOrder
<1>11. c # Unset /\ V!Match(c, v) => V!Compare(u, w) <= 0
  BY <1>3
<1> QED BY <1>6, <1>7, <1>8, <1>9, <1>10, <1>11 DEF V!OrderHolds, u, v, w, c, final

-----------------------------------------------------------------------------
(* Pause rules and schedules.                                              *)

Rule == [failure : Nat, offline : Nat, timeout : Nat, enabled : BOOLEAN]
Metric == [total : Int, succeeded : Int, failed : Int, timedOut : Int, offline : Int]

\* A rate that is reached stays so with more that count, or fewer in all.
LEMMA ReachedKept ==
    ASSUME NEW rate \in Nat, NEW n \in Nat, NEW more \in Nat, n <= more,
           NEW total \in Nat, NEW fewer \in Nat, fewer <= total, B!Reached(rate, n, total)
    PROVE  B!Reached(rate, more, fewer)
<1>1. rate * fewer <= rate * total /\ rate * fewer \in Nat /\ rate * total \in Nat
  BY Monotone
<1> QED BY <1>1 DEF B!Reached

\* For any rule and counts: where the counts fit together the domain has one
\* answer, and a rule that pauses goes on to do so, for the same reason or a graver
\* one, with one more failure or fewer devices (RuleHolds of BatchPlanning).
THEOREM RulePauses ==
    ASSUME NEW x \in [rule : Rule, metrics : Metric]
    PROVE  B!RuleHolds(x)
<1> DEFINE rule == x.rule
           m == x.metrics
           reason == B!Evaluate(rule, m)
           graver == CASE reason = "failure_rate" -> {"failure_rate"}
                       [] reason = "offline_rate" -> {"failure_rate", "offline_rate"}
                       [] OTHER -> {"failure_rate", "offline_rate", "timeout_rate"}
           one == [m EXCEPT !.failed = @ + 1]
           less(n) == [m EXCEPT !.total = n]
<1>1. /\ rule.failure \in Nat /\ rule.offline \in Nat /\ rule.timeout \in Nat
      /\ m.total \in Int /\ m.succeeded \in Int /\ m.failed \in Int
      /\ m.timedOut \in Int /\ m.offline \in Int
  BY DEF Rule, Metric
<1>2. /\ one.failed = m.failed + 1 /\ one.total = m.total
      /\ one.offline = m.offline /\ one.timedOut = m.timedOut
      /\ \A n : /\ less(n).total = n /\ less(n).failed = m.failed
                /\ less(n).offline = m.offline /\ less(n).timedOut = m.timedOut
  BY DEF Metric
<1>3. B!ValidMetrics(m) /\ m.offline <= m.total => B!Decision(rule, m) = reason
  BY <1>1 DEF B!ValidMetrics, B!Decision, B!Evaluate
<1> HIDE DEF rule, m, one, less
<1>4. reason \notin {"none", "invalid"} =>
         /\ m.failed \in Nat /\ m.offline \in Nat /\ m.timedOut \in Nat /\ m.total \in Nat
         /\ m.total # 0 /\ rule.enabled /\ reason = B!Reason(rule, m)
  BY <1>1 DEF B!Evaluate
<1>5. ASSUME reason \notin {"none", "invalid"}, NEW f, f.failed \in Nat, f.total \in Nat,
             m.failed <= f.failed, f.total <= m.total, f.offline = m.offline, f.timedOut = m.timedOut
      PROVE  B!Reason(rule, f) \in graver
  <2>1. /\ B!Reached(rule.failure, m.failed, m.total) => B!Reached(rule.failure, f.failed, f.total)
        /\ B!Reached(rule.offline, m.offline, m.total) => B!Reached(rule.offline, f.offline, f.total)
        /\ B!Reached(rule.timeout, m.timedOut, m.total) => B!Reached(rule.timeout, f.timedOut, f.total)
    BY <1>1, <1>4, <1>5, ReachedKept
  <2> QED BY <1>4, <1>5, <2>1 DEF B!Reason
<1>6. ASSUME reason \notin {"none", "invalid"}, NEW f, f.total # 0
      PROVE  /\ B!Evaluate(rule, f) \in {"invalid", B!Reason(rule, f)}
             /\ B!ValidMetrics(f) => B!Decision(rule, f) = B!Reason(rule, f)
  BY <1>4, <1>6 DEF B!Evaluate, B!Decision
<1>7. reason \notin {"none", "invalid"} => B!Evaluate(rule, one) \in graver \cup {"invalid"}
  BY <1>2, <1>4, <1>5, <1>6
<1>8. ASSUME reason \notin {"none", "invalid"}, NEW n \in 0..m.total - 1, n > 0
      PROVE  /\ B!Evaluate(rule, less(n)) \in graver \cup {"invalid"}
             /\ B!ValidMetrics(less(n)) => B!Decision(rule, less(n)) \in graver
  BY <1>2, <1>4, <1>5, <1>6, <1>8
<1> HIDE DEF reason, graver
<1>9. ASSUME reason \notin {"none", "invalid"}, NEW f \in {less(n) : n \in 0..m.total - 1}, f.total > 0
      PROVE  /\ B!Evaluate(rule, f) \in graver \cup {"invalid"}
             /\ B!ValidMetrics(f) => B!Decision(rule, f) \in graver
  BY <1>2, <1>8, <1>9
<1> QED BY <1>3, <1>7, <1>9 DEF B!RuleHolds, rule, m, reason, graver, one, less

\* For any command and time: a rollout created of an accepted command is from then
\* on either scheduled or runnable, as the scheduler's query sees it (ScheduleHolds
\* of BatchPlanning).
THEOREM ScheduleKept ==
    ASSUME Minute \in Nat, NEW x, x.now \in Int, x.command.scheduled \in Int
    PROVE  B!ScheduleHolds(x)
<1> DEFINE r == [status |-> "draft", strategy |-> x.command.strategy, scheduled |-> x.command.scheduled]
<1>1. /\ r.status = "draft" /\ r.scheduled = x.command.scheduled /\ r.strategy = x.command.strategy
      /\ [r EXCEPT !.status = "running"].status = "running"
      /\ [r EXCEPT !.status = "running"].scheduled = x.command.scheduled
  OBVIOUS
<1> HIDE DEF r
<1>2. ASSUME B!ValidateRolloutCommand(x.command, x.now)
      PROVE  B!ValidateSchedule(r, x.now)
  <2>1. /\ x.command.strategy = "scheduled" => x.command.scheduled # 0
        /\ x.command.scheduled # 0 => x.command.scheduled >= x.now
    BY <1>2, Zenon DEF B!ValidateRolloutCommand
  <2> QED BY <1>1, <2>1 DEF B!ValidateSchedule
<1>3. ASSUME NEW later \in Int
      PROVE  /\ B!IsScheduled(r, later) <=> ~B!IsRunnable(r, later)
             /\ B!IsRunnable(r, later) <=> B!Listed(r, later)
             /\ B!Listed([r EXCEPT !.status = "running"], later) <=> ~B!IsScheduled(r, later)
  BY <1>1 DEF B!IsScheduled, B!IsRunnable, B!Listed
<1> QED BY <1>2, <1>3 DEF B!ScheduleHolds, r

-----------------------------------------------------------------------------
(* The sizes of batches.                                                   *)

\* The place of d among the devices, in the order of their ids.
Place(devices, d) == Cardinality({e \in devices : e < d})

LEMMA Counting == \A S : B!Cardinality(S) = Cardinality(S)
  BY DEF B!Cardinality, Cardinality

LEMMA DivisionIs ==
    ASSUME NEW a \in Nat, NEW b \in Nat \ {0}, NEW q \in Nat
    PROVE  a \div b = q <=> b * q <= a /\ a < b * q + b
<1> DEFINE p == a \div b
<1>1. p \in Nat /\ b * p <= a /\ a < b * p + b
  BY DivisionBounds
<1>2. b * p \in Nat /\ b * q \in Nat
  BY <1>1
<1> HIDE DEF p
<1>3. ASSUME b * q <= a, a < b * q + b
      PROVE  p = q
  <2>1. p <= q
    BY <1>1, <1>2, <1>3, Cancelled
  <2>2. q <= p
    BY <1>1, <1>2, <1>3, Cancelled
  <2> QED BY <1>1, <2>1, <2>2
<1> QED BY <1>1, <1>3 DEF p

\* Every device has a place of its own, and the places are 0 to n - 1.
LEMMA Places ==
    ASSUME NEW devices, devices \subseteq Int, IsFiniteSet(devices),
           NEW n, n = Cardinality(devices)
    PROVE  /\ n \in Nat
           /\ \A d \in devices : Place(devices, d) \in 0..n - 1
           /\ \A d, e \in devices : Place(devices, d) = Place(devices, e) => d = e
           /\ \A k \in 0..n - 1 : \E d \in devices : Place(devices, d) = k
<1> DEFINE below(d) == {e \in devices : e < d}
           place == [d \in devices |-> Place(devices, d)]
<1>1. n \in Nat
  BY FS_CardinalityType
<1>2. ASSUME NEW d \in devices
      PROVE  /\ IsFiniteSet(below(d)) /\ Cardinality(below(d)) \in Nat
             /\ Cardinality(below(d)) < n
  <2>1. below(d) \in SUBSET devices /\ d \notin below(d)
    OBVIOUS
  <2>2. IsFiniteSet(below(d)) /\ Cardinality(below(d)) <= n /\ Cardinality(below(d)) # n
    BY <2>1, FS_Subset
  <2>3. Cardinality(below(d)) \in Nat
    BY <2>2, FS_CardinalityType
  <2> QED BY <1>1, <2>2, <2>3
<1>3. ASSUME NEW d \in devices, NEW e \in devices, d < e
      PROVE  Cardinality(below(d)) < Cardinality(below(e))
  <2>1. below(d) \in SUBSET below(e) /\ d \in below(e) /\ d \notin below(d)
    <3>1. d \in Int /\ e \in Int /\ \A f \in devices : f \in Int
      OBVIOUS
    <3>2. \A f \in devices : f < d => f < e
      BY <1>3, <3>1
    <3>3. below(d) \in SUBSET below(e)
      BY <3>2
    <3>4. d \in below(e) /\ ~(d < d)
      BY <1>3, <3>1
    <3> QED BY <3>3, <3>4
  <2>2. /\ Cardinality(below(d)) <= Cardinality(below(e))
        /\ Cardinality(below(d)) # Cardinality(below(e))
    BY <1>2, <2>1, FS_Subset
  <2> QED BY <1>2, <2>2
<1> HIDE DEF below
<1>4. \A d \in devices : Place(devices, d) = Cardinality(below(d))
  BY DEF Place, below
<1>5. \A d \in devices : Place(devices, d) \in 0..n - 1
  BY <1>1, <1>2, <1>4
<1>6. ASSUME NEW d \in devices, NEW e \in devices, Place(devices, d) = Place(devices, e)
      PROVE  d = e
  <2>1. d \in Int /\ e \in Int
    OBVIOUS
  <2>2. ~(d < e) /\ ~(e < d)
    BY <1>2, <1>3, <1>4, <1>6
  <2> QED BY <2>1, <2>2
<1>7. place \in Injection(devices, 0..n - 1)
  BY <1>5, <1>6 DEF Injection, IsInjective
<1>8. IsFiniteSet(0..n - 1) /\ Cardinality(0..n - 1) = n
  <2>1. 0 \in Int /\ n - 1 \in Int
    BY <1>1
  <2> QED BY <1>1, <2>1, FS_Interval
<1>9. place \in Surjection(devices, 0..n - 1)
  BY <1>7, <1>8, FS_Injection
<1>10. \A k \in 0..n - 1 : \E d \in devices : Place(devices, d) = k
  BY <1>9 DEF Surjection
<1> QED BY <1>1, <1>5, <1>6, <1>10

\* As many devices have places in an interval as it is long.
LEMMA Placed ==
    ASSUME NEW devices, devices \subseteq Int, IsFiniteSet(devices),
           NEW l \in Nat, NEW m \in Nat, l <= m, m <= Cardinality(devices)
    PROVE  Cardinality({d \in devices : Place(devices, d) \in l..m - 1}) = m - l
<1> DEFINE n == Cardinality(devices)
           S == {d \in devices : Place(devices, d) \in l..m - 1}
           place == [d \in S |-> Place(devices, d)]
<1>1. /\ n \in Nat
      /\ \A d, e \in devices : Place(devices, d) = Place(devices, e) => d = e
      /\ \A k \in 0..n - 1 : \E d \in devices : Place(devices, d) = k
  BY Places
<1>2. l..m - 1 \subseteq 0..n - 1
  BY <1>1
<1>3. place \in Bijection(S, l..m - 1)
  <2>1. place \in Injection(S, l..m - 1)
    BY <1>1 DEF Injection, IsInjective
  <2>2. \A k \in l..m - 1 : \E d \in S : place[d] = k
    BY <1>1, <1>2
  <2>3. place \in [S -> l..m - 1]
    OBVIOUS
  <2> QED BY <2>1, <2>2, <2>3 DEF Bijection, Surjection
<1>4. IsFiniteSet(S)
  BY FS_Subset
<1>5. Cardinality(l..m - 1) = Cardinality(S)
  BY <1>3, <1>4, FS_Bijection DEF ExistsBijection
<1>6. Cardinality(l..m - 1) = m - l
  <2>1. l \in Int /\ m - 1 \in Int
    OBVIOUS
  <2>2. Cardinality(l..m - 1) = IF l > m - 1 THEN 0 ELSE (m - 1) - l + 1
    BY <2>1, FS_Interval
  <2> QED BY <2>2
<1> QED BY <1>5, <1>6

\* The quotient rounded up.
LEMMA RoundedUp ==
    ASSUME NEW n \in Nat, NEW k \in Nat \ {0}
    PROVE  /\ B!CeilDiv(n, k) \in Nat
           /\ n <= k * B!CeilDiv(n, k)
           /\ k * B!CeilDiv(n, k) < n + k
<1>1. n + k - 1 \in Nat /\ k * B!CeilDiv(n, k) \in Int
  BY DEF B!CeilDiv
<1>2. /\ B!CeilDiv(n, k) \in Nat
      /\ k * B!CeilDiv(n, k) <= n + k - 1
      /\ n + k - 1 < k * B!CeilDiv(n, k) + k
  BY <1>1, DivisionBounds DEF B!CeilDiv
<1> QED BY <1>1, <1>2

\* A percentage of some devices, rounded up, is one at least and no more than all.
LEMMA ShareBounds ==
    ASSUME NEW n \in Nat \ {0}, NEW percent \in 1..100
    PROVE  B!CeilDiv(n * percent, 100) \in 1..n
<1>1. n * percent \in Nat /\ n * percent >= 1 /\ n * percent <= 100 * n
  <2>1. n * 1 <= n * percent /\ n * percent <= n * 100
    BY Monotone
  <2> QED BY <2>1
<1> DEFINE c == B!CeilDiv(n * percent, 100)
<1>2. c \in Nat /\ n * percent <= 100 * c /\ 100 * c < n * percent + 100
  BY <1>1, RoundedUp
<1> HIDE DEF c
<1>3. c >= 1 /\ c <= n
  BY <1>1, <1>2
<1> QED BY <1>2, <1>3 DEF c

\* Devices cut into batches of a size: the batches are 1 to BatchCount, and all
\* but the last have just that size, which has the rest.
LEMMA BatchesCut ==
    ASSUME NEW devices, devices \subseteq Int, IsFiniteSet(devices), devices # {},
           NEW size \in 1..Cardinality(devices)
    PROVE  LET count == B!BatchCount(Cardinality(devices), size)
               batch == B!GroupTargetsByBatch(B!Targets(devices, size))
           IN  /\ DOMAIN batch = 1..count
               /\ \A b \in 1..count :
                     Cardinality(batch[b]) = IF b < count THEN size
                                             ELSE Cardinality(devices) - size * (count - 1)
<1> DEFINE n == Cardinality(devices)
           count == B!BatchCount(n, size)
           targets == B!Targets(devices, size)
           batch == B!GroupTargetsByBatch(targets)
<1>1. /\ n \in Nat /\ n > 0
      /\ \A d \in devices : Place(devices, d) \in 0..n - 1
      /\ \A k \in 0..n - 1 : \E d \in devices : Place(devices, d) = k
  <2>1. n # 0
    BY FS_EmptySet
  <2>2. /\ n \in Nat
        /\ \A d \in devices : Place(devices, d) \in 0..n - 1
        /\ \A k \in 0..n - 1 : \E d \in devices : Place(devices, d) = k
    BY Places
  <2> HIDE DEF n
  <2> QED BY <2>1, <2>2
<1>2. size \in Nat \ {0}
  BY <1>1
<1>3. count \in Nat /\ n <= size * count /\ size * count < n + size
  <2> HIDE DEF n
  <2>1. count = B!CeilDiv(n, size)
    BY <1>1, <1>2 DEF B!BatchCount
  <2> HIDE DEF count
  <2> QED BY <1>1, <1>2, <2>1, RoundedUp
<1>4. /\ DOMAIN targets = devices
      /\ \A d \in devices : targets[d] = (Place(devices, d) \div size) + 1
  BY Counting DEF B!Targets, Place
<1>5. /\ DOMAIN batch = {targets[d] : d \in devices}
      /\ \A b \in DOMAIN batch : batch[b] = {d \in devices : targets[d] = b}
  BY <1>4 DEF B!GroupTargetsByBatch, B!Range
<1> HIDE DEF n, count, targets, batch
\* Who is in batch b.
<1>6. ASSUME NEW d \in devices, NEW b \in 1..count
      PROVE  targets[d] = b <=> Place(devices, d) \in size * (b - 1)..size * b - 1
  <2>1. Place(devices, d) \in Nat /\ b - 1 \in Nat
    BY <1>1
  <2>2. Place(devices, d) \div size = b - 1
           <=> size * (b - 1) <= Place(devices, d) /\ Place(devices, d) < size * (b - 1) + size
    BY <1>2, <2>1, DivisionIs
  <2>3. size * (b - 1) + size = size * b /\ size * b \in Int /\ size * (b - 1) \in Int
    BY <1>2, <2>1
  <2>4. Place(devices, d) \div size \in Nat
    BY <1>2, <2>1, DivisionBounds
  <2>5. targets[d] = b <=> Place(devices, d) \div size = b - 1
    BY <1>4, <2>1, <2>4
  <2> QED BY <2>1, <2>2, <2>3, <2>5
<1>7. ASSUME NEW d \in devices
      PROVE  targets[d] \in 1..count
  <2> DEFINE k == Place(devices, d)
             q == k \div size
  <2>1. k \in Nat /\ k < n
    BY <1>1
  <2> HIDE DEF k
  <2>2. q \in Nat /\ size * q <= k
    BY <1>2, <2>1, DivisionBounds
  <2>3. targets[d] = q + 1
    BY <1>4 DEF k
  <2> HIDE DEF q
  <2>4. size * (q + 1) = size * q + size /\ size * q \in Nat /\ size * count \in Nat
    BY <1>2, <1>3, <2>2
  <2>5. size * (q + 1) < size * count + size
    BY <1>1, <1>2, <1>3, <2>1, <2>2, <2>4
  <2>6. q + 1 <= count
    BY <1>2, <1>3, <2>2, <2>5, Cancelled
  <2> QED BY <1>3, <2>2, <2>3, <2>6
\* Where batch b begins.
<1>8. ASSUME NEW b \in 1..count
      PROVE  /\ size * (b - 1) \in Nat /\ size * (b - 1) < n
             /\ size * b = size * (b - 1) + size
             /\ b < count => size * b < n
  <2>1. b \in Nat /\ b - 1 \in Nat /\ count - 1 \in Nat
    BY <1>3
  <2>2. size * b = size * (b - 1) + size /\ size * count = size * (count - 1) + size
    BY <1>2, <1>3, <2>1
  <2>3. size * (b - 1) <= size * (count - 1)
    <3>1. b - 1 <= count - 1
      BY <1>3
    <3> QED BY <1>2, <2>1, <3>1, Monotone
  <2>4. b < count => size * b <= size * (count - 1)
    <3>1. b < count => b <= count - 1
      BY <1>3
    <3> QED BY <1>2, <2>1, <3>1, Monotone
  <2>5. size * (b - 1) \in Nat /\ size * b \in Nat /\ size * (count - 1) \in Nat
    BY <1>2, <2>1
  <2> QED BY <1>1, <1>2, <1>3, <2>2, <2>3, <2>4, <2>5
<1>9. DOMAIN batch = 1..count
  <2>1. ASSUME NEW b \in 1..count
        PROVE  \E d \in devices : targets[d] = b
    <3>1. size * (b - 1) \in 0..n - 1 /\ size * (b - 1) \in size * (b - 1)..size * b - 1
      BY <1>1, <1>2, <1>8
    <3>2. PICK d \in devices : Place(devices, d) = size * (b - 1)
      BY <1>1, <3>1
    <3> QED BY <1>6, <3>1, <3>2
  <2> QED BY <1>5, <1>7, <2>1
<1>10. ASSUME NEW b \in 1..count
       PROVE  Cardinality(batch[b]) = IF b < count THEN size ELSE n - size * (count - 1)
  <2> DEFINE l == size * (b - 1)
             m == IF b < count THEN size * b ELSE n
  <2>1. b \in Nat /\ count \in Nat /\ b <= count /\ (b < count \/ b = count)
    BY <1>3
  <2>2. l \in Nat /\ m \in Nat /\ l <= m /\ m <= n
    BY <1>1, <1>2, <1>8, <2>1
  <2>3. ASSUME NEW d \in devices
        PROVE  targets[d] = b <=> Place(devices, d) \in l..m - 1
    <3>1. targets[d] = b <=> Place(devices, d) \in l..size * b - 1
      BY <1>6
    <3>2. CASE b < count
      BY <3>1, <3>2
    <3>3. CASE b = count
      <4>1. size * b \in Nat /\ n <= size * b
        BY <1>2, <1>3, <2>1, <3>3
      <4>2. Place(devices, d) \in Nat /\ Place(devices, d) < n
        BY <1>1
      <4>3. m = n
        BY <3>3, <2>1
      <4> HIDE DEF l, m
      <4> QED BY <1>1, <2>2, <3>1, <4>1, <4>2, <4>3
    <3> QED BY <2>1, <3>2, <3>3
  <2>4. batch[b] = {d \in devices : Place(devices, d) \in l..m - 1}
    <3>1. batch[b] = {d \in devices : targets[d] = b}
      BY <1>5, <1>9
    <3> HIDE DEF l, m
    <3> QED BY <2>3, <3>1
  <2>5. b < count => size * b - l = size
    BY <1>2, <1>8
  <2>6. b = count => l = size * (count - 1)
    OBVIOUS
  <2>7. Cardinality(batch[b]) = m - l
    <3> HIDE DEF l, m
    <3> QED BY <2>2, <2>4, Placed DEF n
  <2> HIDE DEF l
  <2> QED BY <2>1, <2>5, <2>6, <2>7
<1> QED BY <1>9, <1>10 DEF n, count, targets, batch

\* CreateRollout and the planner agree on a size, unless both a size and a
\* percentage are given.
LEMMA SizesAlike ==
    ASSUME NEW n \in Nat, NEW c, c.size \in Nat, c.percent \in 0..100,
           ~(c.size > 0 /\ c.percent > 0)
    PROVE  LET size == B!ServiceBatchSize(n, c)
           IN  /\ size = B!CalculateBatchSize(n, c.size, c.percent)
               /\ IF n = 0 THEN size = 0 ELSE size \in 1..n
<1> DEFINE s == c.size
           p == c.percent
           share == B!CeilDiv(n * p, 100)
<1>1. s \in Nat /\ p \in Nat /\ p <= 100 /\ (s = 0 \/ p = 0)
  OBVIOUS
<1>2. /\ B!ServiceBatchSize(n, c) = LET size == IF p > 0 THEN share ELSE s
                                    IN  IF size <= 0 \/ size > n THEN n ELSE size
      /\ B!CalculateBatchSize(n, s, p) =
            CASE n <= 0 -> 0
              [] n > 0 /\ s > 0 -> IF s > n THEN n ELSE s
              [] n > 0 /\ s <= 0 /\ p > 0 -> share
              [] OTHER -> n
  BY DEF B!ServiceBatchSize, B!CalculateBatchSize
<1> HIDE DEF s, p
<1>3. n = 0 => share = 0
  <2> SUFFICES ASSUME n = 0
               PROVE  share = 0
    OBVIOUS
  <2>1. n * p = 0
    BY <1>1
  <2>2. B!CeilDiv(0, 100) = 0
    BY DEF B!CeilDiv
  <2> QED BY <2>1, <2>2
<1>4. n # 0 /\ p > 0 => share \in 1..n
  <2> SUFFICES ASSUME n # 0, p > 0
               PROVE  share \in 1..n
    OBVIOUS
  <2>1. n \in Nat \ {0} /\ p \in 1..100
    BY <1>1
  <2> QED BY <2>1, ShareBounds
<1> HIDE DEF share
<1>5. CASE n = 0
  BY <1>1, <1>2, <1>3, <1>5 DEF s, p
<1>6. CASE n # 0
  <2>1. CASE p > 0
    BY <1>1, <1>2, <1>4, <1>6, <2>1 DEF s, p
  <2>2. CASE p = 0
    BY <1>1, <1>2, <1>6, <2>2 DEF s, p
  <2> QED BY <1>1, <2>1, <2>2
<1> QED BY <1>5, <1>6

\* For any devices, sizes and percentages: a command that ValidateRolloutCommand
\* accepts is sized alike by CreateRollout and the planner, and CreateRollout's
\* batches are as many as BatchCount says and of that size, but for the last, which
\* has the rest (SizesAgree of BatchPlanning).
THEOREM SizesHold ==
    ASSUME NEW x, x.devices \subseteq Int, IsFiniteSet(x.devices),
           x.command.size \in Int, x.command.percent \in Int
    PROVE  B!SizesAgree(x)
<1> DEFINE c == x.command
           n == Cardinality(x.devices)
           size == B!ServiceBatchSize(n, c)
<1> SUFFICES ASSUME B!ValidateRolloutCommand(c, x.now)
             PROVE  LET batch == B!GroupTargetsByBatch(B!Targets(x.devices, size))
                    IN  /\ B!Creatable(c)
                        /\ size = B!CalculateBatchSize(n, c.size, c.percent)
                        /\ DOMAIN batch = 1..B!BatchCount(n, size)
                        /\ \A b \in DOMAIN batch :
                              Cardinality(batch[b]) =
                                 IF b < B!BatchCount(n, size) THEN size
                                 ELSE n - size * (B!BatchCount(n, size) - 1)
  BY Counting DEF B!SizesAgree
<1>1. /\ c.strategy \in {"", "immediate", "scheduled", "percentage"}
      /\ c.strategy = "scheduled" => c.scheduled # 0
      /\ c.size >= 0 /\ c.percent \in 0..100
      /\ ~(c.size > 0 /\ c.percent > 0)
  BY Zenon DEF B!ValidateRolloutCommand
<1>2. n \in Nat /\ (n = 0 <=> x.devices = {})
  BY FS_CardinalityType, FS_EmptySet
<1>3. B!Creatable(c)
  BY <1>1 DEF B!Creatable
<1>4. /\ size = B!CalculateBatchSize(n, c.size, c.percent)
      /\ IF n = 0 THEN size = 0 ELSE size \in 1..n
  <2>1. c.size \in Nat /\ c.percent \in 0..100 /\ ~(c.size > 0 /\ c.percent > 0)
    <3>1. c.size \in Int /\ c.size >= 0 /\ c.percent \in 0..100 /\ ~(c.size > 0 /\ c.percent > 0)
      BY <1>1, Zenon
    <3>2. \A k \in Int : k >= 0 => k \in Nat
      OBVIOUS
    <3> QED BY <3>1, <3>2, Zenon
  <2> HIDE DEF c, n
  <2> QED BY <1>2, <2>1, SizesAlike
<1> HIDE DEF size, c
<1>5. CASE n = 0
  <2>1. B!BatchCount(n, size) = 0
    BY <1>5 DEF B!BatchCount
  <2>2. DOMAIN B!GroupTargetsByBatch(B!Targets(x.devices, size)) = {}
    BY <1>2, <1>5 DEF B!GroupTargetsByBatch, B!Targets, B!Range
  <2> QED BY <1>3, <1>4, <2>1, <2>2
<1>6. CASE n # 0
  <2>1. size \in 1..n
    BY <1>4, <1>6
  <2>2. /\ DOMAIN B!GroupTargetsByBatch(B!Targets(x.devices, size)) = 1..B!BatchCount(n, size)
        /\ \A b \in 1..B!BatchCount(n, size) :
              Cardinality(B!GroupTargetsByBatch(B!Targets(x.devices, size))[b]) =
                 IF b < B!BatchCount(n, size) THEN size
                 ELSE n - size * (B!BatchCount(n, size) - 1)
    BY <1>2, <1>6, <2>1, BatchesCut
  <2> QED BY <1>3, <1>4, <2>2
<1> QED BY <1>5, <1>6

-----------------------------------------------------------------------------
(* Progress.                                                               *)

TargetStatus == {"pending", "ready", "delivered", "succeeded", "failed", "timed_out",
                 "rollback_pending", "rolled_back"}

LEMMA CountIs ==
    ASSUME NEW statuses \in Seq(TargetStatus)
    PROVE  /\ B!Count(statuses, TargetStatus) = Len(statuses)
           /\ \A S : B!Count(statuses, S) \in Nat
<1>1. DOMAIN statuses = 1..Len(statuses) /\ Len(statuses) \in Nat
  OBVIOUS
<1>2. IsFiniteSet(1..Len(statuses)) /\ Cardinality(1..Len(statuses)) = Len(statuses)
  <2>1. /\ IsFiniteSet(1..Len(statuses))
        /\ Cardinality(1..Len(statuses)) = IF 1 > Len(statuses) THEN 0 ELSE Len(statuses) - 1 + 1
    BY <1>1, FS_Interval
  <2> QED BY <1>1, <2>1
<1>3. ASSUME NEW S
      PROVE  B!Count(statuses, S) \in Nat
  <2>1. {i \in DOMAIN statuses : statuses[i] \in S} \in SUBSET (1..Len(statuses))
    BY <1>1
  <2>2. Cardinality({i \in DOMAIN statuses : statuses[i] \in S}) \in Nat
    BY <1>2, <2>1, FS_Subset, FS_CardinalityType
  <2> QED BY <2>2, Counting DEF B!Count
<1>4. {i \in DOMAIN statuses : statuses[i] \in TargetStatus} = 1..Len(statuses)
  BY <1>1
<1> QED BY <1>2, <1>3, <1>4, Counting DEF B!Count

\* Targets of one of two sorts are as many as those of each together.
LEMMA CountTogether ==
    ASSUME NEW statuses \in Seq(TargetStatus), NEW S, NEW T, S \cap T = {}
    PROVE  B!Count(statuses, S \cup T) = B!Count(statuses, S) + B!Count(statuses, T)
<1> DEFINE among(U) == {i \in DOMAIN statuses : statuses[i] \in U}
<1>1. IsFiniteSet(DOMAIN statuses)
  <2>1. DOMAIN statuses = 1..Len(statuses) /\ Len(statuses) \in Nat
    OBVIOUS
  <2> QED BY <2>1, FS_Interval
<1>2. \A U : among(U) \in SUBSET DOMAIN statuses
  OBVIOUS
<1>3. IsFiniteSet(among(S)) /\ IsFiniteSet(among(T))
  BY <1>1, <1>2, FS_Subset
<1>4. among(S \cup T) = among(S) \cup among(T) /\ among(S) \cap among(T) = {}
  OBVIOUS
<1>5. Cardinality(among(S) \cup among(T))
         = Cardinality(among(S)) + Cardinality(among(T)) - Cardinality(among(S) \cap among(T))
  BY <1>3, FS_Union
<1>6. Cardinality(among(S) \cap among(T)) = 0
  BY <1>4, FS_EmptySet
<1>7. Cardinality(among(S)) \in Nat /\ Cardinality(among(T)) \in Nat
  BY <1>3, FS_CardinalityType
<1>8. \A U : B!Count(statuses, U) = Cardinality(among(U))
  BY Counting DEF B!Count
<1>9. /\ B!Count(statuses, S) = Cardinality(among(S))
      /\ B!Count(statuses, T) = Cardinality(among(T))
      /\ B!Count(statuses, S \cup T) = Cardinality(among(S) \cup among(T))
  <2>1. B!Count(statuses, S \cup T) = Cardinality(among(S \cup T))
    BY <1>8
  <2> QED BY <1>4, <1>8, <2>1
<1> QED BY <1>5, <1>6, <1>7, <1>9

\* A rate is whole just when the part is, if the whole is not too large.
LEMMA RateWhole ==
    ASSUME NEW part \in Nat, NEW whole \in Nat, part <= whole, whole < 20000
    PROVE  B!Rate(part, whole) = 10000 <=> whole > 0 /\ part = whole
<1>1. CASE whole = 0
  BY <1>1 DEF B!Rate
<1>2. CASE whole # 0
  <2>1. 2 * part * 10000 + whole \in Nat /\ 2 * whole \in Nat \ {0}
    BY <1>2
  <2>2. (2 * part * 10000 + whole) \div (2 * whole) = 10000
           <=> ((2 * whole) * 10000 <= 2 * part * 10000 + whole
                /\ 2 * part * 10000 + whole < (2 * whole) * 10000 + 2 * whole)
    BY <2>1, DivisionIs
  <2>3. B!Rate(part, whole) = (2 * part * 10000 + whole) \div (2 * whole)
    BY <1>2 DEF B!Rate
  <2>4. ((2 * whole) * 10000 <= 2 * part * 10000 + whole
         /\ 2 * part * 10000 + whole < (2 * whole) * 10000 + 2 * whole)
           <=> part = whole
    BY <1>2
  <2> QED BY <1>2, <2>2, <2>3, <2>4
<1> QED BY <1>1, <1>2

\* Of any fewer than 20000 targets: each is counted once, and the rates are whole
\* just when they should be (ProgressHolds of BatchPlanning).
THEOREM ProgressCounted ==
    ASSUME NEW x, x.statuses \in Seq(TargetStatus), Len(x.statuses) < 20000
    PROVE  B!ProgressHolds(x)
<1> DEFINE statuses == x.statuses
           count(S) == B!Count(statuses, S)
           total == Len(statuses)
           p == B!BuildProgress(statuses)
           ended == p.succeeded + p.failed + p.timedOut
<1>1. /\ p.total = total
      /\ p.pending = count({"pending", "rollback_pending"})
      /\ p.ready = count({"ready"}) /\ p.delivered = count({"delivered"})
      /\ p.succeeded = count({"succeeded", "rolled_back"})
      /\ p.failed = count({"failed"}) /\ p.timedOut = count({"timed_out"})
      /\ p.percentage = B!Rate(ended, total)
      /\ p.failureRate = B!Rate(p.failed + p.timedOut, ended)
  BY DEF B!BuildProgress
<1>2. statuses \in Seq(TargetStatus) /\ total \in Nat /\ total < 20000
  OBVIOUS
<1> HIDE DEF statuses, total, p
<1>3. total = p.pending + p.ready + p.delivered + p.succeeded + p.failed + p.timedOut
  <2> DEFINE A == {"pending", "rollback_pending"}
             D == A \cup {"ready"}
             F == D \cup {"delivered"}
             G == F \cup {"succeeded", "rolled_back"}
             H == G \cup {"failed"}
             J == H \cup {"timed_out"}
  <2>1. count(D) = count(A) + count({"ready"})
    BY <1>2, CountTogether
  <2>2. count(F) = count(D) + count({"delivered"})
    BY <1>2, CountTogether
  <2>3. count(G) = count(F) + count({"succeeded", "rolled_back"})
    BY <1>2, CountTogether
  <2>4. count(H) = count(G) + count({"failed"})
    BY <1>2, CountTogether
  <2>5. count(J) = count(H) + count({"timed_out"})
    BY <1>2, CountTogether
  <2>6. J = TargetStatus
    BY DEF TargetStatus
  <2>7. count(J) = total
    <3>1. count(TargetStatus) = total
      BY <1>2, CountIs DEF total
    <3> HIDE DEF J, count
    <3> QED BY <2>6, <3>1
  <2> HIDE DEF count, D, F, G, H, J
  <2> QED BY <1>1, <2>1, <2>2, <2>3, <2>4, <2>5, <2>7
<1>4. /\ p.pending \in Nat /\ p.ready \in Nat /\ p.delivered \in Nat
      /\ p.succeeded \in Nat /\ p.failed \in Nat /\ p.timedOut \in Nat
  BY <1>1, <1>2, CountIs
<1>5. /\ ended \in Nat /\ ended <= total /\ ended < 20000
      /\ p.failed + p.timedOut \in Nat /\ p.failed + p.timedOut <= ended
  <2>1. total \in Nat /\ total < 20000
    BY <1>2
  <2> DEFINE lost == p.failed + p.timedOut
             left == p.pending + p.ready + p.delivered
  <2>2. lost \in Nat /\ left \in Nat
    BY <1>4
  <2>3. ended \in Nat /\ ended = p.succeeded + lost
    BY <1>4
  <2>4. total = left + ended
    BY <1>3, <1>4
  <2>5. p.succeeded \in Nat
    BY <1>4
  <2> HIDE DEF ended, lost, left
  <2>6. ended <= total /\ ended < 20000
    BY <2>1, <2>2, <2>3, <2>4
  <2>7. lost <= ended
    BY <2>2, <2>3, <2>5
  <2> QED BY <2>2, <2>3, <2>6, <2>7 DEF lost
<1>6. p.percentage = 10000 <=> total > 0 /\ ended = total
  BY <1>1, <1>2, <1>5, RateWhole
<1>7. p.failureRate = 10000 <=> ended > 0 /\ p.failed + p.timedOut = ended
  BY <1>1, <1>5, RateWhole
<1>8. /\ p.total = p.pending + p.ready + p.delivered + p.succeeded + p.failed + p.timedOut
      /\ p.total > 0 => (p.percentage = 10000 <=> p.pending + p.ready + p.delivered = 0)
      /\ p.failureRate = 10000 <=> p.succeeded = 0 /\ p.failed + p.timedOut > 0
  <2> DEFINE lost == p.failed + p.timedOut
             left == p.pending + p.ready + p.delivered
  <2>1. /\ lost \in Nat /\ left \in Nat /\ p.succeeded \in Nat
        /\ ended = p.succeeded + lost /\ total = left + ended
    <3>1. lost \in Nat /\ left \in Nat /\ p.succeeded \in Nat
      BY <1>4
    <3>2. ended = p.succeeded + lost
      BY <1>4
    <3>3. total = left + ended
      BY <1>3, <1>4
    <3> HIDE DEF ended, lost, left
    <3> QED BY <3>1, <3>2, <3>3
  <2>2. p.total = total /\ total \in Nat
    BY <1>1, <1>2
  <2>3. p.total = p.pending + p.ready + p.delivered + p.succeeded + p.failed + p.timedOut
    BY <1>3, <2>2
  <2> HIDE DEF ended, lost, left
  <2>4. p.total > 0 => (p.percentage = 10000 <=> left = 0)
    BY <1>5, <1>6, <2>1, <2>2
  <2>5. p.failureRate = 10000 <=> p.succeeded = 0 /\ lost > 0
    <3>1. ended \in Nat
      BY <1>5
    <3>2. p.failureRate = 10000 <=> ended > 0 /\ lost = ended
      BY <1>7 DEF lost
    <3> QED BY <2>1, <3>1, <3>2
  <2> QED BY <2>3, <2>4, <2>5 DEF lost, left
<1> QED BY <1>8 DEF B!ProgressHolds, p, statuses

-----------------------------------------------------------------------------
(* Stored times.                                                           *)

LEMMA Greatest ==
    ASSUME NEW n \in Nat, NEW T, T \subseteq 1..n, T # {}
    PROVE  \E i \in T : \A j \in T : j <= i
<1> DEFINE S == {k \in Nat : n - k \in T}
<1>1. PICK i \in T : TRUE
  OBVIOUS
<1>2. n - i \in S
  BY <1>1
<1>3. PICK k \in S : \A j \in S : k <= j
  BY <1>2, Least
<1>4. \A j \in T : n - j \in S
  OBVIOUS
<1>5. ASSUME NEW j \in T
      PROVE  j <= n - k
  <2>1. k <= n - j /\ k \in Nat /\ j \in 1..n
    BY <1>3, <1>4
  <2> QED BY <2>1
<1> QED BY <1>3, <1>5

\* A time with its fraction to n places.
Time(n) == [second : Nat, fraction : [1..n -> 0..9]]

\* The last place of the fraction that is not 0, or 0.
LastDigit(t, n, d) ==
    /\ d \in 0..n /\ (d > 0 => t.fraction[d] # 0)
    /\ \A k \in 1..n : k > d => t.fraction[k] = 0

LEMMA LastDigitIs ==
    ASSUME NEW n \in Nat, NEW t \in Time(n)
    PROVE  LastDigit(t, n, E!SelectLastInSeq(t.fraction, LAMBDA d : d # 0))
<1> DEFINE I == {i \in 1..n : t.fraction[i] # 0}
           last == E!SelectLastInSeq(t.fraction, LAMBDA d : d # 0)
<1>1. t.fraction \in Seq(0..9) /\ Len(t.fraction) = n
  BY DEF Time
<1>2. last = IF I # {} THEN CHOOSE i \in I : \A j \in I : i >= j ELSE 0
  BY <1>1 DEF E!SelectLastInSeq, E!Max
<1>3. I # {} => \E i \in I : \A j \in I : j <= i
  BY Greatest
<1> HIDE DEF last
<1>4. ASSUME I = {}
      PROVE  LastDigit(t, n, last)
  BY <1>2, <1>4 DEF LastDigit
<1>5. ASSUME I # {}
      PROVE  LastDigit(t, n, last)
  <2>1. last \in I /\ \A j \in I : last >= j
    <3>1. PICK i \in I : \A j \in I : i >= j
      BY <1>3, <1>5
    <3> HIDE DEF I
    <3> QED BY <1>2, <1>5, <3>1
  <2>2. last \in 1..n /\ t.fraction[last] # 0
    BY <2>1
  <2>3. \A k \in 1..n : k > last => t.fraction[k] = 0
    BY <2>1, <2>2
  <2> QED BY <2>2, <2>3 DEF LastDigit
<1> QED BY <1>4, <1>5, Zenon DEF last

LEMMA Joined ==
    ASSUME NEW a \in Seq(Int), NEW b \in Seq(Int)
    PROVE  /\ a \o b \in Seq(Int) /\ Len(a \o b) = Len(a) + Len(b)
           /\ \A k \in 1..Len(a) : (a \o b)[k] = a[k]
           /\ \A k \in 1..Len(b) : (a \o b)[k + Len(a)] = b[k]
<1> DEFINE c == a \o b
<1>1. Len(a) \in Nat /\ Len(b) \in Nat
  OBVIOUS
<1>2. /\ c \in Seq(Int) /\ Len(c) = Len(a) + Len(b)
      /\ \A k \in 1..Len(a) + Len(b) : c[k] = IF k <= Len(a) THEN a[k] ELSE b[k - Len(a)]
  BY ConcatProperties
<1> HIDE DEF c
<1>3. ASSUME NEW k \in 1..Len(a)
      PROVE  c[k] = a[k]
  BY <1>1, <1>2
<1>4. ASSUME NEW k \in 1..Len(b)
      PROVE  c[k + Len(a)] = b[k]
  <2>1. k + Len(a) \in 1..Len(a) + Len(b) /\ ~(k + Len(a) <= Len(a)) /\ (k + Len(a)) - Len(a) = k
    BY <1>1
  <2>2. c[k + Len(a)] = b[(k + Len(a)) - Len(a)]
    BY <1>2, <2>1, Zenon
  <2> QED BY <2>1, <2>2, Zenon
<1> QED BY <1>2, <1>3, <1>4, Zenon DEF c

\* The text of a time whose fraction ends at d.
TextOf(t, d, text) ==
    /\ text \in Seq(Int)
    /\ d = 0 => Len(text) = 2
    /\ d > 0 => Len(text) = d + 3
    /\ text[1] = t.second
    /\ d > 0 => text[2] = -1
    /\ \A k \in 1..d : text[k + 2] = t.fraction[k]
    /\ text[Len(text)] = 10

LEMMA TextIs ==
    ASSUME NEW n \in Nat, NEW t \in Time(n)
    PROVE  \E d : LastDigit(t, n, d) /\ TextOf(t, d, E!ts(t))
<1> DEFINE d == E!SelectLastInSeq(t.fraction, LAMBDA e : e # 0)
<1>1. LastDigit(t, n, d)
  BY LastDigitIs
<1>2. E!ts(t) = IF d = 0 THEN <<t.second, 10>> ELSE <<t.second, -1>> \o SubSeq(t.fraction, 1, d) \o <<10>>
  BY DEF E!ts, E!Point, E!Zulu
<1>3. t.fraction \in Seq(Int) /\ Len(t.fraction) = n /\ t.second \in Int
  BY DEF Time
<1> HIDE DEF d
<1>4. CASE d = 0
  <2> DEFINE text == <<t.second, 10>>
  <2>1. E!ts(t) = text
    BY <1>2, <1>4
  <2>2. text \in Seq(Int) /\ Len(text) = 2 /\ text[1] = t.second /\ text[2] = 10
    BY <1>3
  <2>3. ~(d > 0) /\ ~(\E k \in 1..d : TRUE)
    BY <1>4
  <2> HIDE DEF text
  <2>4. TextOf(t, d, text)
    BY <1>4, <2>2, <2>3, Zenon DEF TextOf
  <2> QED BY <1>1, <2>1, <2>4
<1>5. CASE d > 0
  <2> DEFINE f == SubSeq(t.fraction, 1, d)
             h == <<t.second, -1>>
  <2>1. d \in 1..n /\ E!ts(t) = h \o f \o <<10>>
    <3>1. d \in 1..n /\ d # 0
      BY <1>1, <1>5 DEF LastDigit
    <3> QED BY <1>2, <3>1, Zenon
  <2>2. f \in Seq(Int) /\ Len(f) = d /\ \A k \in 1..d : f[k] = t.fraction[k]
    <3>1. d \in Int /\ \A k \in 1..d : t.fraction[k] \in Int
      BY <1>3, <2>1
    <3>2. /\ f \in Seq(Int) /\ Len(f) = IF 1 <= d THEN d - 1 + 1 ELSE 0
          /\ \A k \in 1..d - 1 + 1 : f[k] = t.fraction[1 + k - 1]
      BY <3>1, SubSeqProperties
    <3> HIDE DEF f
    <3> QED BY <2>1, <3>1, <3>2
  <2>3. h \in Seq(Int) /\ Len(h) = 2 /\ h[1] = t.second /\ h[2] = -1
    BY <1>3
  <2> HIDE DEF f, h
  <2> DEFINE g == h \o f
             whole == g \o <<10>>
  <2>4. /\ g \in Seq(Int) /\ Len(g) = d + 2 /\ g[1] = t.second /\ g[2] = -1
        /\ \A k \in 1..d : g[k + 2] = t.fraction[k]
    <3>1. /\ g \in Seq(Int) /\ Len(g) = Len(h) + Len(f)
          /\ \A k \in 1..Len(h) : g[k] = h[k]
          /\ \A k \in 1..Len(f) : g[k + Len(h)] = f[k]
      BY <2>2, <2>3, Joined
    <3> HIDE DEF g
    <3>2. 1 \in 1..Len(h) /\ 2 \in 1..Len(h) /\ Len(h) + Len(f) = d + 2
      BY <2>1, <2>2, <2>3
    <3>3. \A k \in 1..d : g[k + 2] = t.fraction[k]
      BY <2>2, <2>3, <3>1
    <3> QED BY <2>3, <3>1, <3>2, <3>3, Zenon
  <2> HIDE DEF g
  <2>5. /\ whole \in Seq(Int) /\ Len(whole) = d + 3 /\ whole[d + 3] = 10
        /\ \A k \in 1..d + 2 : whole[k] = g[k]
    <3>1. <<10>> \in Seq(Int) /\ Len(<<10>>) = 1 /\ <<10>>[1] = 10
      OBVIOUS
    <3>2. /\ whole \in Seq(Int) /\ Len(whole) = Len(g) + Len(<<10>>)
          /\ \A k \in 1..Len(g) : whole[k] = g[k]
          /\ \A k \in 1..Len(<<10>>) : whole[k + Len(g)] = <<10>>[k]
      BY <2>4, <3>1, Joined
    <3> HIDE DEF whole
    <3>3. whole[1 + Len(g)] = 10
      <4>1. 1 \in 1..Len(<<10>>)
        BY <3>1
      <4> QED BY <3>1, <3>2, <4>1, Zenon
    <3>4. 1 + Len(g) = d + 3 /\ Len(g) + Len(<<10>>) = d + 3
      BY <2>1, <2>4, <3>1
    <3> QED BY <2>4, <3>2, <3>3, <3>4, Zenon
  <2> HIDE DEF whole
  <2>6. E!ts(t) = whole
    BY <2>1 DEF whole, g
  <2>7. whole[1] = t.second /\ whole[2] = -1
    <3>1. 1 \in 1..d + 2 /\ 2 \in 1..d + 2
      BY <2>1
    <3> QED BY <2>4, <2>5, <3>1, Zenon
  <2>8. ASSUME NEW k \in 1..d
        PROVE  whole[k + 2] = t.fraction[k]
    <3>1. k + 2 \in 1..d + 2
      BY <2>1
    <3> QED BY <2>4, <2>5, <3>1
  <2> QED BY <1>1, <1>5, <2>5, <2>6, <2>7, <2>8 DEF TextOf
<1> QED BY <1>1, <1>4, <1>5 DEF LastDigit

LEMMA AtLeastTwo ==
    ASSUME NEW k, NEW d \in Nat, d = 0 => k = 2, d > 0 => k = d + 3
    PROVE  k >= 2
  OBVIOUS

LEMMA TextFacts ==
    ASSUME NEW n \in Nat, NEW t, NEW d, LastDigit(t, n, d), NEW text, TextOf(t, d, text)
    PROVE  /\ d \in 0..n /\ d \in Nat
           /\ d = 0 => Len(text) = 2
           /\ d > 0 => Len(text) = d + 3 /\ text[2] = -1
           /\ Len(text) \in Nat /\ Len(text) >= 2
           /\ DOMAIN text = 1..Len(text) /\ \A k \in 1..Len(text) : text[k] \in Int
           /\ text[1] = t.second /\ text[Len(text)] = 10
           /\ \A k \in 1..d : text[k + 2] = t.fraction[k]
<1>1. d \in 0..n /\ d \in Nat
  BY DEF LastDigit
<1>2. /\ text \in Seq(Int)
      /\ d = 0 => Len(text) = 2
      /\ d > 0 => Len(text) = d + 3 /\ text[2] = -1
      /\ text[1] = t.second /\ text[Len(text)] = 10
      /\ \A k \in 1..d : text[k + 2] = t.fraction[k]
  BY Zenon DEF TextOf
<1>3. Len(text) \in Nat /\ DOMAIN text = 1..Len(text) /\ \A k \in 1..Len(text) : text[k] \in Int
  <2>1. text \in Seq(Int)
    BY <1>2
  <2> QED BY <2>1, LenProperties
<1>4. Len(text) >= 2
  BY <1>1, <1>2, AtLeastTwo, Zenon
<1> QED BY <1>1, <1>2, <1>3, <1>4, Zenon

\* A text ends where its first Z is.
LEMMA EndIs ==
    ASSUME NEW n \in Nat, NEW t \in Time(n), NEW d, LastDigit(t, n, d),
           NEW text, TextOf(t, d, text), NEW i \in 2..Len(text), text[i] = 10
    PROVE  i = Len(text)
<1>1. d \in 0..n /\ \A k \in 1..d : t.fraction[k] \in 0..9
  BY DEF LastDigit, Time
<1>2. /\ Len(text) \in Nat /\ d \in Nat
      /\ d = 0 => Len(text) = 2
      /\ d > 0 => Len(text) = d + 3 /\ text[2] = -1
      /\ \A k \in 1..d : text[k + 2] = t.fraction[k]
  BY TextFacts
<1>3. CASE d = 0
  <2>1. Len(text) = 2
    BY <1>2, <1>3
  <2> QED BY <2>1
<1>4. CASE d > 0
  <2>1. Len(text) = d + 3 /\ text[2] = -1
    BY <1>2, <1>4
  <2>2. i # 2
    BY <2>1
  <2>3. ASSUME NEW k \in 1..d, i = k + 2
        PROVE  FALSE
    <3>1. t.fraction[k] = 10
      BY <1>2, <2>3, Zenon
    <3>2. 10 \in 0..9
      BY <1>1, <3>1, Zenon
    <3> QED BY <3>2
  <2>4. i \in 3..d + 2 => \E k \in 1..d : i = k + 2
    <3>1. i \in 3..d + 2 => i - 2 \in 1..d /\ i = (i - 2) + 2
      BY <1>2
    <3> QED BY <3>1
  <2> QED BY <1>2, <2>1, <2>2, <2>3, <2>4
<1> QED BY <1>2, <1>3, <1>4

\* Texts of one length have fractions that end at one place.
LEMMA SamePlace ==
    ASSUME NEW k \in Nat, NEW l \in Nat, NEW d \in Nat, NEW e \in Nat, k = l,
           d = 0 => k = 2, d > 0 => k = d + 3, e = 0 => l = 2, e > 0 => l = e + 3
    PROVE  e = d
  OBVIOUS

LEMMA SameEnd ==
    ASSUME NEW n \in Nat, NEW s, NEW t, NEW d, LastDigit(s, n, d), NEW a, TextOf(s, d, a),
           NEW e, LastDigit(t, n, e), NEW b, TextOf(t, e, b)
    PROVE  d \in 0..n /\ (Len(a) = Len(b) => e = d)
<1>1. /\ Len(a) \in Nat /\ d \in 0..n /\ d \in Nat
      /\ d = 0 => Len(a) = 2
      /\ d > 0 => Len(a) = d + 3
  BY TextFacts
<1>2. /\ Len(b) \in Nat /\ e \in 0..n /\ e \in Nat
      /\ e = 0 => Len(b) = 2
      /\ e > 0 => Len(b) = e + 3
  BY TextFacts
<1> QED BY <1>1, <1>2, SamePlace, Zenon

LEMMA SameText ==
    ASSUME NEW n \in Nat, NEW s \in Time(n), NEW t \in Time(n),
           NEW d, LastDigit(s, n, d), NEW a, TextOf(s, d, a),
           NEW e, LastDigit(t, n, e), NEW b, TextOf(t, e, b),
           Len(a) = Len(b), \A k \in 1..Len(a) : a[k] = b[k]
    PROVE  s = t
<1>1. d \in 0..n /\ e \in 0..n /\ d = e /\ s.second = t.second
  <2>1. d \in 0..n /\ e = d
    BY SameEnd
  <2>2. 1 \in 1..Len(a) /\ a[1] = s.second /\ b[1] = t.second
    BY TextFacts
  <2> QED BY <2>1, <2>2
<1>2. ASSUME NEW k \in 1..n
      PROVE  s.fraction[k] = t.fraction[k]
  <2>1. CASE k > d
    BY <1>1, <2>1 DEF LastDigit
  <2>2. CASE k <= d
    <3>1. d > 0 /\ k \in 1..d
      BY <1>1, <2>2
    <3>2. a[k + 2] = s.fraction[k] /\ b[k + 2] = t.fraction[k] /\ Len(a) = d + 3
      <4>1. (d > 0 => Len(a) = d + 3) /\ \A i \in 1..d : a[i + 2] = s.fraction[i]
        BY TextFacts
      <4>2. \A i \in 1..e : b[i + 2] = t.fraction[i]
        BY TextFacts
      <4>3. e = d
        BY <1>1
      <4> QED BY <3>1, <4>1, <4>2, <4>3, Zenon
    <3>3. k + 2 \in 1..Len(a)
      BY <1>1, <3>1, <3>2
    <3> QED BY <3>2, <3>3
  <2> QED BY <1>1, <2>1, <2>2
<1>3. s.fraction = t.fraction
  BY <1>2 DEF Time
<1> QED BY <1>1, <1>3 DEF Time

\* One of two texts comes before the other, or their times are the same.
LEMMA TextsApart ==
    ASSUME NEW n \in Nat, NEW s \in Time(n), NEW t \in Time(n),
           NEW d, LastDigit(s, n, d), NEW a, TextOf(s, d, a),
           NEW e, LastDigit(t, n, e), NEW b, TextOf(t, e, b)
    PROVE  E!TextBefore(a, b) \/ E!TextBefore(b, a) \/ s = t
<1> DEFINE D == {k \in Nat \ {0} : k <= Len(a) /\ k <= Len(b) /\ a[k] # b[k]}
<1>1. /\ Len(a) \in Nat /\ DOMAIN a = 1..Len(a) /\ Len(a) >= 2 /\ a[Len(a)] = 10
      /\ Len(b) \in Nat /\ DOMAIN b = 1..Len(b) /\ Len(b) >= 2 /\ b[Len(b)] = 10
      /\ \A k \in 1..Len(a) : a[k] \in Int
      /\ \A k \in 1..Len(b) : b[k] \in Int
  BY TextFacts
<1>2. CASE D # {}
  <2>1. PICK k \in D : \A j \in D : k <= j
    BY <1>2, Least
  <2>2. k \in DOMAIN a /\ k \in DOMAIN b /\ k \in Nat /\ a[k] # b[k] /\ a[k] \in Int /\ b[k] \in Int
    <3>1. k \in Nat \ {0} /\ k <= Len(a) /\ k <= Len(b) /\ a[k] # b[k]
      OBVIOUS
    <3>2. k \in 1..Len(a) /\ k \in 1..Len(b)
      BY <1>1, <3>1
    <3> QED BY <1>1, <3>1, <3>2
  <2>3. ASSUME NEW j \in 1..k - 1
        PROVE  a[j] = b[j]
    <3>1. j \in Nat \ {0} /\ j <= Len(a) /\ j <= Len(b) /\ ~(k <= j)
      <4>1. k \in Nat /\ k <= Len(a) /\ k <= Len(b)
        BY <2>2
      <4>2. Len(a) \in Nat /\ Len(b) \in Nat
        BY <1>1
      <4> QED BY <4>1, <4>2
    <3> QED BY <2>1, <3>1
  <2>4. a[k] < b[k] \/ b[k] < a[k]
    BY <2>2
  <2> QED BY <2>2, <2>3, <2>4 DEF E!TextBefore
<1>3. CASE D = {}
  <2>1. ASSUME NEW k \in DOMAIN a, k \in DOMAIN b
        PROVE  a[k] = b[k]
    <3>1. k \in Nat \ {0} /\ k <= Len(a) /\ k <= Len(b)
      BY <1>1, <2>1
    <3>2. k \notin D
      BY <1>3
    <3> QED BY <3>1, <3>2
  <2>2. CASE Len(a) <= Len(b)
    <3>1. Len(a) \in 2..Len(b) /\ b[Len(a)] = 10
      BY <1>1, <2>1, <2>2
    <3>2. Len(a) = Len(b)
      BY <3>1, EndIs
    <3> QED BY <1>1, <2>1, <3>2, SameText
  <2>3. CASE Len(b) <= Len(a)
    <3>1. Len(b) \in 2..Len(a) /\ a[Len(b)] = 10
      BY <1>1, <2>1, <2>3
    <3>2. Len(b) = Len(a)
      BY <3>1, EndIs
    <3> QED BY <1>1, <2>1, <3>2, SameText
  <2> QED BY <1>1, <2>2, <2>3
<1> QED BY <1>2, <1>3

\* Texts of one length, of times in one second, are in the order of their fractions.
LEMMA FractionsInOrder ==
    ASSUME NEW n \in Nat, NEW s \in Time(n), NEW t \in Time(n), s.second = t.second,
           NEW d, LastDigit(s, n, d), NEW a, TextOf(s, d, a),
           NEW e, LastDigit(t, n, e), NEW b, TextOf(t, e, b), Len(a) = Len(b),
           E!TextBefore(t.fraction, s.fraction), E!TextBefore(a, b)
    PROVE  FALSE
<1>1. d \in 0..n /\ e = d
  BY SameEnd
<1>2. /\ DOMAIN s.fraction = 1..n /\ DOMAIN t.fraction = 1..n
      /\ \A k \in 1..n : s.fraction[k] \in 0..9 /\ t.fraction[k] \in 0..9
  BY DEF Time
<1>3. PICK i \in 1..n : /\ t.fraction[i] < s.fraction[i]
                        /\ \A j \in 1..i - 1 : t.fraction[j] = s.fraction[j]
  BY <1>2 DEF E!TextBefore
<1>4. i \in 1..d
  BY <1>1, <1>2, <1>3 DEF LastDigit
<1>5. /\ Len(a) = d + 3 /\ DOMAIN a = 1..d + 3 /\ DOMAIN b = 1..d + 3
      /\ a[1] = b[1] /\ a[2] = b[2] /\ a[d + 3] = b[d + 3] /\ a[1] \in Int /\ a[2] \in Int /\ a[d + 3] \in Int
  <2>1. d > 0 /\ d \in Nat
    BY <1>1, <1>4
  <2>2. /\ Len(a) = d + 3 /\ DOMAIN a = 1..Len(a) /\ \A k \in 1..Len(a) : a[k] \in Int
        /\ a[1] = s.second /\ a[Len(a)] = 10
    BY <2>1, TextFacts
  <2>3. DOMAIN b = 1..Len(b) /\ Len(b) = Len(a) /\ b[1] = t.second /\ b[Len(b)] = 10
    BY TextFacts
  <2>4. a[2] = -1 /\ b[2] = -1
    BY <1>1, <2>1, TextFacts
  <2>5. 1 \in 1..d + 3 /\ 2 \in 1..d + 3 /\ d + 3 \in 1..d + 3
    BY <2>1
  <2> QED BY <2>2, <2>3, <2>4, <2>5
<1>6. PICK k \in 1..d + 3 : a[k] < b[k] /\ \A j \in 1..k - 1 : a[j] = b[j]
  BY <1>5 DEF E!TextBefore
<1>7. PICK p \in 1..d : k = p + 2
  <2>1. k - 2 \in 1..d /\ k = (k - 2) + 2
    BY <1>1, <1>5, <1>6
  <2> QED BY <2>1
<1>8. \A q \in 1..d : a[q + 2] = s.fraction[q] /\ b[q + 2] = t.fraction[q]
  BY <1>1, TextFacts
<1>9. s.fraction[p] < t.fraction[p]
  BY <1>6, <1>7, <1>8
<1>10. /\ i \in Nat /\ p \in Nat /\ d \in Nat
       /\ s.fraction[i] \in Nat /\ t.fraction[i] \in Nat /\ s.fraction[p] \in Nat /\ t.fraction[p] \in Nat
  <2>1. i \in Nat /\ p \in Nat /\ d \in Nat /\ p \in 1..n
    BY <1>1
  <2>2. \A z \in 0..9 : z \in Nat
    OBVIOUS
  <2> QED BY <1>2, <2>1, <2>2, Zenon
<1>11. CASE p < i
  <2>1. p \in 1..i - 1
    BY <1>10, <1>11
  <2>2. t.fraction[p] = s.fraction[p]
    BY <1>3, <2>1
  <2> QED BY <1>9, <1>10, <2>2
<1>12. CASE p = i
  <2>1. s.fraction[i] < t.fraction[i] /\ t.fraction[i] < s.fraction[i]
    BY <1>3, <1>9, <1>12
  <2> QED BY <1>10, <2>1
<1>13. CASE i < p
  <2>1. i + 2 \in 1..k - 1
    BY <1>7, <1>10, <1>13
  <2>2. a[i + 2] = b[i + 2]
    BY <1>6, <2>1
  <2>3. s.fraction[i] = t.fraction[i]
    BY <1>4, <1>8, <2>2
  <2>4. t.fraction[i] < s.fraction[i]
    BY <1>3
  <2> QED BY <1>10, <2>3, <2>4
<1> QED BY <1>10, <1>11, <1>12, <1>13

\* For fractions to any number of places: stored times are told apart, and are in
\* the order of time but within a second, where one fraction is the longer one
\* (TimesHold of EventOrder).
THEOREM TimesInOrder ==
    ASSUME NEW n \in Nat, NEW x \in [s : Time(n), t : Time(n)]
    PROVE  E!TimesHold(x)
<1> DEFINE s == x.s
           t == x.t
<1>1. s \in Time(n) /\ t \in Time(n)
  OBVIOUS
<1> HIDE DEF s, t
<1> DEFINE a == E!ts(s)
           b == E!ts(t)
<1>2. PICK d : LastDigit(s, n, d) /\ TextOf(s, d, a)
  BY <1>1, TextIs
<1>3. PICK e : LastDigit(t, n, e) /\ TextOf(t, e, b)
  BY <1>1, TextIs
<1>4. a = b <=> s = t
  <2>1. s = t => a = b
    OBVIOUS
  <2> HIDE DEF a, b
  <2> QED BY <2>1, <1>1, <1>2, <1>3, SameText
<1> HIDE DEF a, b
<1>5. E!TextBefore(a, b) \/ E!TextBefore(b, a) \/ s = t
  BY <1>1, <1>2, <1>3, TextsApart
<1>6. ASSUME E!TextBefore(a, b), s.second > t.second
      PROVE  FALSE
  <2>1. PICK k \in DOMAIN a \cap DOMAIN b : a[k] < b[k] /\ \A j \in 1..k - 1 : a[j] = b[j]
    BY <1>6 DEF E!TextBefore
  <2>2. k \in Nat \ {0} /\ a[1] = s.second /\ b[1] = t.second /\ s.second \in Nat /\ t.second \in Nat
    <3>1. DOMAIN a = 1..Len(a) /\ a[1] = s.second /\ b[1] = t.second
      BY <1>1, <1>2, <1>3, TextFacts
    <3>2. s.second \in Nat /\ t.second \in Nat
      BY <1>1 DEF Time
    <3> QED BY <2>1, <3>1, <3>2
  <2> QED BY <1>6, <2>1, <2>2
<1>7. ASSUME E!TextBefore(a, b), s.second = t.second, E!TextBefore(t.fraction, s.fraction)
      PROVE  Len(a) # Len(b)
  BY <1>1, <1>2, <1>3, <1>7, FractionsInOrder
<1> QED BY <1>4, <1>5, <1>6, <1>7, Zenon DEF E!TimesHold, s, t, a, b

-----------------------------------------------------------------------------
(* What the library run checks of small inputs holds of whatever is given. *)

CreationSound(x) ==
    /\ x.devices \subseteq Int /\ IsFiniteSet(x.devices)
    /\ x.command.size \in Int /\ x.command.percent \in Int
    /\ x.command.scheduled \in Int /\ x.now \in Int

ProgressSound(x) == x.statuses \in Seq(TargetStatus) /\ Len(x.statuses) < 20000

RolloutSound ==
    /\ input.of = "creation" => CreationSound(input.x)
    /\ input.of = "progress" => ProgressSound(input.x)
    /\ input.of = "rule"     => input.x \in [rule : Rule, metrics : Metric]

\* For any commands, devices, rules and counts, and any fewer than 20000 targets: the
\* planner, the progress, the schedule and the rules agree with what CreateRollout
\* and the scheduler make of the same (RolloutFits).
THEOREM RolloutFitsHolds ==
    ASSUME Minute \in Nat
    PROVE  []RolloutSound => []RolloutFits
<1>1. RolloutSound => RolloutFits
  <2>1. \A x : CreationSound(x) => B!SizesAgree(x) /\ B!ScheduleHolds(x)
    BY SizesHold, ScheduleKept DEF CreationSound
  <2>2. \A x : ProgressSound(x) => B!ProgressHolds(x)
    BY ProgressCounted DEF ProgressSound
  <2>3. \A x \in [rule : Rule, metrics : Metric] : B!RuleHolds(x)
    BY RulePauses
  <2> QED BY <2>1, <2>2, <2>3, Zenon DEF RolloutSound, RolloutFits
<1> QED BY <1>1, PTL

ComparedSound ==
    /\ input.of = "versions" => input.x \in [u : Version, v : Version, w : Version]
    /\ input.of = "times"    => \E n \in Nat : input.x \in [s : Time(n), t : Time(n)]

\* Versions of any numbers and prereleases are in order, and so are stored times with
\* fractions of any length but within a second (ComparesInOrder).
THEOREM ComparesHold ==
    ASSUME Unset \notin Version, \A l, r : [minimum |-> l, maximum |-> r] # Unset
    PROVE  []ComparedSound => []ComparesInOrder
<1>1. ComparedSound => ComparesInOrder
  <2>1. \A x \in [u : Version, v : Version, w : Version] : V!OrderHolds(x)
    BY VersionsInOrder
  <2>2. \A n \in Nat : \A x \in [s : Time(n), t : Time(n)] : E!TimesHold(x)
    BY TimesInOrder
  <2> QED BY <2>1, <2>2, Zenon DEF ComparedSound, ComparesInOrder
<1> QED BY <1>1, PTL

=============================================================================
