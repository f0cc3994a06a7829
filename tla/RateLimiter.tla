---------------------------- MODULE RateLimiter ----------------------------
(***************************************************************************)
(* The middleware's fixed-window rate limiter.  A request reads the clock  *)
(* and then waits for the mutex, so that times may reach the table out of  *)
(* order.                                                                  *)
(***************************************************************************)
EXTENDS Integers

CONSTANTS
    Clients, Arrivals,  \* requests are numbered
    Limit, Window,      \* 600 and a minute (router.go)
    MaxTime             \* bound of the model

ASSUME LimiterAssumption ==
    Limit \in Int /\ Window \in Nat \ {0} /\ MaxTime \in Nat

VARIABLES
    time,
    clients,    \* for each client its window: when it started (0: none yet), its count
    arrival,    \* a request's client and the time it read, until it has the mutex
    \* of no influence on the limiter:
    admitted,   \* how many requests of each client were let through
    since       \* when each client's first window started

limiter == <<time, clients, arrival, admitted, since>>

LimiterTypeOK ==
    /\ time \in 1..MaxTime + 1
    /\ clients \in [Clients -> [started : 0..time, count : Nat]]
    /\ arrival \in [Arrivals -> [at : 0..time, client : Clients] \cup {[at |-> 0]}]
    /\ admitted \in [Clients -> Nat] /\ since \in [Clients -> 0..time]

Init ==
    /\ time = 1
    /\ clients = [c \in Clients |-> [started |-> 0, count |-> 0]]
    /\ arrival = [a \in Arrivals |-> [at |-> 0]]
    /\ admitted = [c \in Clients |-> 0]
    /\ since = [c \in Clients |-> 0]

TimePasses ==
    /\ time <= MaxTime
    /\ time' = time + 1
    /\ UNCHANGED <<clients, arrival, admitted, since>>

\* time.Now(), before allow.
Arrive(a, c) ==
    /\ arrival[a].at = 0
    /\ arrival' = [arrival EXCEPT ![a] = [at |-> time, client |-> c]]
    /\ UNCHANGED <<time, clients, admitted, since>>

Served(a) == arrival' = [arrival EXCEPT ![a] = [at |-> 0]]

Admit(c, now) ==
    /\ admitted' = [admitted EXCEPT ![c] = @ + 1]
    /\ since' = [since EXCEPT ![c] = IF @ = 0 THEN now ELSE @]

Expired(c, now) == clients[c].started = 0 \/ now - clients[c].started >= Window

\* The first request of a window is let through whatever the limit.
OpenWindow(a) ==
    /\ arrival[a].at # 0
    /\ LET c == arrival[a].client
           now == arrival[a].at
       IN  /\ Expired(c, now)
           /\ clients' = [clients EXCEPT ![c] = [started |-> now, count |-> 1]]
           /\ Admit(c, now)
    /\ Served(a)
    /\ UNCHANGED time

\* Slip: the count is compared after it was raised.
CountOneMore(a) ==
    /\ arrival[a].at # 0
    /\ LET c == arrival[a].client
           now == arrival[a].at
       IN  /\ ~Expired(c, now)
           /\ clients[c].count <= Limit
           /\ clients' = [clients EXCEPT ![c].count = @ + 1]
           /\ Admit(c, now)
    /\ Served(a)
    /\ UNCHANGED time

Count(a) ==
    /\ arrival[a].at # 0
    /\ LET c == arrival[a].client
           now == arrival[a].at
       IN  /\ ~Expired(c, now)
           /\ clients[c].count < Limit
           /\ clients' = [clients EXCEPT ![c].count = @ + 1]
           /\ Admit(c, now)
    /\ Served(a)
    /\ UNCHANGED time

\* 429 Too Many Requests.
Refuse(a) ==
    /\ arrival[a].at # 0
    /\ ~Expired(arrival[a].client, arrival[a].at)
    /\ clients[arrival[a].client].count >= Limit
    /\ Served(a)
    /\ UNCHANGED <<time, clients, admitted, since>>

Next ==
    \/ TimePasses
    \/ \E a \in Arrivals :
          (\E c \in Clients : Arrive(a, c)) \/ OpenWindow(a) \/ Count(a) \/ Refuse(a)

LimiterSpec == Init /\ [][Next]_limiter

-----------------------------------------------------------------------------
\* Whatever order its requests reach the table in, a client is let through no
\* more than the limit (and once at least) for each window begun since its first.
AdmittedBounded ==
    \A c \in Clients :
        admitted[c] <= (IF Limit < 1 THEN 1 ELSE Limit) * ((time - since[c]) \div Window + 1)

=============================================================================
