------------------------ MODULE ServiceProcessProofs ------------------------
(***************************************************************************)
(* Theorems about ServiceProcess, for any numbers of workers and requests. *)
(***************************************************************************)
EXTENDS ServiceProcess, TLAPS

-----------------------------------------------------------------------------
(* The inductive invariant.                                                *)

\* Past waitGroup.Wait no worker is at work, up to the closing and after it.
WorkersStopped ==
    main = "closing" \/ database = "closed" => \A w \in Workers : worker[w] = "stopped"

\* Shutdown gets past the server only with time run out or nobody to answer,
\* and nobody is let in after it began.
DrainedBefore ==
    main \in {"waiting", "closing"} \/ database = "closed"
        => expired \/ \A r \in Requests : request[r] # "handled"

\* A channel with a buffer of one: what is sent once never waits.
RoomToSend == call.work # "ended" => call.sent = 0

PInv ==
    /\ WorkersStopped
    /\ DrainedBefore
    /\ database = "closed" => main \in {"returned", "exited"}
    /\ \A r \in Requests : request[r] = "failed" => expired
    /\ RoomToSend

-----------------------------------------------------------------------------

Call == [done : BOOLEAN, caller : {"selects", "returned"},
         sent : 0..1, work : {"works", "sends", "ended"}]

LEMMA InitSound == Init => TypeOK /\ PInv
<1> SUFFICES ASSUME Init PROVE TypeOK /\ PInv
  OBVIOUS
<1>1. call.sent = 0 /\ call \in Call
  BY DEF Init, Call
<1>2. PInv
  BY <1>1 DEF Init, PInv, WorkersStopped, DrainedBefore, RoomToSend
<1>3. TypeOK
  BY <1>1 DEF Init, TypeOK, Call
<1> QED BY <1>2, <1>3

LEMMA CallFields ==
    ASSUME NEW c \in Call
    PROVE  /\ [c EXCEPT !.caller = "returned", !.sent = 0] \in Call
           /\ [c EXCEPT !.work = "ended", !.sent = 1] \in Call
<1> DEFINE left == [c EXCEPT !.caller = "returned"]
           ended == [c EXCEPT !.work = "ended"]
<1>1. left \in Call /\ ended \in Call
  BY DEF Call
<1>2. /\ [c EXCEPT !.caller = "returned", !.sent = 0] = [left EXCEPT !.sent = 0]
      /\ [c EXCEPT !.work = "ended", !.sent = 1] = [ended EXCEPT !.sent = 1]
  OBVIOUS
<1> HIDE DEF left, ended
<1>3. [left EXCEPT !.sent = 0] \in Call /\ [ended EXCEPT !.sent = 1] \in Call
  BY <1>1 DEF Call
<1> QED BY <1>2, <1>3, Zenon

LEMMA TypeStep ==
    ASSUME TypeOK, [Next]_vars
    PROVE  TypeOK'
<1> USE DEF TypeOK, process
<1>1. ASSUME NEW w \in Workers, Tick(w) \/ WorkDone(w) \/ Stop(w) PROVE TypeOK'
  BY <1>1 DEF Tick, WorkDone, Stop
<1>2. ASSUME NEW r \in Requests, Accept(r) \/ Answer(r) \/ Fails(r) \/ TimesOut(r) \/ LateEnds(r)
      PROVE  TypeOK'
  BY <1>2 DEF Accept, Answer, Fails, TimesOut, LateEnds, Handle
<1>3. CASE Signal \/ ServerFails \/ Shutdown \/ Expire \/ Drained \/ Waited \/ Close \/ Exit
  BY <1>3 DEF Signal, ServerFails, Shutdown, Expire, Drained, Waited, Close, Exit
<1>4. CASE ContextDone \/ GiveUp \/ Receive \/ WorkReturns \/ Send
  <2>1. call \in Call
    BY DEF Call
  <2>2. call' \in Call
    <3>1. CASE ContextDone
      BY <2>1, <3>1 DEF ContextDone, Call
    <3>2. CASE GiveUp
      <4>1. call' = [call EXCEPT !.caller = "returned"]
        BY <3>2, Zenon DEF GiveUp
      <4> QED BY <2>1, <4>1 DEF Call
    <3>3. CASE Receive
      BY <2>1, <3>3, CallFields DEF Receive
    <3>4. CASE WorkReturns
      BY <2>1, <3>4 DEF WorkReturns, Call
    <3>5. CASE Send
      BY <2>1, <3>5, CallFields DEF Send
    <3> QED BY <1>4, <3>1, <3>2, <3>3, <3>4, <3>5
  <2>3. UNCHANGED process
    BY <1>4 DEF ContextDone, GiveUp, Receive, WorkReturns, Send
  <2> QED BY <2>2, <2>3 DEF Call
<1>5. CASE UNCHANGED vars
  BY <1>5 DEF vars
<1> QED BY <1>1, <1>2, <1>3, <1>4, <1>5 DEF Next

LEMMA WorkerStep ==
    ASSUME TypeOK, PInv, NEW w \in Workers, Tick(w) \/ WorkDone(w) \/ Stop(w)
    PROVE  PInv'
<1>1. UNCHANGED <<main, expired, request, database, call>>
  BY DEF Tick, WorkDone, Stop
<1>2. worker[w] # "stopped" /\ \A v \in Workers \ {w} : worker'[v] = worker[v]
  BY DEF Tick, WorkDone, Stop, TypeOK
<1>3. WorkersStopped'
  BY <1>1, <1>2 DEF PInv, WorkersStopped
<1> QED BY <1>1, <1>3 DEF PInv, DrainedBefore, RoomToSend

\* A new request is let in only before Shutdown, and one that is not handled
\* any more is never handled again.
LEMMA RequestStep ==
    ASSUME TypeOK, PInv, NEW r \in Requests,
           Accept(r) \/ Answer(r) \/ Fails(r) \/ TimesOut(r) \/ LateEnds(r)
    PROVE  PInv'
<1>1. UNCHANGED <<main, expired, worker, database, call>>
  BY DEF Accept, Answer, Fails, TimesOut, LateEnds, Handle
<1>2. /\ \A q \in Requests \ {r} : request'[q] = request[q]
      /\ request'[r] = "handled" => main = "running"
      /\ request'[r] = "failed" => request[r] = "handled" /\ database = "closed"
  BY DEF Accept, Answer, Fails, TimesOut, LateEnds, Handle, TypeOK
<1>3. DrainedBefore'
  BY <1>1, <1>2 DEF PInv, DrainedBefore
<1>4. \A q \in Requests : request'[q] = "failed" => expired'
  BY <1>1, <1>2 DEF PInv, DrainedBefore
<1> QED BY <1>1, <1>3, <1>4 DEF PInv, WorkersStopped, RoomToSend

LEMMA MainStep ==
    ASSUME TypeOK, PInv,
           Signal \/ ServerFails \/ Shutdown \/ Expire \/ Drained \/ Waited \/ Close \/ Exit
    PROVE  PInv'
<1> USE DEF PInv, WorkersStopped, DrainedBefore, RoomToSend
<1>1. CASE Signal \/ ServerFails \/ Shutdown \/ Expire
  BY <1>1 DEF Signal, ServerFails, Shutdown, Expire
<1>2. CASE Drained \/ Waited
  BY <1>2 DEF Drained, Waited
<1>3. CASE Close \/ Exit
  BY <1>3 DEF Close, Exit
<1> QED BY <1>1, <1>2, <1>3

LEMMA CallStep ==
    ASSUME TypeOK, PInv, ContextDone \/ GiveUp \/ Receive \/ WorkReturns \/ Send
    PROVE  PInv'
<1>1. UNCHANGED process
  BY DEF ContextDone, GiveUp, Receive, WorkReturns, Send
<1>2. RoomToSend'
  BY DEF ContextDone, GiveUp, Receive, WorkReturns, Send, TypeOK, PInv, RoomToSend
<1> QED BY <1>1, <1>2 DEF PInv, WorkersStopped, DrainedBefore, process

LEMMA NextSound ==
    ASSUME TypeOK, PInv, [Next]_vars
    PROVE  PInv'
<1>1. CASE UNCHANGED vars
  BY <1>1 DEF vars, process, PInv, WorkersStopped, DrainedBefore, RoomToSend
<1> QED BY <1>1, WorkerStep, RequestStep, MainStep, CallStep DEF Next

\* The database is closed after the last worker has stopped, however ticks,
\* requests, the signal and Shutdown's ten seconds interleave; a request whose
\* client still waits when it finds it closed outlasted those.
THEOREM ClosedLastHolds == Spec => []ClosedLast
<1>1. TypeOK /\ PInv => ClosedLast
  BY DEF PInv, WorkersStopped, ClosedLast
<1>2. TypeOK /\ PInv /\ [Next]_vars => (TypeOK /\ PInv)'
  BY TypeStep, NextSound
<1> QED BY <1>1, <1>2, InitSound, PTL DEF Spec

\* The work of RunWithRequestContext never waits for a receiver: when it has
\* its result there is room in the channel, also after the caller has left.
\* CallEnds rests on it.
THEOREM SendNeverWaits == Spec => []RoomToSend
<1>1. TypeOK /\ PInv => RoomToSend
  BY DEF PInv
<1>2. TypeOK /\ PInv /\ [Next]_vars => (TypeOK /\ PInv)'
  BY TypeStep, NextSound
<1> QED BY <1>1, <1>2, InitSound, PTL DEF Spec
=============================================================================
