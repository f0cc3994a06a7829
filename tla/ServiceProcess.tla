--------------------------- MODULE ServiceProcess ---------------------------
(***************************************************************************)
(* The process: main, the two workers with their tickers, the server with  *)
(* its handlers, the database, and the way all of them end after a signal. *)
(* A handler runs under http.TimeoutHandler: the client may have its 503   *)
(* while the handler is still at work.  And a call of                      *)
(* RunWithRequestContext, which waits for its work or for its context.     *)
(***************************************************************************)
EXTENDS Naturals

CONSTANTS Requests, Workers

VARIABLES
    signalled,  \* the context of Run is done
    main,       \* where App.Run is
    expired,    \* Shutdown's ten seconds are over
    worker, request, database,
    call        \* RunWithRequestContext: its context, caller, channel and work

process == <<signalled, main, expired, worker, request, database>>
vars == <<process, call>>

TypeOK ==
    /\ signalled \in BOOLEAN /\ expired \in BOOLEAN
    /\ main \in {"running", "draining", "waiting", "closing", "returned", "exited"}
    /\ worker \in [Workers -> {"waiting", "working", "stopped"}]
    /\ request \in [Requests -> {"none", "handled", "late", "answered", "failed", "cut"}]
    /\ database \in {"open", "closed"}
    /\ call \in [done : BOOLEAN, caller : {"selects", "returned"},
                 sent : 0..1, work : {"works", "sends", "ended"}]

Init ==
    /\ signalled = FALSE /\ expired = FALSE
    /\ main = "running"
    /\ worker = [w \in Workers |-> "waiting"]
    /\ request = [r \in Requests |-> "none"]
    /\ database = "open"
    /\ call = [done |-> FALSE, caller |-> "selects", sent |-> 0, work |-> "works"]

Alive == main # "exited"

-----------------------------------------------------------------------------
(* Workers (runTicker).                                                    *)

\* Slip: the workers' context is one of their own, which nothing cancels.
CancelledNever == FALSE

\* The workers' context derives from that of Run.
Cancelled == signalled

\* Go chooses among what is ready: a tick may be taken although the context is
\* done, and its work then fails at its first statement.
Tick(w) ==
    /\ Alive /\ worker[w] = "waiting"
    /\ worker' = [worker EXCEPT ![w] = "working"]
    /\ UNCHANGED <<signalled, main, expired, request, database, call>>

WorkDone(w) ==
    /\ Alive /\ worker[w] = "working"
    /\ worker' = [worker EXCEPT ![w] = "waiting"]
    /\ UNCHANGED <<signalled, main, expired, request, database, call>>

Stop(w) ==
    /\ Alive /\ worker[w] = "waiting" /\ Cancelled
    /\ worker' = [worker EXCEPT ![w] = "stopped"]
    /\ UNCHANGED <<signalled, main, expired, request, database, call>>

-----------------------------------------------------------------------------
(* Requests (the server, middleware.Timeout).                              *)

Handle(r, from, to) ==
    /\ Alive /\ request[r] = from
    /\ request' = [request EXCEPT ![r] = to]
    /\ UNCHANGED <<signalled, main, expired, worker, database, call>>

Accept(r)   == main = "running" /\ Handle(r, "none", "handled")
Answer(r)   == database = "open" /\ Handle(r, "handled", "answered")
\* A statement finds the database closed.
Fails(r)    == database = "closed" /\ Handle(r, "handled", "failed")
\* The client is answered with 503, and the handler's context is done.
TimesOut(r) == Handle(r, "handled", "late")
\* What is left of the handler runs to its end, or to a statement that finds the
\* database closed: server.Shutdown has not waited for it.
LateEnds(r) ==
    \/ Handle(r, "late", "answered")
    \/ database = "closed" /\ Handle(r, "late", "cut")

-----------------------------------------------------------------------------
(* App.Run and Shutdown.                                                   *)

\* SIGTERM or an interrupt (signal.NotifyContext).
Signal ==
    /\ Alive /\ ~signalled
    /\ signalled' = TRUE
    /\ UNCHANGED <<main, expired, worker, request, database, call>>

\* ListenAndServe fails: Run returns, without Shutdown.
ServerFails ==
    /\ main = "running"
    /\ main' = "returned"
    /\ UNCHANGED <<signalled, expired, worker, request, database, call>>

Shutdown ==
    /\ main = "running" /\ signalled
    /\ main' = "draining"
    /\ UNCHANGED <<signalled, expired, worker, request, database, call>>

Expire ==
    /\ main = "draining" /\ ~expired
    /\ expired' = TRUE
    /\ UNCHANGED <<signalled, main, worker, request, database, call>>

\* server.Shutdown returns; it waits for answers, not for handlers.
Drained ==
    /\ main = "draining"
    /\ expired \/ \A r \in Requests : request[r] # "handled"
    /\ main' = "waiting"
    /\ UNCHANGED <<signalled, expired, worker, request, database, call>>

\* Slip: waitGroup.Wait is left out.
WaitedNot ==
    /\ main = "waiting"
    /\ main' = "closing"
    /\ UNCHANGED <<signalled, expired, worker, request, database, call>>

Waited ==
    /\ main = "waiting"
    /\ \A w \in Workers : worker[w] = "stopped"
    /\ main' = "closing"
    /\ UNCHANGED <<signalled, expired, worker, request, database, call>>

Close ==
    /\ main = "closing"
    /\ database' = "closed" /\ main' = "returned"
    /\ UNCHANGED <<signalled, expired, worker, request, call>>

\* main returns, or os.Exit.
Exit ==
    /\ main = "returned"
    /\ main' = "exited"
    /\ UNCHANGED <<signalled, expired, worker, request, database, call>>

-----------------------------------------------------------------------------
(* RunWithRequestContext.                                                  *)

ContextDone ==
    /\ ~call.done
    /\ call' = [call EXCEPT !.done = TRUE]
    /\ UNCHANGED process

GiveUp ==
    /\ call.caller = "selects" /\ call.done
    /\ call' = [call EXCEPT !.caller = "returned"]
    /\ UNCHANGED process

Receive ==
    /\ call.caller = "selects" /\ call.sent = 1
    /\ call' = [call EXCEPT !.caller = "returned", !.sent = 0]
    /\ UNCHANGED process

\* The child context is done with its parent, or when the caller has returned.
WorkReturns ==
    /\ call.work = "works"
    /\ call' = [call EXCEPT !.work = "sends"]
    /\ UNCHANGED process

\* Slip: a channel without a buffer, which needs its receiver.
SendUnbuffered ==
    /\ call.work = "sends" /\ call.caller = "selects"
    /\ call' = [call EXCEPT !.work = "ended", !.sent = 1]
    /\ UNCHANGED process

Send ==
    /\ call.work = "sends" /\ call.sent = 0
    /\ call' = [call EXCEPT !.work = "ended", !.sent = 1]
    /\ UNCHANGED process

-----------------------------------------------------------------------------
Next ==
    \/ \E w \in Workers : Tick(w) \/ WorkDone(w) \/ Stop(w)
    \/ \E r \in Requests : Accept(r) \/ Answer(r) \/ Fails(r) \/ TimesOut(r) \/ LateEnds(r)
    \/ Signal \/ ServerFails \/ Shutdown \/ Expire \/ Drained \/ Waited \/ Close \/ Exit
    \/ ContextDone \/ GiveUp \/ Receive \/ WorkReturns \/ Send

Spec == Init /\ [][Next]_vars

\* The work of a tick ends with its context, and select does not pass over what
\* is ready for ever.  Handlers need not end.  The work of a call ends once its
\* context is done.
Fairness ==
    /\ \A w \in Workers : WF_vars(WorkDone(w)) /\ SF_vars(Stop(w))
    /\ WF_vars(Shutdown) /\ WF_vars(Expire) /\ WF_vars(Drained)
    /\ WF_vars(Waited) /\ WF_vars(Close) /\ WF_vars(Exit)
    /\ WF_vars(GiveUp) /\ WF_vars(Receive) /\ WF_vars(Send)
    /\ WF_vars(WorkReturns /\ (call.done \/ call.caller = "returned"))

FairSpec == Spec /\ Fairness

-----------------------------------------------------------------------------
(* Properties.                                                             *)

\* The database is closed when no worker can use it any more, and a request whose
\* client still waits finds it closed only if it outlasted Shutdown's ten seconds.
ClosedLast ==
    /\ database = "closed" => \A w \in Workers : worker[w] = "stopped"
    /\ \A r \in Requests : request[r] = "failed" => expired

\* After a signal the process ends, whatever handlers and workers are at.
Terminates == signalled ~> main = "exited"

\* Once the context of a call is done it returns, and its work ends also when
\* nobody waits for the result any more.
CallEnds == call.done ~> call.caller = "returned" /\ call.work = "ended"

=============================================================================
