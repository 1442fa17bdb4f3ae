-------------------------- MODULE ServerLifecycle --------------------------
(***************************************************************************)
(* start(), stop(), stop_accept() and the accept loop of the WebSocket     *)
(* server: src/ws-app/server_ws.hpp 378-484 and 841-859, with the io       *)
(* threads, the start_stop_mutex and as much of the connections as these   *)
(* functions see.                                                          *)
(*                                                                         *)
(* Starter calls start() and then runs the io_service; Pool are the        *)
(* threads start() adds when thread_pool_size > 1.  The io_service is the  *)
(* server's own.  It is out of work when no accept is outstanding or       *)
(* completed and no connection is left; run() then returns as it does      *)
(* after stop().                                                           *)
(***************************************************************************)
EXTENDS Integers, Sequences

CONSTANTS
    Starter,        \* The thread that calls start().
    Pool,           \* The threads start() creates.
    Stoppers,       \* Other threads, which call stop() once.
    HandlersStop,   \* Whether callbacks of endpoints call stop().
    Sockets,        \* The sockets of the connections which may be accepted.
    MaxStarts       \* Bound: how often start() is called.

\* Names are distinct: of threads, and of sockets and the errors below.
ASSUME LifecycleAssumption ==
    /\ Starter # "free"
    /\ Starter \notin Pool \union Stoppers
    /\ Pool \intersect Stoppers = {}
    /\ Sockets \intersect {"aborted", "bad_descriptor", "other"} = {}
    /\ HandlersStop \in BOOLEAN
    /\ MaxStarts \in Nat

VARIABLES
    mutex,      \* The holder of start_stop_mutex, or "free".
    pc,         \* Per thread, where it is.
    acceptor,   \* "none", "open" or "closed"
    accepts,    \* Number of async_accepts outstanding.
    accepted,   \* Handlers of async_accept to run: their outcomes, in order.
    service,    \* The io_service: "none", "running" or "stopped".
    conn,       \* Per socket, what has become of it.
    starts,     \* Calls of start().
    parity      \* History: of the number of accept handlers run.  It makes
                \* the run of one a step, also when the next one is the same.

vars == << mutex, pc, acceptor, accepts, accepted, service, conn, starts, parity >>

IoThreads == {Starter} \union Pool
Threads == IoThreads \union Stoppers

\* How an async_accept ends: with a socket, or with an error.  close() gives
\* operation_aborted; accepting on a closed acceptor gives bad_descriptor; any
\* other error may come while the acceptor is open.
Errors == {"aborted", "bad_descriptor", "other"}
Outcomes == Sockets \union Errors

Init ==
    /\ mutex = "free"
    /\ pc = [t \in Threads |-> "idle"]
    /\ acceptor = "none"
    /\ accepts = 0
    /\ accepted = << >>
    /\ service = "none"
    /\ conn = [s \in Sockets |-> "new"]
    /\ starts = 0
    /\ parity = 0

\* Sockets whose connection keeps the io_service at work.
Live == { s \in Sockets : conn[s] \in {"accepted", "handshake", "open"} }

HasWork == accepts > 0 \/ accepted # << >> \/ Live # {}

Goto(t, label) == pc' = [pc EXCEPT ![t] = label]

-----------------------------------------------------------------------------
(* Accepting                                                               *)

\* accept(), when the acceptor is in state a and handlers q are queued.
Accept(a, q) ==
    IF a = "open"
      THEN accepts' = accepts + 1 /\ accepted' = q
      ELSE accepts' = accepts /\ accepted' = Append(q, "bad_descriptor")

\* acceptor->close(): outstanding accepts are aborted.
CloseAcceptor ==
    /\ acceptor' = "closed"
    /\ accepts' = 0
    /\ accepted' = accepted \o [i \in 1..accepts |-> "aborted"]

\* A client connects, or accepting fails.
AcceptCompletes ==
    /\ accepts > 0
    /\ \/ \E s \in Sockets :
             /\ conn[s] = "new"
             /\ conn' = [conn EXCEPT ![s] = "accepted"]
             /\ accepted' = Append(accepted, s)
       \/ /\ accepted' = Append(accepted, "other")
          /\ UNCHANGED conn
    /\ accepts' = accepts - 1
    /\ UNCHANGED << mutex, pc, acceptor, service, starts, parity >>

RunsHandlers(t) == service = "running" /\ pc[t] = "running"

\* Bug: after any error nothing more is accepted.
BugAcceptsOn(outcome) == outcome \notin Errors

\* if(ec != error::operation_aborted) accept();
AcceptsOn(outcome) == outcome # "aborted"

\* Bug: the connection accepted last is forgotten when the acceptor is closed.
BugHandshakes(outcome) == outcome \in Sockets /\ acceptor = "open"

\* if(!ec) read_handshake(connection);
Handshakes(outcome) == outcome \in Sockets

\* The handler of async_accept: the next accept is started unless this one
\* was aborted; a socket goes on to its handshake.
AcceptHandler(t) ==
    /\ RunsHandlers(t)
    /\ accepted # << >>
    /\ LET outcome == Head(accepted)
       IN  /\ IF AcceptsOn(outcome)
                THEN Accept(acceptor, Tail(accepted))
                ELSE accepted' = Tail(accepted) /\ UNCHANGED accepts
           /\ conn' = IF Handshakes(outcome)
                        THEN [conn EXCEPT ![outcome] = "handshake"]
                        ELSE conn
    /\ parity' = 1 - parity
    /\ UNCHANGED << mutex, pc, acceptor, service, starts >>

\* The handshake ends: the connection enters its endpoint or is dropped.
HandshakeHandler(t) ==
    /\ RunsHandlers(t)
    /\ \E s \in Sockets, outcome \in {"open", "gone"} :
          /\ conn[s] = "handshake"
          /\ conn' = [conn EXCEPT ![s] = outcome]
    /\ UNCHANGED << mutex, pc, acceptor, accepts, accepted, service, starts, parity >>

\* on_close, on_error, or the last handler of a connection closed by stop().
EndHandler(t) ==
    /\ RunsHandlers(t)
    /\ \E s \in Sockets :
          /\ conn[s] = "open"
          /\ conn' = [conn EXCEPT ![s] = "gone"]
    /\ UNCHANGED << mutex, pc, acceptor, accepts, accepted, service, starts, parity >>

-----------------------------------------------------------------------------
(* start()                                                                 *)

\* Bug: a stopped io_service is not restarted.
BugRestarted == IF service = "none" THEN "running" ELSE service

\* if(internal_io_service && io_service->stopped()) restart(*io_service);
Restarted == "running"

\* Under the mutex: the acceptor listens, the first accept is started, a
\* stopped io_service is restarted, and the other threads begin to run it.
Start ==
    /\ pc[Starter] = "idle"
    /\ starts < MaxStarts
    /\ mutex = "free"
    /\ mutex' = Starter
    /\ starts' = starts + 1
    /\ acceptor' = "open"
    /\ Accept("open", accepted)
    /\ service' = Restarted
    /\ pc' = [t \in Threads |-> CASE t = Starter -> "started"
                                  [] t \in Pool -> "running"
                                  [] OTHER -> pc[t]]
    /\ UNCHANGED << conn, parity >>

\* Bug: the mutex is held while the io_service runs.
BugRun ==
    /\ pc[Starter] = "started"
    /\ Goto(Starter, "running")
    /\ UNCHANGED << mutex, acceptor, accepts, accepted, service, conn, starts, parity >>

\* lock.unlock(); io_service->run();
Run ==
    /\ pc[Starter] = "started"
    /\ mutex' = "free"
    /\ Goto(Starter, "running")
    /\ UNCHANGED << acceptor, accepts, accepted, service, conn, starts, parity >>

\* run() returns in a thread; out of work, it stops the io_service.
RunReturns(t) ==
    /\ pc[t] = "running"
    /\ service = "stopped" \/ (~HasWork /\ \A v \in IoThreads : pc[v] # "stopping")
    /\ service' = "stopped"
    /\ Goto(t, IF t = Starter THEN "locking" ELSE "finished")
    /\ UNCHANGED << mutex, acceptor, accepts, accepted, conn, starts, parity >>

\* Bug: start() returns without having joined its threads.
BugLockAgain ==
    /\ pc[Starter] = "locking"
    /\ mutex = "free"
    /\ Goto(Starter, "idle")
    /\ UNCHANGED << mutex, acceptor, accepts, accepted, service, conn, starts, parity >>

\* lock.lock();
LockAgain ==
    /\ pc[Starter] = "locking"
    /\ mutex = "free"
    /\ mutex' = Starter
    /\ Goto(Starter, "joining")
    /\ UNCHANGED << acceptor, accepts, accepted, service, conn, starts, parity >>

\* t.join() for each thread; start() returns and gives up the mutex.
Join ==
    /\ pc[Starter] = "joining"
    /\ \A t \in Pool : pc[t] = "finished"
    /\ mutex' = "free"
    /\ Goto(Starter, "idle")
    /\ UNCHANGED << acceptor, accepts, accepted, service, conn, starts, parity >>

-----------------------------------------------------------------------------
(* stop() and stop_accept()                                                *)

\* A thread calls stop(), or a callback of an open connection does.
CallStop(t) ==
    /\ \/ t \in Stoppers /\ pc[t] = "idle"
       \/ t \in IoThreads /\ HandlersStop /\ RunsHandlers(t)
             /\ \E s \in Sockets : conn[s] = "open"
    /\ Goto(t, "stopping")
    /\ UNCHANGED << mutex, acceptor, accepts, accepted, service, conn, starts, parity >>

\* The critical section of stop().  Connections of the endpoints are closed;
\* their last handlers run if the io_service runs again.
Stop(t) ==
    /\ pc[t] = "stopping"
    /\ mutex = "free"
    /\ IF acceptor # "none"
         THEN CloseAcceptor /\ service' = "stopped"
         ELSE UNCHANGED << acceptor, accepts, accepted, service >>
    /\ Goto(t, IF t \in Stoppers THEN "finished" ELSE "running")
    /\ UNCHANGED << mutex, conn, starts, parity >>

\* stop_accept(), called by any thread; it takes no mutex.
StopAccept ==
    /\ acceptor = "open"
    /\ pc[Starter] = "running"
    /\ CloseAcceptor
    /\ UNCHANGED << mutex, pc, service, conn, starts, parity >>

-----------------------------------------------------------------------------
Handlers(t) ==
    \/ AcceptHandler(t)
    \/ HandshakeHandler(t)
    \/ EndHandler(t)

Starting == Start \/ Run \/ LockAgain \/ Join

Next ==
    \/ AcceptCompletes
    \/ Starting
    \/ \E t \in IoThreads : Handlers(t) \/ RunReturns(t)
    \/ \E t \in Threads : CallStop(t) \/ Stop(t)
    \/ StopAccept

Spec == Init /\ [][Next]_vars

\* Threads inside start(), stop() or run() go on; each kind of handler that
\* is queued is run.  Nobody is obliged to call a function or to connect.
Fairness ==
    /\ WF_vars(Run \/ LockAgain \/ Join)
    /\ \A t \in IoThreads :
          /\ WF_vars(AcceptHandler(t))
          /\ WF_vars(HandshakeHandler(t))
          /\ WF_vars(EndHandler(t))
          /\ WF_vars(RunReturns(t))
    /\ \A t \in Threads : SF_vars(Stop(t))

FairSpec == Spec /\ Fairness

-----------------------------------------------------------------------------
\* Types of the variables, and who holds the mutex across a step.
TypeOK ==
    /\ mutex \in {"free", Starter}
    /\ mutex = Starter <=> pc[Starter] \in {"started", "joining"}
    /\ pc \in [Threads -> {"idle", "started", "running", "locking", "joining",
                           "stopping", "finished"}]
    /\ acceptor \in {"none", "open", "closed"}
    /\ accepts \in Nat
    /\ accepted \in Seq(Outcomes)
    /\ service \in {"none", "running", "stopped"}
    /\ conn \in [Sockets -> {"new", "accepted", "handshake", "open", "gone"}]
    /\ starts \in 0..MaxStarts
    /\ parity \in 0..1

\* A listening server never loses its accept loop: some async_accept is
\* outstanding, or a handler is queued that will start one.
AcceptLoopAlive ==
    acceptor = "open" =>
        accepts > 0 \/ \E i \in DOMAIN accepted : accepted[i] # "aborted"

\* threads.clear() at the next start() destroys thread objects: each of them
\* must have been joined, so none may still be running.
ThreadsJoined ==
    pc[Starter] = "idle" => \A t \in Pool : pc[t] \in {"idle", "finished"}

\* A connection accepted while the io_service runs gets its handshake, unless
\* the io_service is stopped first; also when stop_accept() comes in between.
AcceptedServed ==
    \A s \in Sockets : conn[s] = "accepted" ~> conn[s] # "accepted" \/ service = "stopped"

\* A server that is started again serves: start() does not return again
\* before stop() is called or the acceptor is closed.
RunningWhileOpen ==
    pc[Starter] = "locking" => acceptor = "closed"

\* start() holds the mutex and joins a thread whose callback waits for it.
JoinDeadlock == pc[Starter] = "joining" /\ \E t \in Pool : pc[t] = "stopping"

\* A call of stop() returns, in any thread.  The only way for it to wait for
\* ever is the one StartReturns is about.
StopReturns ==
    \A t \in Threads : pc[t] = "stopping" ~> pc[t] # "stopping" \/ JoinDeadlock

\* server_ws.hpp 452: start() is to "Wait for the rest of the threads, if any,
\* to finish as well".  Once the io_service is stopped they finish and start()
\* returns.
StartReturns ==
    pc[Starter] \in {"locking", "joining"} ~> pc[Starter] = "idle"

\* server_ws.hpp 478: stop_accept() is to "Stop accepting new connections".
\* The accept loop then ends, unless start() opens the acceptor again or the
\* io_service is stopped with handlers left in it.
AcceptLoopEnds ==
    acceptor = "closed" ~>
        (accepts = 0 /\ accepted = << >>) \/ acceptor = "open" \/ service = "stopped"
=============================================================================
