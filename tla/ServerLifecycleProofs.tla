------------------------ MODULE ServerLifecycleProofs ------------------------
(***************************************************************************)
(* Proofs about ServerLifecycle for every pool, every number of other      *)
(* threads, of sockets and of starts.                                      *)
(*                                                                         *)
(* Two of the properties need a fact the code does not state.  A listening *)
(* server is only left by start() when its acceptor was closed, because    *)
(* the io_service only stops after the acceptor did (StoppedClosed): a     *)
(* stop() closes it, and an io_service out of work has no accept loop.     *)
(* That the acceptor has not yet been made is no exception, because a      *)
(* thread inside run() was put there by start() (Started).                 *)
(***************************************************************************)
EXTENDS ServerLifecycle, SequenceTheorems, TLAPS

StoppedClosed == service = "stopped" => acceptor = "closed"

Started == acceptor = "none" => \A t \in IoThreads : pc[t] = "idle"

\* The parts about the phases of the server, which are inductive together.
Phases == StoppedClosed /\ Started /\ RunningWhileOpen

IInv == TypeOK /\ AcceptLoopAlive /\ ThreadsJoined /\ Phases

Labels == {"idle", "started", "running", "locking", "joining", "stopping", "finished"}

-----------------------------------------------------------------------------
(* Types                                                                   *)

\* close() of the acceptor queues a handler for each outstanding accept.
LEMMA CloseTypes ==
    ASSUME TypeOK, CloseAcceptor
    PROVE  /\ acceptor' = "closed"
           /\ accepts' = 0
           /\ accepted' \in Seq(Outcomes)
<1>1. [i \in 1..accepts |-> "aborted"] \in Seq(Outcomes)
  BY DEF TypeOK, Outcomes, Errors
<1>2. accepted \o [i \in 1..accepts |-> "aborted"] \in Seq(Outcomes)
  BY <1>1, ConcatProperties DEF TypeOK
<1> QED
  BY <1>2 DEF CloseAcceptor

\* accept() adds an outstanding accept or the handler of one that failed.
LEMMA AcceptTypes ==
    ASSUME TypeOK, NEW a, NEW q \in Seq(Outcomes), Accept(a, q)
    PROVE  accepts' \in Nat /\ accepted' \in Seq(Outcomes)
<1>1. "bad_descriptor" \in Outcomes /\ accepts \in Nat
  BY DEF Outcomes, Errors, TypeOK
<1>2. Append(q, "bad_descriptor") \in Seq(Outcomes)
  BY <1>1, AppendProperties
<1> QED
  BY <1>1, <1>2 DEF Accept

LEMMA TypeInit == Init => TypeOK
  BY LifecycleAssumption DEF Init, TypeOK, IoThreads, Threads

LEMMA TypeStep ==
    ASSUME TypeOK, [Next]_vars
    PROVE  TypeOK'
<1> USE LifecycleAssumption
<1>a. /\ Starter \in Threads
      /\ Starter \in IoThreads
      /\ \A t \in IoThreads : t \in Threads
  BY DEF Threads, IoThreads
<1>1. CASE AcceptCompletes
  <2>1. accepts' \in Nat
    BY <1>1 DEF AcceptCompletes, TypeOK
  <2>2. accepted' \in Seq(Outcomes)
    BY <1>1 DEF AcceptCompletes, TypeOK, Outcomes, Errors
  <2>3. conn' \in [Sockets -> {"new", "accepted", "handshake", "open", "gone"}]
    BY <1>1 DEF AcceptCompletes, TypeOK
  <2> QED
    BY <1>1, <2>1, <2>2, <2>3 DEF AcceptCompletes, TypeOK
<1>2. CASE Start
  <2>1. accepts' \in Nat /\ accepted' \in Seq(Outcomes)
    BY <1>2, AcceptTypes DEF Start, TypeOK
  <2>2. pc' \in [Threads -> Labels]
    BY <1>2 DEF Start, TypeOK, Labels
  <2>3. pc'[Starter] = "started"
    BY <1>2, <1>a DEF Start
  <2> QED
    BY <1>2, <2>1, <2>2, <2>3 DEF Start, TypeOK, Labels, Restarted
<1>3. CASE Run \/ LockAgain \/ Join
  BY <1>3, <1>a DEF Run, LockAgain, Join, Goto, TypeOK
<1>4. ASSUME NEW t \in IoThreads, AcceptHandler(t)
      PROVE  TypeOK'
  <2>1. Tail(accepted) \in Seq(Outcomes) /\ Head(accepted) \in Outcomes
    BY <1>4 DEF AcceptHandler, TypeOK
  <2>2. accepts' \in Nat /\ accepted' \in Seq(Outcomes)
    <3>1. CASE AcceptsOn(Head(accepted))
      <4>1. Accept(acceptor, Tail(accepted))
        BY <1>4, <3>1 DEF AcceptHandler
      <4> QED
        BY <4>1, <2>1, AcceptTypes
    <3>2. CASE ~AcceptsOn(Head(accepted))
      BY <1>4, <2>1, <3>2 DEF AcceptHandler, TypeOK
    <3> QED
      BY <3>1, <3>2
  <2>3. conn' \in [Sockets -> {"new", "accepted", "handshake", "open", "gone"}]
    BY <1>4 DEF AcceptHandler, Handshakes, TypeOK
  <2>4. parity' \in 0..1
    BY <1>4 DEF AcceptHandler, TypeOK
  <2> QED
    BY <1>4, <2>2, <2>3, <2>4 DEF AcceptHandler, TypeOK
<1>5. ASSUME NEW t \in IoThreads, HandshakeHandler(t) \/ EndHandler(t)
      PROVE  TypeOK'
  BY <1>5 DEF HandshakeHandler, EndHandler, TypeOK
<1>6. ASSUME NEW t \in IoThreads, RunReturns(t)
      PROVE  TypeOK'
  BY <1>6, <1>a DEF RunReturns, Goto, TypeOK
<1>7. ASSUME NEW t \in Threads, CallStop(t)
      PROVE  TypeOK'
  BY <1>7, <1>a DEF CallStop, Goto, TypeOK, RunsHandlers
<1>8. ASSUME NEW t \in Threads, Stop(t)
      PROVE  TypeOK'
  <2>1. /\ acceptor' \in {"none", "open", "closed"}
        /\ accepts' \in Nat
        /\ accepted' \in Seq(Outcomes)
        /\ service' \in {"none", "running", "stopped"}
    BY <1>8, CloseTypes DEF Stop, TypeOK
  <2> QED
    BY <1>8, <1>a, <2>1 DEF Stop, Goto, TypeOK
<1>9. CASE StopAccept
  BY <1>9, CloseTypes DEF StopAccept, TypeOK
<1>10. CASE UNCHANGED vars
  BY <1>10 DEF vars, TypeOK
<1> QED
  BY <1>1, <1>2, <1>3, <1>4, <1>5, <1>6, <1>7, <1>8, <1>9, <1>10
     DEF Next, Starting, Handlers

\* The mutex is held from start() up to run(), and while threads are joined.
THEOREM TypeCorrect == Spec => []TypeOK
<1>1. TypeOK /\ [Next]_vars => TypeOK'
  BY TypeStep
<1> QED
  BY <1>1, TypeInit, PTL DEF Spec

-----------------------------------------------------------------------------
(* The accept loop                                                         *)

\* Appending a handler which is not an aborted one keeps the loop alive.
LEMMA AliveAppend ==
    ASSUME NEW q \in Seq(Outcomes), NEW e \in Outcomes, e # "aborted"
    PROVE  \E i \in DOMAIN Append(q, e) : Append(q, e)[i] # "aborted"
  BY AppendProperties

\* The handler at the front of the queue leaves it; if it was aborted, what
\* keeps the loop alive is behind it.
LEMMA AliveTail ==
    ASSUME NEW q \in Seq(Outcomes), q # << >>, Head(q) = "aborted",
           NEW i \in DOMAIN q, q[i] # "aborted"
    PROVE  \E j \in DOMAIN Tail(q) : Tail(q)[j] # "aborted"
<1>1. i # 1 /\ i \in 1..Len(q)
  BY HeadTailProperties
<1>2. i - 1 \in 1..Len(Tail(q)) /\ Tail(q)[i - 1] = q[i]
  BY <1>1, HeadTailProperties
<1> QED
  BY <1>2, HeadTailProperties

LEMMA AcceptLoopStep ==
    ASSUME TypeOK, AcceptLoopAlive, [Next]_vars
    PROVE  AcceptLoopAlive'
<1> USE LifecycleAssumption
<1>1. CASE AcceptCompletes
  <2>1. PICK e \in Sockets \union {"other"} : accepted' = Append(accepted, e)
    BY <1>1 DEF AcceptCompletes
  <2>2. e \in Outcomes /\ e # "aborted"
    BY <2>1 DEF Outcomes, Errors
  <2>3. accepted \in Seq(Outcomes)
    BY DEF TypeOK
  <2> QED
    BY <2>1, <2>2, <2>3, AliveAppend DEF AcceptLoopAlive
<1>2. CASE Start
  <2>1. accepts' > 0
    BY <1>2 DEF Start, Accept, TypeOK
  <2> QED
    BY <2>1 DEF AcceptLoopAlive
<1>3. ASSUME NEW t \in IoThreads, AcceptHandler(t)
      PROVE  AcceptLoopAlive'
  <2>1. CASE acceptor # "open"
    BY <1>3, <2>1 DEF AcceptHandler, AcceptLoopAlive
  <2>2. CASE acceptor = "open" /\ Head(accepted) # "aborted"
    <3>1. accepts' > 0
      BY <1>3, <2>2 DEF AcceptHandler, AcceptsOn, Accept, TypeOK
    <3> QED
      BY <3>1 DEF AcceptLoopAlive
  <2>3. CASE acceptor = "open" /\ Head(accepted) = "aborted"
    <3>1. accepted' = Tail(accepted) /\ accepts' = accepts /\ accepted # << >>
      BY <1>3, <2>3 DEF AcceptHandler, AcceptsOn
    <3>2. CASE accepts > 0
      BY <3>1, <3>2 DEF AcceptLoopAlive
    <3>3. CASE ~(accepts > 0)
      <4>1. PICK i \in DOMAIN accepted : accepted[i] # "aborted"
        BY <2>3, <3>3 DEF AcceptLoopAlive
      <4> QED
        BY <2>3, <3>1, <4>1, AliveTail DEF AcceptLoopAlive, TypeOK
    <3> QED
      BY <3>2, <3>3
  <2> QED
    BY <2>1, <2>2, <2>3
<1>4. ASSUME NEW t \in Threads, Stop(t)
      PROVE  AcceptLoopAlive'
  BY <1>4 DEF Stop, CloseAcceptor, AcceptLoopAlive
<1>5. CASE StopAccept
  BY <1>5 DEF StopAccept, CloseAcceptor, AcceptLoopAlive
<1>6. CASE UNCHANGED << acceptor, accepts, accepted >>
  BY <1>6 DEF AcceptLoopAlive
<1>7. ASSUME NEW t \in IoThreads, HandshakeHandler(t) \/ EndHandler(t) \/ RunReturns(t)
      PROVE  UNCHANGED << acceptor, accepts, accepted >>
  BY <1>7 DEF HandshakeHandler, EndHandler, RunReturns
<1>8. ASSUME NEW t \in Threads, CallStop(t)
      PROVE  UNCHANGED << acceptor, accepts, accepted >>
  BY <1>8 DEF CallStop
<1>9. ASSUME Run \/ LockAgain \/ Join \/ UNCHANGED vars
      PROVE  UNCHANGED << acceptor, accepts, accepted >>
  BY <1>9 DEF Run, LockAgain, Join, vars
<1> QED
  BY <1>1, <1>2, <1>3, <1>4, <1>5, <1>6, <1>7, <1>8, <1>9
     DEF Next, Starting, Handlers

\* AcceptLoopAlive: whatever errors accept() gets, and whatever closes the
\* acceptor in between, a listening server goes on accepting.
THEOREM AcceptLoop == Spec => []AcceptLoopAlive
<1>1. Init => AcceptLoopAlive
  BY DEF Init, AcceptLoopAlive
<1>2. TypeOK /\ AcceptLoopAlive /\ [Next]_vars => AcceptLoopAlive'
  BY AcceptLoopStep
<1> QED
  BY <1>1, <1>2, TypeCorrect, PTL DEF Spec

-----------------------------------------------------------------------------
(* start() and its threads                                                 *)

\* The starter is one thread of its own.
LEMMA StarterFacts ==
    /\ Starter \in IoThreads
    /\ Starter \in Threads
    /\ Starter \notin Pool
    /\ Starter \notin Stoppers
    /\ Pool \subseteq IoThreads
    /\ IoThreads \subseteq Threads
    /\ Stoppers \subseteq Threads
    /\ Pool \intersect Stoppers = {}
  BY LifecycleAssumption DEF IoThreads, Threads

LEMMA ThreadsJoinedStep ==
    ASSUME TypeOK, ThreadsJoined, [Next]_vars
    PROVE  ThreadsJoined'
<1> USE StarterFacts
<1>1. CASE Start
  BY <1>1 DEF Start, ThreadsJoined
<1>2. CASE Run \/ LockAgain
  BY <1>2 DEF Run, LockAgain, Goto, ThreadsJoined, TypeOK
<1>3. CASE Join
  BY <1>3 DEF Join, Goto, ThreadsJoined, TypeOK
<1>4. ASSUME NEW t \in IoThreads, RunReturns(t)
      PROVE  ThreadsJoined'
  BY <1>4 DEF RunReturns, Goto, ThreadsJoined, TypeOK
<1>5. ASSUME NEW t \in Threads, CallStop(t)
      PROVE  ThreadsJoined'
  BY <1>5 DEF CallStop, RunsHandlers, IoThreads, Goto, ThreadsJoined, TypeOK
<1>6. ASSUME NEW t \in Threads, Stop(t)
      PROVE  ThreadsJoined'
  BY <1>6 DEF Stop, Goto, ThreadsJoined, TypeOK
<1>7. CASE UNCHANGED pc
  BY <1>7 DEF ThreadsJoined
<1>8. ASSUME NEW t \in IoThreads, Handlers(t)
      PROVE  UNCHANGED pc
  BY <1>8 DEF Handlers, AcceptHandler, HandshakeHandler, EndHandler
<1>9. ASSUME AcceptCompletes \/ StopAccept \/ UNCHANGED vars
      PROVE  UNCHANGED pc
  BY <1>9 DEF AcceptCompletes, StopAccept, vars
<1> QED
  BY <1>1, <1>2, <1>3, <1>4, <1>5, <1>6, <1>7, <1>8, <1>9 DEF Next, Starting

\* ThreadsJoined: start() has joined the threads it created when it returns,
\* so that the next start() may destroy the thread objects.
THEOREM ThreadsAreJoined == Spec => []ThreadsJoined
<1>1. Init => ThreadsJoined
  BY StarterFacts DEF Init, ThreadsJoined
<1>2. TypeOK /\ ThreadsJoined /\ [Next]_vars => ThreadsJoined'
  BY ThreadsJoinedStep
<1> QED
  BY <1>1, <1>2, TypeCorrect, PTL DEF Spec

-----------------------------------------------------------------------------
(* The io_service and the acceptor                                         *)

\* run() only returns once the acceptor is closed: either stop() was called,
\* or there is no work, hence no accept loop.
LEMMA ReturnsClosed ==
    ASSUME TypeOK, AcceptLoopAlive, StoppedClosed, Started,
           NEW t \in IoThreads, RunReturns(t)
    PROVE  acceptor = "closed"
<1>1. CASE service = "stopped"
  BY <1>1 DEF StoppedClosed
<1>2. CASE service # "stopped"
  <2>1. ~HasWork
    BY <1>2 DEF RunReturns
  <2>2. ~(accepts > 0) /\ accepted = << >>
    BY <2>1 DEF HasWork
  <2>3. DOMAIN accepted = {}
    BY <2>2
  <2>4. acceptor # "open"
    BY <2>2, <2>3 DEF AcceptLoopAlive
  <2>5. acceptor # "none"
    BY DEF Started, RunReturns
  <2> QED
    BY <2>4, <2>5 DEF TypeOK
<1> QED
  BY <1>1, <1>2

LEMMA PhasesStep ==
    ASSUME TypeOK, AcceptLoopAlive, Phases, [Next]_vars
    PROVE  Phases'
<1> USE StarterFacts DEF Phases, StoppedClosed, Started, RunningWhileOpen
<1>1. CASE Start
  BY <1>1 DEF Start, Restarted, TypeOK
<1>2. CASE Run \/ LockAgain \/ Join
  BY <1>2 DEF Run, LockAgain, Join, Goto, TypeOK
<1>3. ASSUME NEW t \in IoThreads, RunReturns(t)
      PROVE  Phases'
  <2>1. acceptor = "closed"
    BY <1>3, ReturnsClosed
  <2> QED
    BY <1>3, <2>1 DEF RunReturns
<1>4. ASSUME NEW t \in Threads, CallStop(t)
      PROVE  Phases'
  BY <1>4 DEF CallStop, RunsHandlers, IoThreads, Goto, TypeOK
<1>5. ASSUME NEW t \in Threads, Stop(t)
      PROVE  Phases'
  BY <1>5 DEF Stop, CloseAcceptor, IoThreads, Goto, TypeOK
<1>6. CASE StopAccept
  BY <1>6 DEF StopAccept, CloseAcceptor
<1>7. CASE UNCHANGED << pc, acceptor, service >>
  BY <1>7
<1>8. ASSUME NEW t \in IoThreads, Handlers(t)
      PROVE  UNCHANGED << pc, acceptor, service >>
  BY <1>8 DEF Handlers, AcceptHandler, HandshakeHandler, EndHandler
<1>9. ASSUME AcceptCompletes \/ UNCHANGED vars
      PROVE  UNCHANGED << pc, acceptor, service >>
  BY <1>9 DEF AcceptCompletes, vars
<1> QED
  BY <1>1, <1>2, <1>3, <1>4, <1>5, <1>6, <1>7, <1>8, <1>9 DEF Next, Starting

\* The inductive invariant.
LEMMA Invariance == Spec => []IInv
<1>1. Init => Phases
  BY StarterFacts DEF Init, Phases, StoppedClosed, Started, RunningWhileOpen
<1>2. TypeOK /\ AcceptLoopAlive /\ Phases /\ [Next]_vars => Phases'
  BY PhasesStep
<1>3. TypeOK /\ AcceptLoopAlive /\ ThreadsJoined /\ Phases => IInv
  BY DEF IInv
<1> QED
  BY <1>1, <1>2, <1>3, TypeCorrect, AcceptLoop, ThreadsAreJoined, PTL DEF Spec

\* RunningWhileOpen: a server that was started (again) serves until stop() is
\* called or its acceptor is closed.
THEOREM RunsWhileOpen == Spec => []RunningWhileOpen
<1>1. IInv => RunningWhileOpen
  BY DEF IInv, Phases
<1> QED
  BY <1>1, Invariance, PTL
=============================================================================
