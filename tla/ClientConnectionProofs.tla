------------------------ MODULE ClientConnectionProofs ------------------------
(***************************************************************************)
(* Proofs about ClientConnection for every set of io threads, every route, *)
(* every max_message_size, every payload length of 64 bits and any number  *)
(* of frames in both directions.                                           *)
(*                                                                         *)
(* As in ServerConnectionProofs, a connection is first shown to implement  *)
(* its send queue, so that what is proved of the queue holds in it (P).    *)
(* Here also a thread whose idle timer closes the connection (Timing) is   *)
(* idle for the queue, and the destructor stops the queue's scope.         *)
(***************************************************************************)
EXTENDS ClientConnection, FrameCodecProofs, CallbackProofs, SequenceTheorems, TLAPS

\* The io threads as the send queue sees them.
Quiet(r) == [t \in IoThreads |-> IF r[t] \in {Reading, Timing} THEN Q!Idle ELSE r[t]]

Senders == {Reader} \union IoThreads

P == INSTANCE SendQueueProofs
         WITH Callers <- Senders, IdleTimeout <- FALSE, MaxExpired <- 1, timer <- "off",
              expired <- 0, running <- Quiet(running)

\* What Quiet does not show of `running'.
ThreadTypes == running = [t \in IoThreads |-> running[t]]

LEMMA QueueAssumption == P!SendAssumption
  BY ClientAssumption DEF P!SendAssumption

\* The kinds of threads are told apart.
LEMMA Kinds ==
    /\ Q!Idle = P!Idle
    /\ Reading # Q!Idle /\ Timing # Q!Idle /\ Reading # Timing
    /\ Q!Idle.calls = << >> /\ Reading.calls = << >> /\ Timing.calls = << >>
    /\ \A calls, ok : P!Calling(calls, ok) \notin {Reading, Timing}
  BY DEF Q!Idle, P!Idle, Reading, Timing, P!Calling

-----------------------------------------------------------------------------
(* The send queue in a connection                                          *)

LEMMA QueueInit == Init => P!Init /\ ThreadTypes
<1>1. ASSUME Init PROVE Quiet(running) = [t \in IoThreads |-> P!Idle]
  BY <1>1, Kinds DEF Init, Q!Init, Quiet
<1>2. ASSUME Init PROVE ThreadTypes
  BY <1>2, Kinds DEF Init, Q!Init, ThreadTypes
<1> QED
  BY <1>1, <1>2 DEF Init, Q!Init, P!Init, Senders

\* To the queue it makes no difference that a thread reads, or times.
LEMMA QuietUpdate ==
    ASSUME ThreadTypes, NEW t \in IoThreads, NEW h,
           running' = [running EXCEPT ![t] = h]
    PROVE  /\ ThreadTypes'
           /\ Quiet(running)' =
                [Quiet(running) EXCEPT ![t] = IF h \in {Reading, Timing} THEN Q!Idle ELSE h]
<1>1. \A u \in IoThreads : running'[u] = IF u = t THEN h ELSE running[u]
  BY DEF ThreadTypes
<1>2. ThreadTypes'
  BY DEF ThreadTypes
<1>3. \A u \in IoThreads : Quiet(running')[u] =
          IF u = t THEN IF h \in {Reading, Timing} THEN Q!Idle ELSE h ELSE Quiet(running)[u]
  BY <1>1 DEF Quiet
<1> QED
  BY <1>2, <1>3 DEF Quiet

\* A thread enters a handler of the read side or of the timer, or leaves it.
Enters(t) == Q!FreeThread(t) /\ \E h \in {Reading, Timing} : running' = [running EXCEPT ![t] = h]
Returning(t) == running[t] \in {Reading, Timing} /\ running' = [running EXCEPT ![t] = Q!Idle]

LEMMA QuietMoves ==
    ASSUME ThreadTypes, NEW t \in IoThreads, Enters(t) \/ Returning(t)
    PROVE  ThreadTypes' /\ Quiet(running)' = Quiet(running)
<1>1. Quiet(running)[t] = Q!Idle
  BY Kinds DEF Quiet, Q!FreeThread, Enters, Returning
<1>2. [Quiet(running) EXCEPT ![t] = Q!Idle] = Quiet(running)
  BY <1>1 DEF Quiet
<1>3. PICK h \in {Reading, Timing, Q!Idle} : running' = [running EXCEPT ![t] = h]
  BY DEF Enters, Returning
<1>4. (IF h \in {Reading, Timing} THEN Q!Idle ELSE h) = Q!Idle
  BY <1>3
<1> QED
  BY <1>2, <1>3, <1>4, QuietUpdate

\* Nothing happens to the queue.
Aside ==
    /\ UNCHANGED << queueSide, socketUp, stopped >>
    /\ Quiet(running)' = Quiet(running)

LEMMA AsideStutters == Aside => UNCHANGED P!vars
  BY DEF Aside, queueSide, P!vars

\* What the lemmas below show of a step.
Mapped == ThreadTypes' /\ [P!Step]_(P!vars)

LEMMA Unmoved ==
    ASSUME ThreadTypes, UNCHANGED << queueSide, running, socketUp, stopped >>
    PROVE  Mapped
  BY AsideStutters DEF ThreadTypes, Aside, Mapped, Quiet

LEMMA Moved ==
    ASSUME ThreadTypes, UNCHANGED << queueSide, socketUp, stopped >>, NEW t \in IoThreads,
           Enters(t) \/ Returning(t)
    PROVE  Mapped
<1>1. ThreadTypes' /\ Aside
  BY QuietMoves DEF Aside
<1> QED
  BY <1>1, AsideStutters DEF Mapped

\* The phases of the connection.
LEMMA PhasesAside ==
    ASSUME ThreadTypes, NEW t \in IoThreads, Phases(t)
    PROVE  Mapped
<1>1. ASSUME NEW phase, NEW next, Proceed(t, phase, next)
      PROVE  Mapped
  BY <1>1, Unmoved DEF Proceed, unchangedByPhase
<1>2. ASSUME NEW phase, NEW outcomes, Refuse(t, phase, outcomes)
      PROVE  Mapped
  BY <1>2, Unmoved DEF Refuse, unchangedByPhase
<1>3. CASE OnResponse(t)
  BY <1>2, <1>3, Moved DEF OnResponse, StartHandler, Enters, unchangedByPhase
<1> QED
  BY <1>1, <1>2, <1>3 DEF Phases, OnResolved, OnConnected, OnProxyRequest, OnProxyResponse, OnTls,
     OnUpgrade

\* The handlers of the read loop, but for the last of a message.
LEMMA ReadsAside ==
    ASSUME ThreadTypes, NEW t \in IoThreads,
           \/ ReadFails(t) \/ StartRead(t) \/ OnEmptyRead(t) \/ OnHeader(t) \/ OnLength(t)
           \/ NoScope(t) \/ Returns(t)
    PROVE  Mapped
<1>1. CASE ReadFails(t) \/ StartRead(t) \/ OnEmptyRead(t) \/ NoScope(t)
  BY <1>1, Unmoved DEF ReadFails, StartRead, OnEmptyRead, NoScope, unchangedByRead
<1>2. CASE OnHeader(t)
  BY <1>2, Unmoved, Moved DEF OnHeader, StartHandler, ReadMessageContent, RefuseSize, Enters,
     unchangedByRead
<1>3. CASE OnLength(t)
  BY <1>3, Unmoved, Moved DEF OnLength, StartHandler, ReadMessageContent, RefuseSize, Enters,
     unchangedByRead
<1>4. CASE Returns(t)
  BY <1>4, Moved DEF Returns, ReturnFromCallback, ConnectionClose, Returning
<1> QED
  BY <1>1, <1>2, <1>3, <1>4

\* Putting a frame into the queue is the same with and without a timer.
LEMMA PutMapped ==
    ASSUME NEW opcode, Q!Put(opcode)
    PROVE  P!Enqueue(opcode)
  BY DEF Q!Put, P!Enqueue, P!Put, P!SetTimeout

\* Callers of send() and send_close().
LEMMA CallsMapped ==
    ASSUME ThreadTypes, NEW c \in Senders,
           Q!CallSend(c) \/ Q!TestCloseSent(c) \/ Q!SetCloseSent(c) \/ Q!SendClose(c)
    PROVE  Mapped
<1>1. running' = running
  BY DEF Q!CallSend, Q!TestCloseSent, Q!SetCloseSent, Q!SendClose
<1>2. ThreadTypes' /\ Quiet(running)' = Quiet(running)
  BY <1>1 DEF ThreadTypes, Quiet
<1>3. CASE Q!CallSend(c)
  <2>1. P!Enqueue("data")
    BY <1>3, PutMapped DEF Q!CallSend, Q!Enqueue
  <2>2. P!CallSend(c)
    BY <1>2, <1>3, <2>1 DEF Q!CallSend, P!CallSend
  <2> QED
    BY <1>2, <2>2 DEF Mapped, P!Step, P!EnqueueStep
<1>4. CASE Q!TestCloseSent(c)
  <2>1. P!TestCloseSent(c)
    BY <1>2, <1>4 DEF Q!TestCloseSent, P!TestCloseSent, Q!queueVars, P!queueVars, Q!timerVars,
       P!timerVars, Q!historyVars, P!historyVars
  <2> QED
    BY <1>2, <2>1 DEF Mapped, P!Step, P!QuietStep
<1>5. CASE Q!SetCloseSent(c)
  <2>1. P!SetCloseSent(c)
    BY <1>2, <1>5 DEF Q!SetCloseSent, P!SetCloseSent, Q!queueVars, P!queueVars, Q!timerVars,
       P!timerVars, Q!historyVars, P!historyVars
  <2> QED
    BY <1>2, <2>1 DEF Mapped, P!Step, P!QuietStep
<1>6. CASE Q!SendClose(c)
  <2>1. P!Enqueue("close")
    BY <1>6, PutMapped DEF Q!SendClose, Q!Enqueue
  <2>2. P!SendClose(c)
    BY <1>2, <1>6, <2>1 DEF Q!SendClose, P!SendClose
  <2> QED
    BY <1>2, <2>2 DEF Mapped, P!Step, P!EnqueueStep
<1> QED
  BY <1>3, <1>4, <1>5, <1>6

\* A close() of the socket, by whatever handler: when the socket was shut down
\* before and nothing was being written, it has no effect; nor has it before
\* the socket has a peer.
LEMMA CloseMapped ==
    ASSUME ThreadTypes, P!TypeOK, Q!CloseSocket \/ Close,
           UNCHANGED << sendQueue, closeSent, callerPc, posted, running, stopped, nextId,
                        wire, called >>
    PROVE  Mapped
<1>0. CASE UNCHANGED << socketUp, writing, completed >>
  BY <1>0, Unmoved DEF queueSide
<1>a. CASE Q!CloseSocket
  <2>1. P!CloseSocket
    BY <1>a DEF Q!CloseSocket, P!CloseSocket, Q!Failed, P!Failed
  <2>2. ThreadTypes' /\ Quiet(running)' = Quiet(running)
    BY DEF ThreadTypes, Quiet
  <2>3. CASE socketUp
    <3>1. P!CallClose
      BY <2>1, <2>2, <2>3 DEF P!CallClose, P!timerVars, P!historyVars
    <3> QED
      BY <2>2, <3>1 DEF Mapped, P!Step, P!CloseStep
  <2>4. CASE writing # << >>
    <3>1. P!SocketFails
      BY <2>1, <2>2, <2>4 DEF P!SocketFails, P!timerVars, P!historyVars
    <3> QED
      BY <2>2, <3>1 DEF Mapped, P!Step, P!CloseStep
  <2>5. CASE ~socketUp /\ writing = << >>
    <3>1. completed \in Seq(P!Done) /\ socketUp \in BOOLEAN
      BY DEF P!TypeOK, P!Done
    <3>2. Q!Failed(writing) = << >>
      BY <2>5 DEF Q!Failed
    <3>3. completed' = completed /\ socketUp' = socketUp /\ writing' = writing
      BY <1>a, <2>5, <3>1, <3>2, ConcatEmptySeq DEF Q!CloseSocket
    <3> QED
      BY <1>0, <3>3
  <2> QED
    BY <2>3, <2>4, <2>5
<1> QED
  BY <1>0, <1>a DEF Close

\* What the socket does, and the idle timer.
LEMMA SocketMapped ==
    ASSUME ThreadTypes, P!TypeOK, Q!SocketWrites \/ Q!SocketFails \/ Q!TimerExpires
    PROVE  Mapped
<1>1. CASE Q!SocketWrites
  <2>1. ThreadTypes' /\ Quiet(running)' = Quiet(running)
    BY <1>1 DEF ThreadTypes, Quiet, Q!SocketWrites
  <2>2. P!SocketWrites
    BY <1>1, <2>1 DEF Q!SocketWrites, P!SocketWrites, P!timerVars
  <2> QED
    BY <2>1, <2>2 DEF Mapped, P!Step
<1>2. CASE Q!SocketFails
  BY <1>2, CloseMapped DEF Q!SocketFails, Q!historyVars
<1>3. CASE Q!TimerExpires
  BY <1>3, Unmoved DEF Q!TimerExpires, queueSide, Q!queueVars, Q!historyVars
<1> QED
  BY <1>1, <1>2, <1>3

\* Write handlers.
LEMMA WritesMapped ==
    ASSUME ThreadTypes, P!TypeOK, NEW t \in IoThreads,
           Q!StartWrite(t) \/ Q!WriteHandler(t) \/ Q!RunCallback(t)
    PROVE  Mapped
<1>1. Q!FreeThread(t) => P!FreeThread(t)
  BY Kinds DEF Q!FreeThread, P!FreeThread, Quiet
<1>2. CASE Q!StartWrite(t)
  <2>1. ThreadTypes' /\ Quiet(running)' = Quiet(running)
    BY <1>2 DEF ThreadTypes, Quiet, Q!StartWrite
  <2>2. P!StartWrite(t)
    BY <1>1, <1>2, <2>1 DEF Q!StartWrite, P!StartWrite, Q!ScopeRefuses, P!ScopeRefuses,
       P!timerVars, Q!historyVars, P!historyVars
  <2> QED
    BY <2>1, <2>2 DEF Mapped, P!Step
<1>3. CASE Q!WriteHandler(t)
  <2>1. ASSUME NEW q, NEW calls, NEW next, Q!EndWrite(t, q, calls, next)
        PROVE  ThreadTypes' /\ P!EndWrite(t, q, calls, next)
    <3>1. CASE stopped
      <4>1. ThreadTypes' /\ Quiet(running)' = Quiet(running)
        BY <2>1, <3>1 DEF ThreadTypes, Quiet, Q!EndWrite, Q!ScopeRefuses
      <4> QED
        BY <1>1, <2>1, <3>1, <4>1 DEF Q!EndWrite, P!EndWrite, Q!ScopeRefuses, P!ScopeRefuses,
           P!SetTimeout, Q!historyVars, P!historyVars
    <3>2. CASE ~stopped
      <4>. DEFINE h == P!Calling(calls, Head(completed).ok)
      <4>1. running' = [running EXCEPT ![t] = h]
        BY <2>1, <3>2 DEF Q!EndWrite, Q!ScopeRefuses, Q!Calling, P!Calling
      <4>2. h \notin {Reading, Timing}
        BY Kinds
      <4>. HIDE DEF h
      <4>3. ThreadTypes' /\ Quiet(running)' = [Quiet(running) EXCEPT ![t] = h]
        BY <4>1, <4>2, QuietUpdate
      <4> QED
        BY <1>1, <2>1, <3>2, <4>3 DEF h, Q!EndWrite, P!EndWrite, Q!ScopeRefuses,
           P!ScopeRefuses, P!SetTimeout, Q!historyVars, P!historyVars
    <3> QED
      BY <3>1, <3>2
  <2>2. Q!Ids(sendQueue) = P!Ids(sendQueue)
    BY DEF Q!Ids, P!Ids
  <2>3. \A q : Q!Front(q) = P!Front(q)
    BY DEF Q!Front, P!Front
  <2>4. ThreadTypes' /\ P!WriteHandler(t)
    BY <1>3, <2>1, <2>2, <2>3 DEF Q!WriteHandler, P!WriteHandler, Q!WriteEnded, P!WriteEnded
  <2> QED
    BY <2>4 DEF Mapped, P!Step
<1>4. CASE Q!RunCallback(t)
  <2>1. Quiet(running)[t] = running[t]
    BY <1>4, Kinds DEF Quiet, Q!RunCallback
  <2>2. Q!AfterCallback(running[t]) = P!AfterCallback(running[t])
    BY DEF Q!AfterCallback, P!AfterCallback, Q!Idle, P!Idle, Q!Calling, P!Calling
  <2>3. P!AfterCallback(running[t]) \notin {Reading, Timing}
    BY Kinds DEF P!AfterCallback
  <2>4. ThreadTypes' /\ Quiet(running)' = [Quiet(running) EXCEPT ![t] = P!AfterCallback(running[t])]
    BY <1>4, <2>2, <2>3, QuietUpdate DEF Q!RunCallback
  <2>5. Q!Answer(t) = P!Answer(t)
    BY <2>1 DEF Q!Answer, P!Answer
  <2>6. P!RunCallback(t)
    BY <1>4, <2>1, <2>4, <2>5 DEF Q!RunCallback, P!RunCallback, Q!queueVars, P!queueVars, P!timerVars,
       Q!timerVars
  <2> QED
    BY <2>4, <2>6 DEF Mapped, P!Step
<1> QED
  BY <1>2, <1>3, <1>4

\* The read side calls send() and send_close() only in its own handlers, and
\* an io thread send_close() only in the one of the idle timer.
OwnCalls ==
    /\ callerPc[Reader] # "idle" => chain \in {"callback", "closing"}
    /\ \A t \in IoThreads : callerPc[t] # "idle" => running[t] = Timing

\* The last handler of a message.
LEMMA ContentMapped ==
    ASSUME ThreadTypes, OwnCalls, NEW t \in IoThreads, OnContent(t)
    PROVE  Mapped
<1>1. /\ UNCHANGED << closeSent, callerPc, writing, completed, expired, socketUp, stopped, wire,
                      called >>
      /\ Q!FreeThread(t) /\ chain = "content"
  BY DEF OnContent, StartHandler
<1>2. CASE OnCloseFrame(t) \/ OnMessage(t)
  BY <1>1, <1>2, Moved DEF OnCloseFrame, OnMessage, queueSide, Enters
<1>3. CASE OnPong \/ OnFragment
  BY <1>1, <1>3, Unmoved DEF OnPong, OnFragment, queueSide
<1>4. CASE OnPing
  <2>1. ThreadTypes' /\ Quiet(running)' = Quiet(running)
    BY <1>4 DEF OnPing, ThreadTypes, Quiet
  <2>2. P!Enqueue("data")
    BY <1>4, PutMapped DEF OnPing
  <2>3. P!CallSend(Reader)
    BY <1>1, <2>1, <2>2 DEF P!CallSend, OwnCalls
  <2> QED
    BY <2>1, <2>3 DEF Mapped, P!Step, P!EnqueueStep, Senders
<1> QED
  BY <1>2, <1>3, <1>4 DEF OnContent

\* Every step of a connection is a step of its queue, or none.
LEMMA QueueSteps ==
    ASSUME ThreadTypes, OwnCalls, P!TypeOK, [Next]_vars
    PROVE  Mapped
<1>1. ASSUME NEW t \in IoThreads, Handlers(t)
      PROVE  Mapped
  BY <1>1, PhasesAside, ReadsAside, ContentMapped DEF Handlers, ReadLoop
<1>2. ASSUME NEW t \in IoThreads, WriteSide(t)
      PROVE  Mapped
  BY <1>2, WritesMapped DEF WriteSide
<1>3. ASSUME NEW t \in IoThreads, Timers(t)
      PROVE  Mapped
  <2>1. CASE OnRequestTimeout(t)
    BY <2>1, CloseMapped DEF OnRequestTimeout
  <2>2. CASE OnIdleTimeout(t)
    <3>1. CASE Close /\ UNCHANGED running
      BY <2>2, <3>1, CloseMapped DEF OnIdleTimeout
    <3>2. CASE Enters(t) /\ UNCHANGED << socketUp, writing, completed >>
      BY <2>2, <3>2, Moved DEF OnIdleTimeout, queueSide
    <3> QED
      BY <2>2, <3>1, <3>2 DEF OnIdleTimeout, Enters
  <2>3. CASE TimerCloses(t)
    BY <2>3, CallsMapped, Moved DEF TimerCloses, Returning, Senders
  <2> QED
    BY <1>3, <2>1, <2>2, <2>3 DEF Timers
<1>4. CASE ReaderCalls
  <2>1. CASE Q!CallSend(Reader) \/ Q!TestCloseSent(Reader)
    BY <2>1, CallsMapped DEF Senders
  <2>2. CASE Q!CallClose
    BY <2>2, CloseMapped DEF Q!CallClose, Q!timerVars, Q!historyVars
  <2> QED
    BY <1>4, <2>1, <2>2 DEF ReaderCalls
<1>5. CASE ReaderCloses
  <2>1. CASE CloseAlreadySent
    BY <2>1, Unmoved DEF CloseAlreadySent
  <2>2. CASE ReaderSetsClose \/ ReaderSendsClose
    BY <2>2, CallsMapped DEF ReaderSetsClose, ReaderSendsClose, Senders
  <2> QED
    BY <1>5, <2>1, <2>2 DEF ReaderCloses
<1>6. CASE Stop
  BY <1>6, CloseMapped DEF Stop
<1>7. CASE Destroy
  <2>1. ThreadTypes' /\ Quiet(running)' = Quiet(running)
    BY <1>7 DEF Destroy, ThreadTypes, Quiet
  <2>2. \A t \in IoThreads : P!FreeThread(t)
    BY <1>7, Kinds DEF Destroy, P!FreeThread, Quiet
  <2>3. P!StopRunner
    BY <1>7, <2>1, <2>2 DEF Destroy, P!StopRunner, queueSide, P!queueVars, P!timerVars, P!historyVars
  <2> QED
    BY <2>1, <2>3 DEF Mapped, P!Step
<1>8. CASE SocketNext
  BY <1>8, SocketMapped DEF SocketNext
<1>9. CASE IdleTimerExpires
  BY <1>9, SocketMapped DEF IdleTimerExpires
<1>10. CASE Start \/ HeaderArrives \/ EmptyRead \/ RequestTimerExpires \/ UNCHANGED vars
  BY <1>10, Unmoved DEF Start, HeaderArrives, EmptyRead, RequestTimerExpires, vars
<1>11. CASE Arrives \/ Fails
  BY <1>11, Unmoved DEF Arrives, Fails, Completes
<1> QED
  BY <1>1, <1>2, <1>3, <1>4, <1>5, <1>6, <1>7, <1>8, <1>9, <1>10, <1>11 DEF Next

-----------------------------------------------------------------------------
(* The thread of the read side                                             *)

\* The chain begins with start().
Started == client = "new" <=> chain = "none"

LEMMA StartedStep ==
    ASSUME Started, [Next]_vars
    PROVE  Started'
<1> USE DEF Started
<1>1. ASSUME NEW t \in IoThreads, Phases(t)
      PROVE  Started'
  <2>1. ASSUME NEW phase \in Connecting, NEW next \in Connecting, Proceed(t, phase, next)
        PROVE  Started'
    BY <2>1 DEF Proceed, unchangedByPhase, Connecting
  <2>2. ASSUME NEW phase \in Connecting, NEW outcomes, Refuse(t, phase, outcomes)
        PROVE  Started'
    BY <2>2 DEF Refuse, ConnectionError, unchangedByPhase, Connecting
  <2>3. CASE OnResponse(t)
    BY <2>2, <2>3 DEF OnResponse, unchangedByPhase, Connecting
  <2> QED
    BY <1>1, <2>1, <2>2, <2>3 DEF Phases, OnResolved, OnConnected, OnProxyRequest, OnProxyResponse,
       OnTls, OnUpgrade, Connecting
<1>2. ASSUME NEW t \in IoThreads, ReadLoop(t) \/ Returns(t)
      PROVE  Started'
  BY <1>2 DEF ReadLoop, ReadFails, StartRead, OnEmptyRead, OnHeader, OnLength, OnContent, Returns,
     ReturnFromCallback, ConnectionClose, ConnectionError, ReadMessage, ReadMessageContent,
     RefuseSize, OnCloseFrame, OnPing, OnPong, OnFragment, OnMessage, Reads, unchangedByRead
<1>3. ASSUME NEW t \in IoThreads, NoScope(t) \/ WriteSide(t) \/ Timers(t)
      PROVE  Started'
  BY <1>3 DEF NoScope, WriteSide, Timers, OnRequestTimeout, OnIdleTimeout, TimerCloses, readSide,
     IoRuns
<1>4. CASE Start \/ Stop \/ Destroy \/ ReaderCalls \/ ReaderCloses
  BY <1>4 DEF Start, Stop, Destroy, ReaderCalls, ReaderCloses, CloseAlreadySent, ReaderSetsClose,
     ReaderSendsClose, readSide
<1>5. CASE HeaderArrives \/ EmptyRead \/ Arrives \/ Fails \/ RequestTimerExpires
             \/ IdleTimerExpires \/ SocketNext \/ UNCHANGED vars
  BY <1>5 DEF HeaderArrives, EmptyRead, Arrives, Fails, Completes, RequestTimerExpires,
     IdleTimerExpires, SocketNext, vars, readSide
<1> QED
  BY <1>1, <1>2, <1>3, <1>4, <1>5 DEF Next, Handlers

\* The chain is in a handler which takes several steps.
Busy == {"callback", "closing", "closed"}

\* Such a handler has one thread, and holds a lock of the scope.
OneReader ==
    /\ \A t, v \in IoThreads : running[t] = Reading /\ running[v] = Reading => t = v
    /\ chain \in Busy <=> \E t \in IoThreads : running[t] = Reading
    /\ stopped => chain \notin Busy

Begins(t) ==
    /\ Q!FreeThread(t)
    /\ chain \notin Busy
    /\ chain' \in Busy
    /\ ~stopped /\ stopped' = stopped
    /\ running' = [running EXCEPT ![t] = Reading]

Leaves(t) ==
    /\ running[t] = Reading
    /\ chain' \notin Busy
    /\ running' = [running EXCEPT ![t] = Q!Idle]

Remains ==
    /\ chain' \in Busy <=> chain \in Busy
    /\ \A t \in IoThreads : running'[t] = Reading <=> running[t] = Reading
    /\ stopped' => stopped \/ \A t \in IoThreads : running[t] # Reading

\* The handlers of the read side begin and leave as they should.
LEMMA PhaseMoves ==
    ASSUME NEW t \in IoThreads, Phases(t)
    PROVE  Begins(t) \/ Remains
<1> USE DEF Begins, Remains, Busy, StartHandler
<1>1. ASSUME NEW phase \in Connecting, NEW next \in Connecting, Proceed(t, phase, next)
      PROVE  Remains
  BY <1>1 DEF Proceed, unchangedByPhase, Connecting
<1>2. ASSUME NEW phase \in Connecting, NEW outcomes, Refuse(t, phase, outcomes)
      PROVE  Remains
  BY <1>2 DEF Refuse, ConnectionError, unchangedByPhase, Connecting
<1>3. CASE OnResponse(t)
  BY <1>2, <1>3 DEF OnResponse, Scope, unchangedByPhase, Connecting
<1> QED
  BY <1>1, <1>2, <1>3 DEF Phases, OnResolved, OnConnected, OnProxyRequest, OnProxyResponse, OnTls,
     OnUpgrade, Connecting

LEMMA ReaderMoves ==
    ASSUME OneReader, NEW t \in IoThreads, Handlers(t)
    PROVE  Begins(t) \/ Leaves(t) \/ Remains
<1> USE DEF Begins, Leaves, Remains, Busy, StartHandler, Scope, unchangedByRead
<1>1. CASE ReadFails(t) \/ StartRead(t) \/ OnEmptyRead(t)
  BY <1>1 DEF ReadFails, StartRead, OnEmptyRead, ConnectionError, ReadMessage, Reads
<1>2. CASE OnHeader(t)
  BY <1>2 DEF OnHeader, ReadMessageContent, RefuseSize
<1>3. CASE OnLength(t)
  BY <1>3 DEF OnLength, ReadMessageContent, RefuseSize
<1>4. CASE OnContent(t)
  BY <1>4 DEF OnContent, OnCloseFrame, OnPing, OnPong, OnFragment, OnMessage, ReadMessage
<1>5. CASE NoScope(t)
  BY <1>5 DEF NoScope, OneReader
<1>6. CASE Returns(t)
  BY <1>6 DEF Returns, ReturnFromCallback, ConnectionClose, ReadMessage
<1> QED
  BY <1>1, <1>2, <1>3, <1>4, <1>5, <1>6, PhaseMoves DEF Handlers, ReadLoop

\* A handler which is none of the read side before or after.
LEMMA OthersRemain ==
    ASSUME ThreadTypes, NEW t \in IoThreads, NEW h, h # Reading, running[t] # Reading,
           running' = [running EXCEPT ![t] = h], UNCHANGED << chain, stopped >>
    PROVE  Remains
  BY DEF Remains, ThreadTypes

LEMMA WritesRemain ==
    ASSUME ThreadTypes, NEW t \in IoThreads, WriteSide(t)
    PROVE  Remains
<1>1. chain' = chain /\ stopped' = stopped
  BY DEF WriteSide, readSide, Q!StartWrite, Q!WriteHandler, Q!EndWrite, Q!RunCallback
<1>2. CASE UNCHANGED running
  BY <1>1, <1>2 DEF Remains
<1>3. CASE Q!StartWrite(t)
  BY <1>2, <1>3 DEF Q!StartWrite
<1>4. CASE Q!WriteHandler(t)
  <2>1. running[t] # Reading
    BY <1>4, Kinds DEF Q!WriteHandler, Q!EndWrite, Q!FreeThread
  <2>2. UNCHANGED running \/ \E calls, ok : running' = [running EXCEPT ![t] = P!Calling(calls, ok)]
    BY <1>4 DEF Q!WriteHandler, Q!EndWrite, Q!Calling, P!Calling
  <2>3. ASSUME NEW calls, NEW ok, running' = [running EXCEPT ![t] = P!Calling(calls, ok)]
        PROVE  Remains
    <3>. DEFINE h == P!Calling(calls, ok)
    <3>1. h # Reading
      BY Kinds
    <3>2. running' = [running EXCEPT ![t] = h]
      BY <2>3
    <3>. HIDE DEF h
    <3> QED
      BY <1>1, <2>1, <3>1, <3>2, OthersRemain
  <2> QED
    BY <1>2, <2>2, <2>3
<1>5. CASE Q!RunCallback(t)
  <2>1. running[t] # Reading
    BY <1>5, Kinds DEF Q!RunCallback
  <2>2. Q!AfterCallback(running[t]) # Reading
    BY Kinds DEF Q!AfterCallback, Q!Calling, P!Calling
  <2> QED
    BY <1>1, <1>5, <2>1, <2>2, OthersRemain DEF Q!RunCallback
<1> QED
  BY <1>3, <1>4, <1>5 DEF WriteSide

LEMMA TimersRemain ==
    ASSUME ThreadTypes, NEW t \in IoThreads, Timers(t)
    PROVE  Remains
<1>1. chain' = chain /\ stopped' = stopped
  BY DEF Timers, OnRequestTimeout, OnIdleTimeout, TimerCloses, readSide, Q!TestCloseSent,
     Q!SetCloseSent, Q!SendClose
<1>2. CASE UNCHANGED running
  BY <1>1, <1>2 DEF Remains
<1>3. CASE Q!FreeThread(t) /\ running' = [running EXCEPT ![t] = Timing]
  BY <1>1, <1>3, OthersRemain, Kinds DEF Q!FreeThread
<1>4. CASE running[t] = Timing /\ running' = [running EXCEPT ![t] = Q!Idle]
  BY <1>1, <1>4, OthersRemain, Kinds
<1> QED
  BY <1>2, <1>3, <1>4 DEF Timers, OnRequestTimeout, OnIdleTimeout, TimerCloses, Q!TestCloseSent,
     Q!SetCloseSent, Q!SendClose

\* Where the chain and the thread go in a step.
LEMMA ReaderCases ==
    ASSUME ThreadTypes, Started, OneReader, [Next]_vars
    PROVE  Remains \/ \E t \in IoThreads : Begins(t) \/ Leaves(t)
<1>1. ASSUME NEW t \in IoThreads, Handlers(t) \/ WriteSide(t) \/ Timers(t)
      PROVE  Begins(t) \/ Leaves(t) \/ Remains
  BY <1>1, ReaderMoves, WritesRemain, TimersRemain
<1>2. CASE ReaderCalls \/ ReaderCloses
  BY <1>2 DEF ReaderCalls, ReaderCloses, CloseAlreadySent, ReaderSetsClose, ReaderSendsClose,
     Q!CallSend, Q!TestCloseSent, Q!SetCloseSent, Q!SendClose, Q!CallClose, Remains, Busy, readSide
<1>3. CASE Start
  BY <1>3 DEF Start, Started, Remains, Busy
<1>4. CASE Destroy
  BY <1>4, Kinds DEF Destroy, Remains, readSide
<1>5. CASE Stop \/ SocketNext \/ IdleTimerExpires \/ RequestTimerExpires
  BY <1>5 DEF Stop, SocketNext, IdleTimerExpires, RequestTimerExpires, Q!SocketWrites,
     Q!SocketFails, Q!TimerExpires, Remains, readSide
<1>6. CASE HeaderArrives \/ EmptyRead \/ Arrives \/ Fails \/ UNCHANGED vars
  BY <1>6 DEF HeaderArrives, EmptyRead, Arrives, Fails, Completes, vars, readSide, Remains
<1> QED
  BY <1>1, <1>2, <1>3, <1>4, <1>5, <1>6 DEF Next

LEMMA OneReaderStep ==
    ASSUME ThreadTypes, Started, OneReader, [Next]_vars
    PROVE  OneReader'
<1>1. CASE Remains
  BY <1>1 DEF Remains, OneReader
<1>2. ASSUME NEW t \in IoThreads, Begins(t)
      PROVE  OneReader'
  <2>1. \A u \in IoThreads : running'[u] = IF u = t THEN Reading ELSE running[u]
    BY <1>2 DEF Begins, ThreadTypes
  <2> QED
    BY <1>2, <2>1 DEF Begins, OneReader
<1>3. ASSUME NEW t \in IoThreads, Leaves(t)
      PROVE  OneReader'
  <2>1. \A u \in IoThreads : running'[u] = IF u = t THEN Q!Idle ELSE running[u]
    BY <1>3 DEF Leaves, ThreadTypes
  <2> QED
    BY <1>3, <2>1, Kinds DEF Leaves, OneReader
<1> QED
  BY <1>1, <1>2, <1>3, ReaderCases

\* Handlers leave send_close() alone: a thread which starts one is in no other,
\* and one which ends has no call of send_close() left.
LEMMA OwnCallsKept ==
    ASSUME ThreadTypes, OwnCalls, UNCHANGED callerPc,
           \/ chain' = chain
           \/ callerPc[Reader] = "idle"
           \/ chain = "closed"
           \/ chain \notin Busy,
           \/ UNCHANGED running
           \/ \E t \in IoThreads : \E h : running[t] # Timing /\ running' = [running EXCEPT ![t] = h]
           \/ \E t \in IoThreads : \E h : callerPc[t] = "idle" /\ running' = [running EXCEPT ![t] = h]
    PROVE  OwnCalls'
<1>1. callerPc'[Reader] # "idle" => chain' \in {"callback", "closing"}
  BY DEF OwnCalls, Busy
<1>2. ASSUME NEW u \in IoThreads, callerPc'[u] # "idle"
      PROVE  running'[u] = Timing
  BY <1>2 DEF OwnCalls, ThreadTypes
<1> QED
  BY <1>1, <1>2 DEF OwnCalls

LEMMA OwnCallsStep ==
    ASSUME ThreadTypes, P!TypeOK, Started, OneReader, OwnCalls, [Next]_vars
    PROVE  OwnCalls'
<1> USE OwnCallsKept, Kinds DEF Q!FreeThread, queueSide
<1>a. callerPc \in [Senders -> {"idle", "setting", "sending"}] /\ Reader \notin IoThreads
  BY ClientAssumption DEF P!TypeOK
<1>1. ASSUME NEW t \in IoThreads, Phases(t)
      PROVE  OwnCalls'
  <2>1. ASSUME NEW phase \in Connecting, NEW next, Proceed(t, phase, next)
        PROVE  OwnCalls'
    BY <2>1 DEF Proceed, unchangedByPhase, Connecting, Busy
  <2>2. ASSUME NEW phase \in Connecting, NEW outcomes, Refuse(t, phase, outcomes)
        PROVE  OwnCalls'
    BY <2>2 DEF Refuse, ConnectionError, unchangedByPhase, Connecting, Busy
  <2>3. CASE OnResponse(t)
    BY <2>2, <2>3 DEF OnResponse, StartHandler, unchangedByPhase, Connecting, Busy
  <2> QED
    BY <1>1, <2>1, <2>2, <2>3 DEF Phases, OnResolved, OnConnected, OnProxyRequest, OnProxyResponse,
       OnTls, OnUpgrade, Connecting
<1>2. ASSUME NEW t \in IoThreads, ReadFails(t) \/ StartRead(t) \/ OnEmptyRead(t)
      PROVE  OwnCalls'
  BY <1>2 DEF ReadFails, StartRead, OnEmptyRead, StartHandler, Reads, Busy, unchangedByRead
<1>3. ASSUME NEW t \in IoThreads, OnHeader(t) \/ OnLength(t)
      PROVE  OwnCalls'
  BY <1>3 DEF OnHeader, OnLength, StartHandler, ReadMessageContent, RefuseSize, Busy, unchangedByRead
<1>4. ASSUME NEW t \in IoThreads, OnContent(t)
      PROVE  OwnCalls'
  BY <1>4 DEF OnContent, StartHandler, OnCloseFrame, OnPing, OnPong, OnFragment, OnMessage, Busy
<1>5. ASSUME NEW t \in IoThreads, Returns(t)
      PROVE  OwnCalls'
  BY <1>5 DEF Returns, ReturnFromCallback, ConnectionClose
<1>6. ASSUME NEW t \in IoThreads, NoScope(t)
      PROVE  OwnCalls'
  BY <1>6 DEF NoScope, Scope, OneReader
<1>7. ASSUME NEW t \in IoThreads, WriteSide(t)
      PROVE  OwnCalls'
  <2>1. UNCHANGED << chain, callerPc >>
    BY <1>7 DEF WriteSide, readSide, Q!StartWrite, Q!WriteHandler, Q!EndWrite, Q!RunCallback
  <2>2. UNCHANGED running \/ \E h : running[t] # Timing /\ running' = [running EXCEPT ![t] = h]
    BY <1>7 DEF WriteSide, Q!StartWrite, Q!WriteHandler, Q!EndWrite, Q!RunCallback
  <2> QED
    BY <2>1, <2>2
<1>8. ASSUME NEW t \in IoThreads, Timers(t)
      PROVE  OwnCalls'
  <2>1. CASE OnRequestTimeout(t) \/ OnIdleTimeout(t)
    BY <2>1 DEF OnRequestTimeout, OnIdleTimeout, readSide
  <2>2. CASE TimerCloses(t) /\ UNCHANGED callerPc
    BY <2>2 DEF TimerCloses, readSide, Q!TestCloseSent, Q!SetCloseSent, Q!SendClose
  <2>3. CASE running[t] = Timing /\ UNCHANGED << chain, running >>
               /\ (Q!TestCloseSent(t) \/ Q!SetCloseSent(t) \/ Q!SendClose(t))
    BY <1>a, <2>3 DEF OwnCalls, Q!TestCloseSent, Q!SetCloseSent, Q!SendClose, Senders
  <2> QED
    BY <1>8, <2>1, <2>2, <2>3 DEF Timers, TimerCloses, readSide, Q!TestCloseSent, Q!SetCloseSent,
       Q!SendClose
<1>9. CASE ReaderCalls \/ ReaderSetsClose \/ ReaderSendsClose
  BY <1>a, <1>9 DEF ReaderCalls, ReaderSetsClose, ReaderSendsClose, OwnCalls, Q!CallSend,
     Q!CallClose, Q!TestCloseSent, Q!SetCloseSent, Q!SendClose, readSide, Senders
<1>10. CASE CloseAlreadySent \/ Start \/ Stop \/ Destroy
  BY <1>10 DEF CloseAlreadySent, Start, Started, Stop, Destroy, Busy, readSide
<1>11. CASE HeaderArrives \/ EmptyRead \/ Arrives \/ Fails \/ RequestTimerExpires
             \/ IdleTimerExpires \/ SocketNext \/ UNCHANGED vars
  BY <1>11 DEF HeaderArrives, EmptyRead, Arrives, Fails, Completes, RequestTimerExpires,
     IdleTimerExpires, SocketNext, Q!TimerExpires, Q!SocketWrites, Q!SocketFails, vars, readSide
<1> QED
  BY <1>1, <1>2, <1>3, <1>4, <1>5, <1>6, <1>7, <1>8, <1>9, <1>10, <1>11
     DEF Next, Handlers, ReadLoop, ReaderCloses

-----------------------------------------------------------------------------
(* The bytes of the stream                                                 *)

FrameOfServer == [no : Nat, type : DataTypes \union ControlTypes, length : Lengths \union {0}]

\* What the client reads in the header of a frame.
LEMMA HeaderRead ==
    ASSUME NEW f \in FrameOfServer
    PROVE  LET header == HeaderOf(f)
               code == CodeOf(header[2])
           IN  /\ ReadLength(header) = f.length
               /\ IsMasked(header[2]) <=> f.type = "masked"
               /\ code \notin {126, 127} => code = f.length
<1>. DEFINE header == HeaderOf(f)
            code == CodeOf(header[2])
            sender == IF f.type = "masked" THEN "client" ELSE "server"
<1>1. sender \in {"server", "client"} /\ (sender = "client" <=> f.type = "masked")
  OBVIOUS
<1>2. Opcodes[f.type] \in Byte
  BY DEF FrameOfServer, Opcodes, DataTypes, ControlTypes, Byte
<1>3. f.length \in Nat /\ Fits(f.length)
  <2>1. CASE f.length \in Lengths
    BY <2>1, ClientAssumption
  <2>2. CASE f.length = 0
    <3>1. High(0) = 0
      BY DEF High
    <3> QED
      BY <2>2, <3>1 DEF Fits, Byte
  <2> QED
    BY <2>1, <2>2 DEF FrameOfServer
<1>4. header = Header(sender, Opcodes[f.type], f.length)
  BY DEF HeaderOf
<1>5. ReadLength(header) = f.length /\ (IsMasked(header[2]) <=> sender = "client")
  <2>. HIDE DEF sender, header
  <2> QED
    BY <1>1, <1>2, <1>3, <1>4, HeaderReadBack
<1>6. ASSUME code \notin {126, 127} PROVE ReadLength(header) = code
  <2>1. code # 126 /\ code # 127
    BY <1>6
  <2> QED
    BY <2>1, Zenon DEF ReadLength
<1> QED
  BY <1>1, <1>5, <1>6

\* The number of bytes in the streambuf is known.
Counted == buffer \in Nat /\ additional = buffer

LEMMA CountedStep ==
    ASSUME Counted, length \in Nat, chain \in Reads, Consume
    PROVE  Counted'
<1>1. Needed \in Nat
  <2>1. CASE chain = "header"
    BY <2>1 DEF Needed
  <2>2. CASE chain = "length"
    <3>1. Needed = ExtensionSize(CodeOf(HeaderOf(frame)[2]))
      BY <2>2 DEF Needed
    <3>2. \A code : ExtensionSize(code) \in Nat
      BY DEF ExtensionSize
    <3> QED
      BY <3>1, <3>2
  <2>3. CASE chain = "content"
    BY <2>3 DEF Needed
  <2> QED
    BY <2>1, <2>2, <2>3 DEF Reads
<1> QED
  BY <1>1 DEF Counted, Consume, Missing, Rest

\* A frame was received whose handlers are not done with it.
InHand == (chain = "header" /\ arrived = "ok") \/ chain \in {"length", "content"}

FragmentTypes ==
    fragment \in [frames : Seq(1..MaxPeerFrames), length : 0..SizeModulus - 1]

\* Types, and what the handlers know of the frame they read.
ReadTypes ==
    /\ client \in {"new", "started", "stopped"}
    /\ chain \in Chains
    /\ arrived \in {"none", "ok", "empty", "error"}
    /\ arrived # "none" => chain \in Connecting \union Reads
    /\ arrived = "empty" => chain = "header" /\ buffer = 0
    /\ received \in 0..MaxPeerFrames
    /\ frame \in FrameOfServer
    /\ InHand => frame.no \in 1..MaxPeerFrames
    /\ chain \in {"length", "content"} => frame.type # "masked"
    /\ length \in Nat
    /\ chain = "content" => length = frame.length
    /\ FragmentTypes
    /\ Counted

\* Steps which read no bytes.
LEMMA ReadKept ==
    ASSUME ReadTypes, UNCHANGED << inMessage, fragment, received >>,
           client' \in {"new", "started", "stopped"}, chain' \in Chains,
           arrived' \in {"none", arrived},
           arrived' # "none" => chain' = chain,
           chain' \in {"length", "content"} => chain' = chain
    PROVE  ReadTypes'
<1>1. FragmentTypes' /\ Counted' /\ FrameOfServer = FrameOfServer
  BY DEF ReadTypes, FragmentTypes, Counted, inMessage
<1> QED
  BY <1>1 DEF ReadTypes, InHand, inMessage

\* The payload of a frame follows its header, or an ending does.
LEMMA ContentTypes ==
    ASSUME ReadTypes, Counted', NEW t, ReadMessageContent(t, length'), length' = frame.length,
           UNCHANGED << fragment, frame, received, client >>, arrived' = "none",
           chain \in {"header", "length"}, InHand, frame.type # "masked"
    PROVE  ReadTypes'
<1>1. FragmentTypes'
  BY DEF ReadTypes, FragmentTypes
<1>3. length' \in Nat
  BY ClientAssumption DEF ReadTypes, FrameOfServer
<1>2. chain' \in {"content", "closing"}
  BY DEF ReadMessageContent, RefuseSize
<1> QED
  BY <1>1, <1>2, <1>3 DEF ReadTypes, InHand, Chains, Reads

\* The handlers of a header and of its length.
LEMMA HeaderTypes ==
    ASSUME ReadTypes, NEW t \in IoThreads, OnHeader(t)
    PROVE  ReadTypes'
<1>. DEFINE second == HeaderOf(frame)[2]
            code == CodeOf(second)
<1>1. /\ IsMasked(second) <=> frame.type = "masked"
      /\ code \notin {126, 127} => code = frame.length
  BY HeaderRead DEF ReadTypes
<1>2. /\ chain = "header" /\ arrived = "ok" /\ arrived' = "none" /\ InHand
      /\ UNCHANGED << fragment, frame, received, client >>
  BY DEF OnHeader, StartHandler, unchangedByRead, peerSide, InHand
<1>3. Counted'
  BY <1>2, CountedStep DEF OnHeader, ReadTypes, Reads
<1>4. FragmentTypes' /\ frame' \in FrameOfServer
  BY <1>2 DEF ReadTypes, FragmentTypes
<1>5. CASE IsMasked(second) /\ chain' = "closing" /\ UNCHANGED length
  BY <1>2, <1>3, <1>4, <1>5 DEF ReadTypes, InHand, Chains, Reads
<1>6. CASE ~IsMasked(second) /\ chain' = "length" /\ UNCHANGED length
  BY <1>1, <1>2, <1>3, <1>4, <1>6 DEF ReadTypes, InHand, Chains, Reads
<1>7. CASE ~IsMasked(second) /\ code \notin {126, 127} /\ length' = code
             /\ ReadMessageContent(t, code)
  BY <1>1, <1>2, <1>3, <1>7, ContentTypes
<1> QED
  BY <1>5, <1>6, <1>7 DEF OnHeader

LEMMA LengthTypes ==
    ASSUME ReadTypes, NEW t \in IoThreads, OnLength(t)
    PROVE  ReadTypes'
<1>1. ReadLength(HeaderOf(frame)) = frame.length
  BY HeaderRead DEF ReadTypes
<1>2. /\ chain = "length" /\ arrived' = "none" /\ InHand
      /\ UNCHANGED << fragment, frame, received, client >>
  BY DEF OnLength, StartHandler, unchangedByRead, peerSide, InHand
<1>3. Counted'
  BY <1>2, CountedStep DEF OnLength, ReadTypes, Reads
<1> QED
  BY <1>1, <1>2, <1>3, ContentTypes DEF OnLength, ReadTypes

\* The handler of a payload.
LEMMA PayloadTypes ==
    ASSUME ReadTypes, NEW t \in IoThreads, OnContent(t)
    PROVE  ReadTypes'
<1>1. /\ chain = "content" /\ arrived' = "none" /\ chain' \in {"posted", "closing", "callback"}
      /\ UNCHANGED << frame, received, client, length >>
  BY DEF OnContent, StartHandler, peerSide, OnCloseFrame, OnPing, OnPong, OnFragment, OnMessage,
     ReadMessage
<1>2. Counted'
  BY <1>1, CountedStep DEF OnContent, ReadTypes, Reads
<1>3. fragment' \in {fragment, NoFragment, Joined}
  BY DEF OnContent, OnCloseFrame, OnPing, OnPong, OnFragment, OnMessage
<1>4. FragmentTypes'
  <2>1. CASE fragment' = fragment
    BY <2>1 DEF ReadTypes, FragmentTypes
  <2>2. CASE fragment' = NoFragment
    BY <2>2, ClientAssumption DEF FragmentTypes, NoFragment
  <2>3. CASE fragment' = Joined
    <3>1. frame.no \in 1..MaxPeerFrames /\ fragment.frames \in Seq(1..MaxPeerFrames)
      BY <1>1 DEF ReadTypes, InHand, FragmentTypes
    <3>2. Append(fragment.frames, frame.no) \in Seq(1..MaxPeerFrames)
      BY <3>1, AppendProperties
    <3>3. (fragment.length + length) % SizeModulus \in 0..SizeModulus - 1
      <4>1. fragment.length + length \in Nat /\ SizeModulus \in Nat \ {0}
        BY ClientAssumption DEF ReadTypes, FragmentTypes
      <4> QED
        BY <4>1
    <3> QED
      BY <2>3, <3>2, <3>3 DEF Joined, FragmentTypes
  <2> QED
    BY <1>3, <2>1, <2>2, <2>3
<1> QED
  BY <1>1, <1>2, <1>4 DEF ReadTypes, InHand, Chains

\* The response may bring the first bytes of the stream with it.
LEMMA PhaseTypes ==
    ASSUME ReadTypes, NEW t \in IoThreads, Phases(t)
    PROVE  ReadTypes'
<1>1. ASSUME NEW phase \in Connecting, NEW next \in Connecting, Proceed(t, phase, next)
      PROVE  ReadTypes'
  BY <1>1, ReadKept DEF Proceed, StartHandler, unchangedByPhase, peerSide, Connecting, Chains,
     ReadTypes
<1>2. ASSUME NEW phase \in Connecting, NEW outcomes, Refuse(t, phase, outcomes)
      PROVE  ReadTypes'
  BY <1>2, ReadKept DEF Refuse, ConnectionError, StartHandler, unchangedByPhase, peerSide,
     Connecting, Chains, ReadTypes
<1>3. CASE OnResponse(t) /\ chain' = "callback"
  <2>1. Counted'
    BY <1>3, ClientAssumption DEF OnResponse, Refuse, ConnectionError, Counted
  <2>2. /\ arrived' = "none"
        /\ UNCHANGED << frame, length, client, fragment, received >>
    BY <1>3 DEF OnResponse, Refuse, ConnectionError, StartHandler, unchangedByPhase, peerSide
  <2>3. FragmentTypes'
    BY <2>2 DEF ReadTypes, FragmentTypes
  <2> QED
    BY <1>3, <2>1, <2>2, <2>3 DEF ReadTypes, InHand, Chains
<1>4. CASE OnResponse(t) /\ chain' # "callback"
  BY <1>2, <1>4 DEF OnResponse, Connecting
<1> QED
  BY <1>1, <1>2, <1>3, <1>4 DEF Phases, OnResolved, OnConnected, OnProxyRequest, OnProxyResponse,
     OnTls, OnUpgrade, Connecting

\* What the network does to the read side.
LEMMA ArrivalTypes ==
    ASSUME ReadTypes, HeaderArrives \/ EmptyRead \/ Arrives \/ Fails
    PROVE  ReadTypes'
<1>1. CASE HeaderArrives
  <2>1. PICK f \in NextFrames : frame' = f
    BY <1>1 DEF HeaderArrives
  <2>2. f \in FrameOfServer /\ f.no \in 1..MaxPeerFrames /\ received' \in 0..MaxPeerFrames
    BY <1>1, <2>1, ClientAssumption DEF HeaderArrives, NextFrames, FrameOfServer, ReadTypes
  <2>3. FragmentTypes' /\ Counted'
    BY <1>1 DEF HeaderArrives, ReadTypes, FragmentTypes, Counted
  <2> QED
    BY <1>1, <2>1, <2>2, <2>3 DEF HeaderArrives, ReadTypes, InHand, Reads
<1>2. CASE EmptyRead
  <2>1. FragmentTypes' /\ Counted' /\ received' \in 0..MaxPeerFrames
    BY <1>2, ClientAssumption DEF EmptyRead, inMessage, ReadTypes, FragmentTypes, Counted
  <2> QED
    BY <1>2, <2>1 DEF EmptyRead, inMessage, ReadTypes, InHand, Reads
<1>3. CASE Arrives \/ Fails
  <2>1. /\ UNCHANGED << client, chain, inMessage, fragment, received >>
        /\ arrived' \in {"ok", "error"}
        /\ chain \in Connecting \union Reads
        /\ chain = "header" => arrived' = "error"
    BY <1>3 DEF Arrives, Fails, Completes, peerSide, Connecting, Reads
  <2>2. FragmentTypes' /\ Counted'
    BY <2>1 DEF inMessage, ReadTypes, FragmentTypes, Counted
  <2> QED
    BY <2>1, <2>2 DEF inMessage, ReadTypes, InHand
<1> QED
  BY <1>1, <1>2, <1>3

LEMMA ReadTypesStep ==
    ASSUME ReadTypes, Started, [Next]_vars
    PROVE  ReadTypes'
<1> USE ReadKept DEF Chains
<1>a. client \in {"new", "started", "stopped"} /\ chain \in Chains
      /\ (arrived # "none" => chain \in Connecting \union Reads)
  BY DEF ReadTypes
<1>1. ASSUME NEW t \in IoThreads, ReadFails(t) \/ StartRead(t)
      PROVE  ReadTypes'
  BY <1>1, <1>a DEF ReadFails, StartRead, ConnectionError, StartHandler, Connecting, Reads,
     inMessage, peerSide, unchangedByRead
<1>2. ASSUME NEW t \in IoThreads, OnEmptyRead(t)
      PROVE  ReadTypes'
  <2>1. additional' = additional
    BY <1>2 DEF OnEmptyRead, StartHandler, ReadTypes, Counted
  <2> QED
    BY <1>2, <1>a, <2>1 DEF OnEmptyRead, StartHandler, ReadMessage, inMessage, peerSide,
       unchangedByRead
<1>3. ASSUME NEW t \in IoThreads, ConnectionClose(t) \/ NoScope(t)
      PROVE  ReadTypes'
  BY <1>3, <1>a DEF ConnectionClose, NoScope, Connecting, Reads, inMessage, peerSide
<1>4. ASSUME NEW t \in IoThreads, ReturnFromCallback(t)
      PROVE  ReadTypes'
  <2>1. /\ chain = "callback" /\ chain' = "posted" /\ fragment' = NoFragment /\ arrived = "none"
        /\ UNCHANGED << client, arrived, inMessage, received >>
    BY <1>4, <1>a DEF ReturnFromCallback, ReadMessage, peerSide, Connecting, Reads
  <2>2. FragmentTypes' /\ Counted'
    BY <2>1, ClientAssumption DEF FragmentTypes, NoFragment, ReadTypes, Counted, inMessage
  <2> QED
    BY <2>1, <2>2 DEF ReadTypes, InHand, inMessage
<1>5. ASSUME NEW t \in IoThreads, WriteSide(t) \/ Timers(t)
      PROVE  ReadTypes'
  BY <1>5, <1>a DEF WriteSide, Timers, OnRequestTimeout, OnIdleTimeout, TimerCloses, readSide, peerSide
<1>6. CASE Start \/ Stop \/ Destroy
  BY <1>6, <1>a DEF Start, Started, Stop, Destroy, readSide, peerSide, Connecting, Reads
<1>7. CASE ReaderCalls \/ ReaderCloses
  BY <1>7, <1>a DEF ReaderCalls, ReaderCloses, CloseAlreadySent, ReaderSetsClose, ReaderSendsClose,
     readSide, peerSide, Connecting, Reads
<1>8. CASE RequestTimerExpires \/ IdleTimerExpires \/ SocketNext \/ UNCHANGED vars
  BY <1>8, <1>a DEF RequestTimerExpires, IdleTimerExpires, SocketNext, vars, readSide, peerSide
<1> QED
  BY <1>1, <1>2, <1>3, <1>4, <1>5, <1>6, <1>7, <1>8, PhaseTypes, HeaderTypes, LengthTypes,
     PayloadTypes, ArrivalTypes DEF Next, Handlers, ReadLoop, Returns

-----------------------------------------------------------------------------
(* The callbacks of the client                                             *)

Silent == {"none"} \union Connecting
Looping == Reads \union {"posted", "callback"}

\* The callbacks so far, by the operation of the chain.  In a scope that is
\* gone the chain ends without a word.
EventPhases ==
    /\ chain \in Silent => events = << >>
    /\ chain \in Looping => Serving(events)
    /\ chain \in {"closing", "closed"} => Serving(events) \/ SizeRefused(events)
    /\ chain = "ended" =>
          \/ Over(events)
          \/ stopped /\ (events = << >> \/ Serving(events) \/ SizeRefused(events))

\* What users of the client may rely on.
LEMMA PhasesSuffice ==
    ASSUME EventPhases, chain \in Chains
    PROVE  CallbacksWellFormed
<1>1. WellFormed(events) /\ (chain = "ended" /\ ~stopped => HasEnded(events)) => CallbacksWellFormed
  BY DEF CallbacksWellFormed, WellFormed, Ended, HasEnded, Endings
<1>2. CASE Over(events)
  BY <1>1, <1>2, OverFacts
<1>3. CASE events = << >> /\ (chain = "ended" => stopped)
  BY <1>1, <1>3 DEF WellFormed
<1>4. CASE Serving(events) /\ (chain = "ended" => stopped)
  BY <1>1, <1>4, ServingFacts
<1>5. CASE SizeRefused(events)
  BY <1>1, <1>5, RefusedFacts
<1>6. chain \in Silent \union Looping \union {"closing", "closed", "ended"}
  BY DEF Chains, Silent, Looping
<1> QED
  BY <1>2, <1>3, <1>4, <1>5, <1>6 DEF EventPhases, Silent, Looping, Connecting, Reads

\* Steps that call nothing.
Unheard ==
    /\ UNCHANGED events
    /\ stopped => stopped'
    /\ \/ chain' = chain
       \/ chain \in Silent /\ chain' \in Connecting
       \/ chain \in Looping /\ chain' \in Looping \union {"closing"}
       \/ chain = "closing" /\ chain' = "closed"
       \/ stopped /\ chain' = "ended"

LEMMA UnheardKeeps ==
    ASSUME EventPhases, chain \in Chains, Unheard
    PROVE  EventPhases'
  BY DEF EventPhases, Unheard, Chains, Silent, Looping, Connecting, Reads

\* connection_error() of a client that is connected, or about to be.
LEMMA ErrorEnds ==
    ASSUME EventPhases, chain \in Looping \union Connecting, ConnectionError
    PROVE  EventPhases'
<1>1. Append(<< >>, "error") = << "error" >>
  OBVIOUS
<1>2. Over(events')
  BY <1>1 DEF EventPhases, ConnectionError, Callback, Over, Silent
<1> QED
  BY <1>2 DEF EventPhases, ConnectionError, Silent, Connecting, Looping, Reads

\* A frame above the limit, or the read of its payload.
LEMMA ContentPhases ==
    ASSUME EventPhases, chain \in Reads, NEW t, NEW n, ReadMessageContent(t, n), UNCHANGED stopped
    PROVE  EventPhases'
<1>1. Serving(events)
  BY DEF EventPhases, Looping
<1>2. CASE RefuseSize(t)
  <2>1. SizeRefused(events')
    BY <1>1, <1>2, RefusesSize DEF RefuseSize, Callback
  <2> QED
    BY <1>2, <2>1 DEF RefuseSize, EventPhases, Silent, Connecting, Looping, Reads
<1>3. CASE chain' = "content" /\ UNCHANGED events
  BY <1>1, <1>3 DEF EventPhases, Silent, Connecting, Looping, Reads
<1> QED
  BY <1>2, <1>3 DEF ReadMessageContent

LEMMA PhasePhases ==
    ASSUME EventPhases, NEW t \in IoThreads, Phases(t)
    PROVE  EventPhases'
<1>1. ASSUME NEW phase \in Connecting, NEW next \in Connecting, Proceed(t, phase, next)
      PROVE  EventPhases'
  BY <1>1, UnheardKeeps DEF Proceed, unchangedByPhase, Unheard, Silent, Chains
<1>2. ASSUME NEW phase \in Connecting, NEW outcomes, Refuse(t, phase, outcomes)
      PROVE  EventPhases'
  BY <1>2, ErrorEnds DEF Refuse
<1>3. CASE chain = "response" /\ Callback("open") /\ chain' = "callback"
  <2>1. events' = << "open" >>
    BY <1>3 DEF EventPhases, Callback, Silent, Connecting
  <2> QED
    BY <1>3, <2>1, FirstServes DEF EventPhases, Silent, Connecting, Looping, Reads
<1> QED
  BY <1>1, <1>2, <1>3 DEF Phases, OnResolved, OnConnected, OnProxyRequest, OnProxyResponse,
     OnTls, OnUpgrade, OnResponse, Connecting

LEMMA EventPhasesStep ==
    ASSUME EventPhases, Started, chain \in Chains, [Next]_vars
    PROVE  EventPhases'
<1> USE UnheardKeeps
<1>1. ASSUME NEW t \in IoThreads, ReadFails(t)
      PROVE  EventPhases'
  BY <1>1, ErrorEnds DEF ReadFails, Looping
<1>2. ASSUME NEW t \in IoThreads, StartRead(t) \/ OnEmptyRead(t) \/ NoScope(t) \/ ReturnFromCallback(t)
      PROVE  EventPhases'
  BY <1>2 DEF StartRead, OnEmptyRead, NoScope, ReturnFromCallback, ReadMessage, Scope, history,
     unchangedByRead, Unheard, Looping, Reads
<1>3. ASSUME NEW t \in IoThreads, OnHeader(t) \/ OnLength(t)
      PROVE  EventPhases'
  <2>1. chain \in Reads /\ UNCHANGED stopped
    BY <1>3 DEF OnHeader, OnLength, Reads, unchangedByRead
  <2>2. ASSUME NEW n, ReadMessageContent(t, n)
        PROVE  EventPhases'
    BY <2>1, <2>2, ContentPhases
  <2>3. CASE UNCHANGED events /\ chain' \in {"closing", "length"}
    BY <2>1, <2>3 DEF Unheard, Looping, Reads
  <2> QED
    BY <1>3, <2>2, <2>3 DEF OnHeader, OnLength
<1>4. ASSUME NEW t \in IoThreads, OnContent(t)
      PROVE  EventPhases'
  <2>1. chain \in Looping /\ UNCHANGED stopped
    BY <1>4 DEF OnContent, Looping, Reads
  <2>2. CASE UNCHANGED events /\ chain' \in {"posted", "closing"}
    BY <2>1, <2>2 DEF Unheard, Looping
  <2>3. CASE chain' \in {"posted", "callback"} /\ \E e \in Benign : Callback(e)
    <3>1. Serving(events')
      BY <2>1, <2>3, ServesOn DEF EventPhases, Callback
    <3> QED
      BY <2>3, <3>1 DEF EventPhases, Silent, Connecting, Looping
  <2> QED
    BY <1>4, <2>2, <2>3 DEF OnContent, OnCloseFrame, OnPing, OnPong, OnFragment, OnMessage,
       ReadMessage, Benign, history
<1>5. ASSUME NEW t \in IoThreads, ConnectionClose(t)
      PROVE  EventPhases'
  <2>1. Over(events')
    BY <1>5 DEF ConnectionClose, EventPhases, Callback, Over
  <2> QED
    BY <1>5, <2>1 DEF ConnectionClose, EventPhases, Silent, Connecting, Looping, Reads
<1>6. ASSUME NEW t \in IoThreads, WriteSide(t) \/ Timers(t)
      PROVE  EventPhases'
  BY <1>6 DEF WriteSide, Timers, OnRequestTimeout, OnIdleTimeout, TimerCloses, readSide, history,
     Unheard, Q!StartWrite, Q!WriteHandler, Q!EndWrite, Q!RunCallback, Q!TestCloseSent,
     Q!SetCloseSent, Q!SendClose
<1>7. CASE Start \/ Stop \/ Destroy
  BY <1>7 DEF Start, Started, Stop, Destroy, readSide, history, Unheard, Silent, Connecting
<1>8. CASE ReaderCalls \/ ReaderCloses
  BY <1>8 DEF ReaderCalls, ReaderCloses, CloseAlreadySent, ReaderSetsClose, ReaderSendsClose,
     Q!CallSend, Q!CallClose, Q!TestCloseSent, Q!SetCloseSent, Q!SendClose, readSide, history, Unheard
<1>9. CASE HeaderArrives \/ EmptyRead \/ Arrives \/ Fails \/ RequestTimerExpires
             \/ IdleTimerExpires \/ SocketNext \/ UNCHANGED vars
  BY <1>9 DEF HeaderArrives, EmptyRead, Arrives, Fails, Completes, RequestTimerExpires,
     IdleTimerExpires, SocketNext, Q!TimerExpires, Q!SocketWrites, Q!SocketFails, vars, readSide,
     history, Unheard
<1> QED
  BY <1>1, <1>2, <1>3, <1>4, <1>5, <1>6, <1>7, <1>8, <1>9, PhasePhases
     DEF Next, Handlers, ReadLoop, Returns

-----------------------------------------------------------------------------
(* Messages                                                                *)

\* What the frame in hand lacks in what the read side has.
FrameInHand ==
    /\ frame.type = "text" =>
          /\ fragment.frames = << >> /\ partial = << >>
          /\ messages = Append(delivered, << frame.no >>)
    /\ frame.type \in {"first", "cont"} =>
          /\ partial = Append(fragment.frames, frame.no)
          /\ messages = delivered
    /\ frame.type = "last" =>
          /\ partial = << >>
          /\ messages = Append(delivered, Append(fragment.frames, frame.no))
    /\ frame.type \in ControlTypes =>
          /\ partial = fragment.frames
          /\ messages = delivered

PeerTypes ==
    /\ partial \in Seq(Nat)
    /\ messages \in Seq(Seq(Nat))
    /\ delivered \in Seq(Seq(Nat))

\* The read side has all that was sent, but for the frame in hand; when it
\* gives up, it misses at most one message.
UpToDate ==
    /\ PeerTypes
    /\ delivered = messages \/ \E m \in Seq(Nat) : messages = Append(delivered, m)
    /\ InHand => FrameInHand
    /\ chain \in {"posted", "header"} /\ ~InHand => partial = fragment.frames /\ delivered = messages
    /\ chain = "callback" => partial = << >> /\ delivered = messages
    /\ chain \in Silent => fragment = NoFragment /\ partial = << >> /\ delivered = messages

LEMMA UpToDateSuffices == ReadTypes /\ UpToDate => MessageIntegrity
<1>. SUFFICES ASSUME ReadTypes, UpToDate PROVE MessageIntegrity
  OBVIOUS
<1>1. /\ Len(delivered) \in Nat
      /\ DOMAIN delivered = 1..Len(delivered)
  BY LenProperties DEF UpToDate, PeerTypes
<1>2. /\ Len(delivered) <= Len(messages)
      /\ \A i \in DOMAIN delivered : delivered[i] = messages[i]
  <2>1. CASE delivered = messages
    BY <1>1, <2>1
  <2>2. ASSUME NEW m \in Seq(Nat), messages = Append(delivered, m)
        PROVE  /\ Len(delivered) <= Len(messages)
               /\ \A i \in DOMAIN delivered : delivered[i] = messages[i]
    <3>1. delivered \in Seq(Seq(Nat))
      BY DEF UpToDate, PeerTypes
    <3> QED
      BY <1>1, <2>2, <3>1, AppendProperties
  <2> QED
    BY <2>1, <2>2 DEF UpToDate
<1>3. chain = "header" /\ arrived = "none" => delivered = messages
  BY DEF UpToDate, InHand
<1>4. additional = buffer /\ (chain = "content" => length = frame.length)
  BY DEF ReadTypes, Counted
<1> QED
  BY <1>2, <1>3, <1>4 DEF MessageIntegrity

\* Steps that deliver nothing and change neither the fragment nor the frame.
LEMMA UpToDateKept ==
    ASSUME UpToDate, UNCHANGED << fragment, partial, messages, delivered, frame >>,
           \/ chain' = chain /\ (InHand' <=> InHand)
           \/ chain \in Silent /\ chain' \in Connecting \union {"callback", "ended"}
           \/ chain' \in {"closing", "closed", "ended"}
           \/ InHand /\ chain' \in {"length", "content"}
           \/ chain = "posted" /\ chain' = "header" /\ arrived' = "none"
           \/ chain = "header" /\ ~InHand /\ chain' = "posted"
    PROVE  UpToDate'
<1>1. PeerTypes' /\ FrameInHand' = FrameInHand
  BY DEF UpToDate, PeerTypes, FrameInHand
<1> QED
  BY <1>1 DEF UpToDate, InHand, Silent, Connecting

\* The last handler of a frame, by the type of the frame.
LEMMA ContentUpToDate ==
    ASSUME UpToDate, ReadTypes, NEW t \in IoThreads, OnContent(t)
    PROVE  UpToDate'
<1>1. /\ chain = "content" /\ UNCHANGED << frame, partial, messages >>
      /\ FrameInHand /\ arrived' = "none" /\ frame.type # "masked"
      /\ frame.type \in DataTypes \union ControlTypes
  BY DEF OnContent, UpToDate, InHand, peerSide, StartHandler, ReadTypes, FrameOfServer
<1>2. Op = CASE frame.type = "text" -> 129 [] frame.type = "first" -> 1 [] frame.type = "cont" -> 0
             [] frame.type = "last" -> 128 [] frame.type = "ping" -> 137 [] frame.type = "pong" -> 138
             [] OTHER -> 136
  BY <1>1 DEF Op, Opcodes, DataTypes, ControlTypes
<1>3. CASE OnCloseFrame(t)
  <2>1. chain' = "closing" /\ UNCHANGED << fragment, delivered >>
    BY <1>3 DEF OnCloseFrame, history
  <2> QED
    BY <1>1, <2>1, UpToDateKept
<1>4. CASE OnPing \/ OnPong
  <2>1. chain' = "posted" /\ UNCHANGED << fragment, delivered >>
    BY <1>4 DEF OnPing, OnPong, ReadMessage
  <2>2. frame.type \in ControlTypes
    BY <1>1, <1>2, <1>4 DEF OnPing, OnPong, ControlTypes, DataTypes
  <2> QED
    BY <1>1, <2>1, <2>2 DEF UpToDate, InHand, PeerTypes, FrameInHand, Silent, Connecting
<1>5. CASE OnFragment
  <2>1. chain' = "posted" /\ fragment' = Joined /\ UNCHANGED delivered
    BY <1>5 DEF OnFragment, ReadMessage, history
  <2>2. frame.type \in {"first", "cont"}
    BY <1>1, <1>2, <1>5 DEF OnFragment, DataTypes, ControlTypes
  <2>3. fragment'.frames = partial
    BY <1>1, <2>1, <2>2 DEF FrameInHand, Joined
  <2> QED
    BY <1>1, <2>1, <2>2, <2>3 DEF UpToDate, InHand, PeerTypes, FrameInHand, Silent, Connecting
<1>6. CASE OnMessage(t)
  <2>1. chain' = "callback" /\ delivered' = Append(delivered, Append(fragment.frames, frame.no))
    <3>1. CASE fragment = NoFragment
      <4>1. fragment.frames = << >> /\ Append(<< >>, frame.no) = << frame.no >>
        BY <3>1 DEF NoFragment
      <4>2. chain' = "callback" /\ delivered' = Append(delivered, << frame.no >>)
        BY <1>6, <3>1 DEF OnMessage
      <4> QED
        BY <4>1, <4>2
    <3>2. CASE fragment # NoFragment
      <4>1. Joined.frames = Append(fragment.frames, frame.no)
        BY DEF Joined
      <4> QED
        BY <1>6, <3>2, <4>1 DEF OnMessage
    <3> QED
      BY <3>1, <3>2
  <2>2. frame.type \in {"text", "last"}
    BY <1>1, <1>2, <1>6 DEF OnMessage, DataTypes, ControlTypes
  <2>3. delivered' = messages /\ partial = << >>
    <3>1. CASE frame.type = "text"
      <4>1. fragment.frames = << >> /\ Append(<< >>, frame.no) = << frame.no >>
        BY <1>1, <3>1 DEF FrameInHand
      <4> QED
        BY <1>1, <2>1, <3>1, <4>1 DEF FrameInHand
    <3>2. CASE frame.type = "last"
      BY <1>1, <2>1, <3>2 DEF FrameInHand
    <3> QED
      BY <2>2, <3>1, <3>2
  <2> QED
    BY <1>1, <2>1, <2>3 DEF UpToDate, InHand, PeerTypes, Silent, Connecting
<1> QED
  BY <1>3, <1>4, <1>5, <1>6 DEF OnContent

\* The server sends a frame.
LEMMA HeaderUpToDate ==
    ASSUME UpToDate, ReadTypes, HeaderArrives
    PROVE  UpToDate'
<1>1. /\ chain = "header" /\ chain' = "header" /\ arrived' = "ok"
      /\ UNCHANGED << fragment, delivered >>
  BY DEF HeaderArrives, history
<1>2. partial = fragment.frames /\ delivered = messages
  BY DEF HeaderArrives, UpToDate, InHand
<1>3. PICK f \in NextFrames :
          /\ Legal(f)
          /\ frame' = f
          /\ partial' = CASE f.type \in {"first", "cont"} -> Append(partial, f.no)
                          [] f.type = "last" -> << >>
                          [] OTHER -> partial
          /\ messages' = IF f.type \in {"text", "last"}
                           THEN Append(messages, Append(partial, f.no))
                           ELSE messages
  BY DEF HeaderArrives
<1>4. f.no \in Nat /\ f.type \in DataTypes \union ControlTypes
  BY DEF NextFrames, ReadTypes
<1>5. partial \in Seq(Nat) /\ messages \in Seq(Seq(Nat)) /\ Append(partial, f.no) \in Seq(Nat)
  BY <1>4, AppendProperties DEF UpToDate, PeerTypes
<1>6. /\ f.type \in {"first", "cont"} => partial' = Append(partial, f.no)
      /\ f.type = "last" => partial' = << >>
      /\ f.type \notin {"first", "cont", "last"} => partial' = partial
  BY <1>3
<1>7. PeerTypes'
  <2>1. partial' \in Seq(Nat)
    BY <1>3, <1>5, <1>6
  <2>2. messages' \in Seq(Seq(Nat))
    BY <1>3, <1>5, AppendProperties
  <2> QED
    BY <1>1, <2>1, <2>2 DEF UpToDate, PeerTypes
<1>8. FrameInHand'
  <2>1. CASE f.type = "text"
    <3>1. partial = << >>
      BY <1>3, <2>1 DEF Legal
    <3>2. Append(partial, f.no) = << f.no >>
      BY <3>1
    <3> QED
      BY <1>1, <1>2, <1>3, <1>6, <2>1, <3>1, <3>2 DEF FrameInHand, ControlTypes
  <2>2. CASE f.type # "text"
    BY <1>1, <1>2, <1>3, <1>4, <1>6, <2>2 DEF FrameInHand, ControlTypes, DataTypes
  <2> QED
    BY <2>1, <2>2
<1>9. delivered' = messages' \/ \E m \in Seq(Nat) : messages' = Append(delivered', m)
  BY <1>1, <1>2, <1>3, <1>5
<1> QED
  BY <1>1, <1>7, <1>8, <1>9 DEF UpToDate, InHand, Silent, Connecting

LEMMA PhaseUpToDate ==
    ASSUME UpToDate, NEW t \in IoThreads, Phases(t)
    PROVE  UpToDate'
<1> USE UpToDateKept DEF Silent, unchangedByPhase, peerSide
<1>1. ASSUME NEW phase \in Connecting, NEW next \in Connecting, Proceed(t, phase, next)
      PROVE  UpToDate'
  BY <1>1 DEF Proceed, inMessage
<1>2. ASSUME NEW phase \in Connecting, NEW outcomes, Refuse(t, phase, outcomes)
      PROVE  UpToDate'
  BY <1>2 DEF Refuse, ConnectionError, inMessage
<1>3. CASE OnResponse(t)
  BY <1>2, <1>3 DEF OnResponse, Connecting
<1> QED
  BY <1>1, <1>2, <1>3 DEF Phases, OnResolved, OnConnected, OnProxyRequest, OnProxyResponse,
     OnTls, OnUpgrade, Connecting

LEMMA UpToDateStep ==
    ASSUME UpToDate, ReadTypes, Started, [Next]_vars
    PROVE  UpToDate'
<1> USE UpToDateKept DEF InHand, Silent, inMessage, peerSide, history
<1>1. ASSUME NEW t \in IoThreads, ReadFails(t) \/ NoScope(t) \/ ConnectionClose(t)
      PROVE  UpToDate'
  BY <1>1 DEF ReadFails, NoScope, ConnectionClose, ConnectionError, unchangedByRead
<1>2. ASSUME NEW t \in IoThreads, StartRead(t) \/ OnEmptyRead(t)
      PROVE  UpToDate'
  BY <1>2 DEF StartRead, OnEmptyRead, StartHandler, ReadMessage, unchangedByRead, ReadTypes,
     Connecting, Reads
<1>3. ASSUME NEW t \in IoThreads, OnHeader(t) \/ OnLength(t)
      PROVE  UpToDate'
  BY <1>3 DEF OnHeader, OnLength, StartHandler, ReadMessageContent, RefuseSize, unchangedByRead
<1>4. ASSUME NEW t \in IoThreads, ReturnFromCallback(t)
      PROVE  UpToDate'
  <2>1. /\ chain = "callback" /\ chain' = "posted" /\ fragment' = NoFragment
        /\ UNCHANGED << arrived, frame, partial, messages, delivered >>
    BY <1>4 DEF ReturnFromCallback, ReadMessage
  <2> QED
    BY <2>1 DEF UpToDate, PeerTypes, NoFragment, Connecting
<1>5. ASSUME NEW t \in IoThreads, WriteSide(t) \/ Timers(t)
      PROVE  UpToDate'
  BY <1>5 DEF WriteSide, Timers, OnRequestTimeout, OnIdleTimeout, TimerCloses, readSide
<1>6. CASE Start \/ Stop \/ Destroy
  BY <1>6 DEF Start, Started, Stop, Destroy, readSide, Connecting
<1>7. CASE ReaderCalls \/ ReaderCloses
  BY <1>7 DEF ReaderCalls, ReaderCloses, CloseAlreadySent, ReaderSetsClose, ReaderSendsClose, readSide
<1>8. CASE EmptyRead \/ Arrives \/ Fails
  BY <1>8 DEF EmptyRead, Arrives, Fails, Completes, Connecting, Reads
<1>9. CASE RequestTimerExpires \/ IdleTimerExpires \/ SocketNext \/ UNCHANGED vars
  BY <1>9 DEF RequestTimerExpires, IdleTimerExpires, SocketNext, vars, readSide
<1> QED
  BY <1>1, <1>2, <1>3, <1>4, <1>5, <1>6, <1>7, <1>8, <1>9, PhaseUpToDate, ContentUpToDate,
     HeaderUpToDate DEF Next, Handlers, ReadLoop, Returns

-----------------------------------------------------------------------------
(* What the handlers of the client are promised (InStream)                 *)

\* The next step of the stream, or none.
InMapped == [In!InNext]_(In!inVars)

LEMMA Unnoticed == UNCHANGED << messages, delivered, events >> => InMapped
  BY DEF InMapped, In!inVars

\* The connection is served as long as its loop goes on.
LEMMA LoopGoesOn ==
    ASSUME EventPhases, chain \in Looping
    PROVE  In!Going
<1>1. Serving(events)
  BY DEF EventPhases
<1> QED
  BY <1>1, LastHeard DEF In!Going, In!HeardLast

\* connection_error(), in the loop or before on_open.
LEMMA ErrorHeard ==
    ASSUME EventPhases, chain \in Looping \union Connecting, ConnectionError,
           UNCHANGED << messages, delivered >>
    PROVE  InMapped
<1>1. events = << >> \/ In!Going
  <2>1. CASE chain \in Connecting
    BY <2>1 DEF EventPhases, Silent
  <2>2. CASE chain \in Looping
    BY <2>2, LoopGoesOn
  <2> QED
    BY <2>1, <2>2
<1> QED
  BY <1>1 DEF ConnectionError, Callback, InMapped, In!InNext, In!Fail, In!Hear

\* A handler of the phases before the connection is made.
LEMMA PhaseHeard ==
    ASSUME EventPhases, NEW t \in IoThreads, Phases(t)
    PROVE  InMapped
<1>1. ASSUME NEW phase \in Connecting, NEW next \in Connecting, Proceed(t, phase, next)
      PROVE  InMapped
  BY <1>1, Unnoticed DEF Proceed, unchangedByPhase, peerSide
<1>2. ASSUME NEW phase \in Connecting, NEW outcomes, Refuse(t, phase, outcomes)
      PROVE  InMapped
  BY <1>2, ErrorHeard DEF Refuse, unchangedByPhase, peerSide
<1>3. CASE chain = "response" /\ Callback("open") /\ UNCHANGED unchangedByPhase
  BY <1>3 DEF EventPhases, Silent, Connecting, unchangedByPhase, peerSide, Callback, InMapped,
     In!InNext, In!Open, In!Hear
<1> QED
  BY <1>1, <1>2, <1>3 DEF Phases, OnResolved, OnConnected, OnProxyRequest, OnProxyResponse,
     OnTls, OnUpgrade, OnResponse, Connecting

LEMMA HeaderOffers ==
    ASSUME EventPhases, UpToDate, ReadTypes, HeaderArrives
    PROVE  InMapped
<1>1. chain = "header" /\ delivered = messages /\ UNCHANGED << delivered, events >>
  BY DEF HeaderArrives, UpToDate, InHand, history
<1>2. In!Going
  BY <1>1, LoopGoesOn DEF Looping, Reads
<1>3. PICK f \in NextFrames :
          messages' = IF f.type \in {"text", "last"}
                        THEN Append(messages, Append(partial, f.no))
                        ELSE messages
  BY DEF HeaderArrives
<1>4. CASE f.type \notin {"text", "last"}
  BY <1>1, <1>3, <1>4, Unnoticed
<1>5. CASE f.type \in {"text", "last"}
  <2>1. f.no \in Nat
    BY DEF NextFrames, ReadTypes
  <2>2. partial \in Seq(Nat) /\ messages \in Seq(Seq(Nat)) /\ Append(partial, f.no) \in Seq(Nat)
    BY <2>1, AppendProperties DEF UpToDate, PeerTypes
  <2>3. messages' = Append(messages, Append(partial, f.no))
    BY <1>3, <1>5
  <2>4. \E i \in DOMAIN messages' : messages'[i] = Append(partial, f.no)
    <3>1. /\ Len(messages) + 1 \in DOMAIN messages'
          /\ messages'[Len(messages) + 1] = Append(partial, f.no)
      BY <2>2, <2>3, AppendProperties, LenProperties
    <3> QED
      BY <3>1
  <2>5. In!Offer
    BY <1>1, <1>2, <2>3, <2>4 DEF In!Offer
  <2> QED
    BY <2>5 DEF InMapped, In!InNext
<1> QED
  BY <1>4, <1>5

\* A message is given to on_message, or a control frame answered.
LEMMA ContentHeard ==
    ASSUME EventPhases, UpToDate, ReadTypes, NEW t \in IoThreads, OnContent(t)
    PROVE  InMapped
<1>1. /\ chain = "content" /\ UNCHANGED messages /\ FrameInHand /\ frame.type # "masked"
      /\ frame.type \in DataTypes \union ControlTypes
  BY DEF OnContent, UpToDate, InHand, peerSide, ReadTypes, FrameOfServer
<1>2. Op = CASE frame.type = "text" -> 129 [] frame.type = "first" -> 1 [] frame.type = "cont" -> 0
             [] frame.type = "last" -> 128 [] frame.type = "ping" -> 137 [] frame.type = "pong" -> 138
             [] OTHER -> 136
  BY <1>1 DEF Op, Opcodes, DataTypes, ControlTypes
<1>3. In!Going
  BY <1>1, LoopGoesOn DEF Looping, Reads
<1>4. CASE OnCloseFrame(t) \/ OnFragment
  BY <1>1, <1>4, Unnoticed DEF OnCloseFrame, OnFragment, history
<1>5. CASE OnPing \/ OnPong
  <2>1. frame.type \in ControlTypes
    BY <1>1, <1>2, <1>5 DEF OnPing, OnPong, ControlTypes, DataTypes
  <2>2. delivered = messages
    BY <1>1, <2>1 DEF FrameInHand
  <2>3. UNCHANGED delivered
    BY <1>5 DEF OnPing, OnPong
  <2> QED
    BY <1>1, <1>3, <1>5, <2>2, <2>3 DEF OnPing, OnPong, Callback, InMapped, In!InNext, In!Control, In!Hear
<1>6. CASE OnMessage(t)
  <2>1. PICK m \in Seq(Nat) : messages = Append(delivered, m) /\ delivered' = messages
    <3>1. frame.type \in {"text", "last"}
      BY <1>1, <1>2, <1>6 DEF OnMessage, DataTypes, ControlTypes
    <3>2. messages = Append(delivered, Append(fragment.frames, frame.no))
      <4>1. CASE frame.type = "text"
        <5>1. fragment.frames = << >> /\ Append(<< >>, frame.no) = << frame.no >>
          BY <1>1, <4>1 DEF FrameInHand
        <5> QED
          BY <1>1, <4>1, <5>1 DEF FrameInHand
      <4>2. CASE frame.type = "last"
        BY <1>1, <4>2 DEF FrameInHand
      <4> QED
        BY <3>1, <4>1, <4>2
    <3>3. delivered' = Append(delivered, Append(fragment.frames, frame.no))
      <4>1. CASE fragment = NoFragment
        <5>1. Append(fragment.frames, frame.no) = << frame.no >>
          BY <4>1 DEF NoFragment
        <5> QED
          BY <1>6, <4>1, <5>1 DEF OnMessage
      <4>2. CASE fragment # NoFragment
        BY <1>6, <4>2 DEF OnMessage, Joined
      <4> QED
        BY <4>1, <4>2
    <3>4. Append(fragment.frames, frame.no) \in Seq(Nat)
      <4>1. frame.no \in Nat /\ fragment.frames \in Seq(Nat)
        <5>1. InHand /\ fragment.frames \in Seq(1..MaxPeerFrames)
          BY <1>1 DEF ReadTypes, FragmentTypes, InHand
        <5>2. frame.no \in Nat
          BY <5>1 DEF ReadTypes, FrameOfServer
        <5>3. ASSUME NEW i \in 1..Len(fragment.frames)
              PROVE  fragment.frames[i] \in Nat
          <6>1. fragment.frames[i] \in 1..MaxPeerFrames
            BY <5>1, ElementOfSeq
          <6> QED
            BY <6>1, ClientAssumption
        <5> QED
          BY <5>1, <5>2, <5>3, SeqDef, LenProperties
      <4> QED
        BY <4>1, AppendProperties
    <3> QED
      BY <3>2, <3>3, <3>4
  <2>2. delivered # messages
    BY <2>1, AppendProperties, LenProperties DEF UpToDate, PeerTypes
  <2> QED
    BY <1>1, <1>3, <1>6, <2>1, <2>2 DEF OnMessage, Callback, InMapped, In!InNext, In!Take, In!Hear
<1> QED
  BY <1>4, <1>5, <1>6 DEF OnContent

\* Each step of a client is a step of the stream, or leaves it as it is.
LEMMA InSteps ==
    ASSUME EventPhases, UpToDate, ReadTypes, [Next]_vars
    PROVE  InMapped
<1> USE Unnoticed DEF peerSide, history
<1>1. ASSUME NEW t \in IoThreads, StartRead(t) \/ OnEmptyRead(t) \/ NoScope(t) \/ ReturnFromCallback(t)
      PROVE  InMapped
  BY <1>1 DEF StartRead, OnEmptyRead, NoScope, ReturnFromCallback, ReadMessage, unchangedByRead
<1>2. ASSUME NEW t \in IoThreads, ReadFails(t)
      PROVE  InMapped
  BY <1>2, ErrorHeard DEF ReadFails, Looping, unchangedByRead
<1>3. ASSUME NEW t \in IoThreads, OnHeader(t) \/ OnLength(t)
      PROVE  InMapped
  <2>1. chain \in Looping /\ UNCHANGED << messages, delivered >>
    BY <1>3 DEF OnHeader, OnLength, Looping, Reads, unchangedByRead
  <2>2. CASE UNCHANGED events
    BY <2>1, <2>2
  <2>3. CASE Callback("message_size")
    <3>1. In!Going
      BY <2>1, LoopGoesOn
    <3> QED
      BY <2>1, <2>3, <3>1 DEF Callback, InMapped, In!InNext, In!Refuse, In!Hear
  <2> QED
    BY <1>3, <2>2, <2>3 DEF OnHeader, OnLength, ReadMessageContent, RefuseSize
<1>4. ASSUME NEW t \in IoThreads, ConnectionClose(t)
      PROVE  InMapped
  <2>1. In!Going \/ In!HeardLast({"message_size"})
    <3>1. Serving(events) \/ SizeRefused(events)
      BY <1>4 DEF ConnectionClose, EventPhases
    <3> QED
      BY <3>1, LastHeard DEF In!Going, In!HeardLast
  <2> QED
    BY <1>4, <2>1 DEF ConnectionClose, Callback, InMapped, In!InNext, In!Finish, In!Hear
<1>5. ASSUME NEW t \in IoThreads, WriteSide(t) \/ Timers(t)
      PROVE  InMapped
  BY <1>5 DEF WriteSide, Timers, OnRequestTimeout, OnIdleTimeout, TimerCloses, readSide
<1>6. CASE Start \/ Stop \/ Destroy \/ ReaderCalls \/ ReaderCloses
  BY <1>6 DEF Start, Stop, Destroy, ReaderCalls, ReaderCloses, CloseAlreadySent, ReaderSetsClose,
     ReaderSendsClose, readSide
<1>7. CASE EmptyRead \/ Arrives \/ Fails
  BY <1>7 DEF EmptyRead, Arrives, Fails, Completes
<1>8. CASE RequestTimerExpires \/ IdleTimerExpires \/ SocketNext \/ UNCHANGED vars
  BY <1>8 DEF RequestTimerExpires, IdleTimerExpires, SocketNext, vars, readSide
<1> QED
  BY <1>1, <1>2, <1>3, <1>4, <1>5, <1>6, <1>7, <1>8, PhaseHeard, HeaderOffers, ContentHeard
     DEF Next, Handlers, ReadLoop, Returns

-----------------------------------------------------------------------------
(* The timers                                                              *)

NoWrites == sendQueue = << >> /\ posted = << >> /\ writing = << >> /\ completed = << >>

\* While the connection is made there is nothing but the timer of the request:
\* no frame was sent, and the idle timer was never set.
Alone ==
    /\ timer \in {"off", "armed"} /\ expired \in Nat
    /\ requestTimer \in {"off", "armed"} /\ requestExpired \in Nat
    /\ requestTimer = "armed" => chain \in Connecting
    /\ chain \in Silent => /\ NoWrites
                           /\ timer = "off" /\ expired = 0
                           /\ \A t \in IoThreads : running[t] # Timing

\* The phases in which the socket has a peer.
Peered == Connecting \ {"resolving", "connecting"}

\* With a timeout_request each of them has its timer, or the handler of the timer
\* which closes it.
RequestCovered ==
    RequestTimeout /\ ~stopped /\ socketUp /\ chain \in Peered =>
        requestTimer = "armed" \/ requestExpired > 0

\* The thread is about to send a close frame.
WillClose(t) == running[t] = Timing /\ ~(callerPc[t] = "idle" /\ closeSent)

Awaiting == Reads \union {"posted"}

Covered ==
    \/ timer = "armed" \/ expired > 0
    \/ Q!InFlight > 0
    \/ \E t \in IoThreads : WillClose(t)

\* The read loop has a timer, the handler of one, a thread which will send a
\* close frame, or a write under way: when that one ends it sets the timer.
IdleCovered == IdleTimeout /\ ~stopped /\ socketUp /\ chain \in Awaiting => Covered

LEMMA CoversSuffice ==
    ASSUME RequestCovered, IdleCovered
    PROVE  ReadsTimed
  BY DEF RequestCovered, IdleCovered, ReadsTimed, Peered, Awaiting, Covered, WillClose, Connected,
     Connecting, Reads

\* What the covers of a silent socket are kept by.
LEMMA CoverKept ==
    ASSUME IdleCovered, P!TypeOK, socketUp' => socketUp, stopped => stopped',
           \/ chain' \notin Awaiting
           \/ stopped' \/ ~socketUp'
           \/ IdleTimeout => timer' = "armed"
           \/ /\ chain \in Awaiting
              /\ UNCHANGED << timer, expired, closeSent, callerPc, posted, writing, completed >>
              /\ \A t \in IoThreads : running'[t] = Timing <=> running[t] = Timing
    PROVE  IdleCovered'
<1>1. P!TypeOK => stopped \in BOOLEAN
  BY DEF P!TypeOK
<1>2. CASE chain \in Awaiting /\ UNCHANGED << timer, expired, closeSent, callerPc, posted, writing, completed >>
           /\ \A t \in IoThreads : running'[t] = Timing <=> running[t] = Timing
  <2>1. Covered => Covered'
    BY <1>2 DEF Covered, WillClose, Q!InFlight
  <2> QED
    BY <1>1, <1>2, <2>1 DEF IdleCovered
<1> QED
  BY <1>1, <1>2 DEF IdleCovered, Covered

\* A queue which has a frame is being written, and each place counts.
LEMMA QueueCovers ==
    ASSUME P!TypeOK, P!Placed, ~stopped, sendQueue # << >>
    PROVE  Q!InFlight > 0
<1>1. P!OneWrite
  BY QueueAssumption, P!PlacedMeansOneWrite
<1> QED
  BY <1>1 DEF P!OneWrite, P!InFlight, Q!InFlight

\* Handlers of the read side and phases.
LEMMA ReadsCovered ==
    ASSUME ThreadTypes, P!TypeOK, IdleCovered, OneReader, NEW t \in IoThreads, Handlers(t)
    PROVE  IdleCovered'
<1> USE CoverKept, Kinds DEF Awaiting, Reads
<1>1. CASE Phases(t)
  <2>1. UNCHANGED << socketUp, stopped >> /\ chain' \notin Awaiting
    BY <1>1 DEF Phases, OnResolved, OnConnected, OnProxyRequest, OnProxyResponse, OnTls, OnUpgrade,
       OnResponse, Proceed, Refuse, ConnectionError, unchangedByPhase, Connecting
  <2> QED
    BY <2>1
<1>2. CASE ReadFails(t) \/ OnEmptyRead(t)
  BY <1>2 DEF ReadFails, OnEmptyRead, ConnectionError, ReadMessage, SetTimeout, Q!SetTimeout,
     unchangedByRead
<1>3. CASE StartRead(t)
  BY <1>3 DEF StartRead, queueSide, idleTimer
<1>4. CASE OnHeader(t) \/ OnLength(t)
  BY <1>4 DEF OnHeader, OnLength, ReadMessageContent, RefuseSize, SetTimeout, Q!SetTimeout,
     unchangedByRead
<1>5. CASE OnContent(t)
  BY <1>5 DEF OnContent, OnCloseFrame, OnPing, OnPong, OnFragment, OnMessage, ReadMessage,
     SetTimeout, Q!SetTimeout
<1>6. CASE NoScope(t) \/ Returns(t)
  BY <1>6 DEF NoScope, Returns, ReturnFromCallback, ConnectionClose, ReadMessage, SetTimeout,
     Q!SetTimeout
<1> QED
  BY <1>1, <1>2, <1>3, <1>4, <1>5, <1>6 DEF Handlers, ReadLoop

\* The writes: their handlers set the timer.
LEMMA WritesCovered ==
    ASSUME ThreadTypes, P!TypeOK, P!StoppedIdle, IdleCovered, NEW t \in IoThreads, WriteSide(t)
    PROVE  IdleCovered'
<1>a. /\ stopped \in BOOLEAN /\ posted \in Seq(P!Frame) /\ writing \in Seq(P!Frame)
      /\ completed \in Seq(P!Done)
  BY DEF P!TypeOK, P!Done
<1>1. CASE Q!StartWrite(t)
  <2>1. UNCHANGED << chain, socketUp, stopped, timer, expired, closeSent, callerPc, running,
                     completed >>
    BY <1>1 DEF WriteSide, readSide, Q!StartWrite, Q!timerVars
  <2>2. ~stopped => Q!InFlight' = Q!InFlight
    <3>1. ~stopped => /\ posted' = Tail(posted) /\ writing' = Append(writing, Head(posted))
                      /\ posted # << >>
      BY <1>1 DEF Q!StartWrite, Q!ScopeRefuses
    <3>2. Head(posted) \in P!Frame \/ posted = << >>
      BY <1>a
    <3>3. ~stopped => Len(posted') = Len(posted) - 1 /\ Len(writing') = Len(writing) + 1
      BY <1>a, <3>1, <3>2, AppendProperties, HeadTailProperties
    <3>4. Len(posted) \in Nat /\ Len(writing) \in Nat /\ Len(completed) \in Nat
      BY <1>a, LenProperties
    <3> QED
      BY <2>1, <3>3, <3>4 DEF Q!InFlight
  <2> QED
    BY <2>1, <2>2 DEF IdleCovered, Covered, WillClose
<1>2. CASE Q!WriteHandler(t)
  <2>1. (IdleTimeout => timer' = "armed") /\ UNCHANGED << socketUp, stopped >>
    BY <1>2 DEF Q!WriteHandler, Q!EndWrite, Q!SetTimeout
  <2> QED
    BY <2>1, CoverKept
<1>3. CASE Q!RunCallback(t)
  <2>1. chain' = chain /\ UNCHANGED << timer, expired, closeSent, callerPc, posted, writing, completed, socketUp, stopped >>
    BY <1>3 DEF WriteSide, readSide, Q!RunCallback, Q!queueVars, Q!timerVars
  <2>2. running[t] # Timing /\ Q!AfterCallback(running[t]) # Timing
    BY <1>3, Kinds DEF Q!RunCallback, Q!AfterCallback, Q!Calling, P!Calling
  <2>3. \A u \in IoThreads : running'[u] = IF u = t THEN Q!AfterCallback(running[t]) ELSE running[u]
    BY <1>3 DEF Q!RunCallback, ThreadTypes
  <2>4. \A u \in IoThreads : running'[u] = Timing <=> running[u] = Timing
    BY <2>2, <2>3
  <2> QED
    BY <2>1, <2>4, CoverKept
<1> QED
  BY <1>1, <1>2, <1>3 DEF WriteSide

\* The idle timer's handler closes the socket, or sends a close frame first.
LEMMA TimersCovered ==
    ASSUME ThreadTypes, OwnCalls, P!TypeOK, P!Placed, IdleCovered, ReadTypes, OneReader,
           NEW t \in IoThreads, Timers(t)
    PROVE  IdleCovered'
<1>a. stopped \in BOOLEAN /\ callerPc \in [Senders -> {"idle", "setting", "sending"}]
  BY DEF P!TypeOK
<1>b. UNCHANGED << chain, stopped >>
  BY DEF Timers, OnRequestTimeout, OnIdleTimeout, TimerCloses, readSide, Q!TestCloseSent,
     Q!SetCloseSent, Q!SendClose
<1>c. chain \in Awaiting => Connected
  BY DEF Awaiting, Reads, Connected
<1>1. CASE OnRequestTimeout(t)
  <2>1. CASE Connected
    BY <1>1, <1>b, <2>1, CoverKept DEF OnRequestTimeout, Close, Q!CloseSocket
  <2>2. CASE chain \notin Awaiting
    BY <1>1, <1>b, <2>2 DEF IdleCovered
  <2> QED
    BY <1>c, <2>1, <2>2
<1>2. CASE OnIdleTimeout(t)
  <2>1. CASE closeSent
    BY <1>2, <1>b, <1>c, <2>1 DEF OnIdleTimeout, Close, Q!CloseSocket, IdleCovered
  <2>2. CASE ~closeSent
    <3>1. closeSent' = closeSent /\ running' = [running EXCEPT ![t] = Timing]
      BY <1>2, <2>2 DEF OnIdleTimeout
    <3>2. running'[t] = Timing
      BY <3>1 DEF ThreadTypes
    <3> QED
      BY <2>2, <3>1, <3>2 DEF IdleCovered, Covered, WillClose
  <2> QED
    BY <2>1, <2>2
<1>3. CASE Q!TestCloseSent(t) /\ running[t] = Timing
  <2>1. callerPc'[t] = "setting" /\ running' = running
    BY <1>3, <1>a DEF Q!TestCloseSent, Senders
  <2> QED
    BY <1>3, <2>1 DEF IdleCovered, Covered, WillClose
<1>4. CASE Q!SetCloseSent(t) /\ running[t] = Timing
  <2>1. callerPc'[t] = "sending" /\ running' = running
    BY <1>4, <1>a DEF Q!SetCloseSent, Senders
  <2> QED
    BY <1>4, <2>1 DEF IdleCovered, Covered, WillClose
<1>5. CASE Q!SendClose(t)
  <2>1. /\ UNCHANGED << writing, completed, socketUp >>
        /\ posted' = IF sendQueue = << >> THEN Append(posted, [id |-> nextId, opcode |-> "close"])
                                          ELSE posted
    <3>1. /\ Len(sendQueue) = 0 => sendQueue = << >>
          /\ Len(sendQueue) \in Nat
      BY EmptySeq, LenProperties DEF P!TypeOK
    <3>. DEFINE f == [id |-> nextId, opcode |-> "close"]
                q == Append(sendQueue, f)
    <3>2. f \in P!Frame
      BY DEF P!TypeOK, P!Frame, P!Opcode
    <3>3. posted' = IF Len(q) = 1 THEN Append(posted, q[1]) ELSE posted
      BY <1>5 DEF Q!SendClose, Q!Enqueue, Q!Put
    <3>4. Len(q) = Len(sendQueue) + 1 /\ (sendQueue = << >> => q[1] = f)
      <4>. HIDE DEF f
      <4> QED
        BY <3>2, AppendProperties DEF P!TypeOK
    <3>5. sendQueue = << >> => Len(sendQueue) = 0
      OBVIOUS
    <3>6. UNCHANGED << writing, completed, socketUp >>
      BY <1>5 DEF Q!SendClose
    <3>. HIDE DEF q, f
    <3> QED
      BY <3>1, <3>3, <3>4, <3>5, <3>6 DEF f
  <2>2. CASE sendQueue = << >>
    <3>1. Len(posted') = Len(posted) + 1
      BY <2>1, <2>2, AppendProperties DEF P!TypeOK, P!Frame, P!Opcode
    <3>2. Q!InFlight' > 0
      BY <2>1, <3>1, LenProperties DEF P!TypeOK, Q!InFlight
    <3> QED
      BY <3>2 DEF IdleCovered, Covered
  <2>3. CASE sendQueue # << >>
    <3>1. ~stopped => Q!InFlight' > 0
      BY <2>1, <2>3, QueueCovers DEF Q!InFlight
    <3> QED
      BY <1>a, <1>b, <3>1 DEF IdleCovered, Covered
  <2> QED
    BY <2>2, <2>3
<1>6. CASE running[t] = Timing /\ callerPc[t] = "idle" /\ closeSent
           /\ running' = [running EXCEPT ![t] = Q!Idle]
           /\ UNCHANGED << queueSide, idleTimer, socketUp, stopped >>
  <2>1. \A u \in IoThreads : u # t => running'[u] = running[u]
    BY <1>6 DEF ThreadTypes
  <2>2. Covered => Covered'
    BY <1>6, <2>1 DEF Covered, WillClose, Q!InFlight, queueSide, idleTimer
  <2> QED
    BY <1>6, <1>b, <2>2 DEF IdleCovered
<1> QED
  BY <1>1, <1>2, <1>3, <1>4, <1>5, <1>6 DEF Timers, TimerCloses

LEMMA IdleCoveredStep ==
    ASSUME ThreadTypes, OwnCalls, P!TypeOK, P!Placed, P!StoppedIdle, OneReader, ReadTypes,
           IdleCovered, [Next]_vars
    PROVE  IdleCovered'
<1> USE CoverKept
<1>1. CASE ReaderCalls \/ ReaderCloses
  <2>1. /\ chain \in {"callback", "closing"} \/ callerPc[Reader] # "idle"
        /\ chain' \in {chain, "closed"}
    BY <1>1 DEF ReaderCalls, ReaderCloses, CloseAlreadySent, ReaderSetsClose, ReaderSendsClose,
       Q!SetCloseSent, Q!SendClose, readSide
  <2> QED
    BY <2>1 DEF OwnCalls, IdleCovered, Awaiting, Reads
<1>2. CASE Start \/ Destroy
  BY <1>2 DEF Start, Destroy, Awaiting, Reads, IdleCovered
<1>3. CASE Stop
  <2>1. chain \in Awaiting => Connected
    BY DEF Awaiting, Reads, Connected
  <2> QED
    BY <1>3, <2>1 DEF Stop, Close, Q!CloseSocket, readSide, IdleCovered
<1>4. CASE HeaderArrives \/ EmptyRead \/ Arrives \/ Fails \/ RequestTimerExpires \/ UNCHANGED vars
  <2>1. UNCHANGED << queueSide, idleTimer, running, socketUp, stopped, chain >>
    BY <1>4 DEF HeaderArrives, EmptyRead, Arrives, Fails, Completes, RequestTimerExpires, vars,
       readSide
  <2>2. Covered => Covered'
    BY <2>1 DEF Covered, WillClose, Q!InFlight, queueSide, idleTimer
  <2> QED
    BY <2>1, <2>2 DEF IdleCovered
<1>5. CASE IdleTimerExpires
  BY <1>5 DEF IdleTimerExpires, Q!TimerExpires, IdleCovered, Covered
<1>6. CASE Q!SocketFails
  BY <1>6 DEF Q!SocketFails, Q!CloseSocket, IdleCovered
<1>7. CASE Q!SocketWrites /\ UNCHANGED readSide
  <2>1. Q!InFlight' > 0
    <3>1. Len(completed') = Len(completed) + 1
      BY <1>7, AppendProperties, HeadTailProperties DEF Q!SocketWrites, P!TypeOK
    <3>2. posted' = posted /\ writing' \in Seq(P!Frame)
      BY <1>7, HeadTailProperties DEF Q!SocketWrites, P!TypeOK
    <3> QED
      BY <3>1, <3>2, LenProperties DEF P!TypeOK, Q!InFlight
  <2> QED
    BY <2>1 DEF IdleCovered, Covered
<1> QED
  BY <1>1, <1>2, <1>3, <1>4, <1>5, <1>6, <1>7, ReadsCovered, WritesCovered, TimersCovered
     DEF Next, SocketNext

\* The timer of the request, and the silence before on_open.
AloneInPhases == chain \in Silent => /\ NoWrites
                                     /\ timer = "off" /\ expired = 0
                                     /\ \A t \in IoThreads : running[t] # Timing

LEMMA TimerTypesKept ==
    ASSUME Alone,
           \/ requestTimer' = "off"
           \/ requestTimer' = requestTimer /\ chain' = chain
           \/ requestTimer' = requestTimer /\ chain \notin Connecting
           \/ requestTimer' = "armed" /\ chain' \in Connecting,
           timer' \in {timer, "off", "armed"},
           expired' \in {expired, expired + 1} \/ (expired > 0 /\ expired' = expired - 1),
           \/ requestExpired' \in {requestExpired, requestExpired + 1}
           \/ requestExpired > 0 /\ requestExpired' = requestExpired - 1,
           AloneInPhases'
    PROVE  Alone'
  BY DEF Alone, AloneInPhases

LEMMA PhasesAlone ==
    ASSUME Alone, NEW t \in IoThreads, Phases(t)
    PROVE  Alone'
<1> USE TimerTypesKept DEF unchangedByPhase, queueSide
<1>1. ASSUME NEW phase \in Connecting, NEW next \in Connecting, Proceed(t, phase, next)
      PROVE  Alone'
  BY <1>1 DEF Proceed, SetRequestTimeout, Alone, AloneInPhases, NoWrites, Silent
<1>2. CASE ConnectionError /\ expired' = expired /\ requestExpired' = requestExpired
  BY <1>2 DEF ConnectionError, CancelTimeout, AloneInPhases, Silent, Connecting
<1>3. CASE CancelTimeout /\ chain' = "callback" /\ expired' = expired /\ requestExpired' = requestExpired
  BY <1>3 DEF CancelTimeout, AloneInPhases, Silent, Connecting
<1> QED
  BY <1>1, <1>2, <1>3 DEF Phases, OnResolved, OnConnected, OnProxyRequest, OnProxyResponse, OnTls,
     OnUpgrade, OnResponse, Refuse, Connecting

LEMMA ReadsAlone ==
    ASSUME Alone, OneReader, ReadTypes, NEW t \in IoThreads, ReadLoop(t) \/ NoScope(t) \/ Returns(t)
    PROVE  Alone'
<1> USE TimerTypesKept DEF AloneInPhases, Silent, Connecting, unchangedByRead
<1>1. CASE ReadFails(t) \/ StartRead(t)
  BY <1>1 DEF ReadFails, StartRead, ConnectionError, CancelTimeout, requestSide, idleTimer
<1>2. CASE OnEmptyRead(t)
  BY <1>2 DEF OnEmptyRead, ReadMessage, SetTimeout, Q!SetTimeout
<1>3. CASE OnHeader(t) \/ OnLength(t)
  BY <1>3 DEF OnHeader, OnLength, ReadMessageContent, RefuseSize, SetTimeout, Q!SetTimeout,
     CancelTimeout
<1>4. CASE OnContent(t)
  BY <1>4 DEF OnContent, OnCloseFrame, OnPing, OnPong, OnFragment, OnMessage, ReadMessage,
     SetTimeout, Q!SetTimeout, CancelTimeout
<1>5. CASE NoScope(t)
  BY <1>5 DEF NoScope, CancelTimeout
<1>6. CASE Returns(t)
  BY <1>6 DEF Returns, ReturnFromCallback, ConnectionClose, ReadMessage, SetTimeout, Q!SetTimeout,
     requestSide, idleTimer
<1> QED
  BY <1>1, <1>2, <1>3, <1>4, <1>5, <1>6 DEF ReadLoop

LEMMA AloneStep ==
    ASSUME ThreadTypes, Started, Alone, OwnCalls, OneReader, ReadTypes, [Next]_vars
    PROVE  Alone'
<1> USE TimerTypesKept
<1>1. ASSUME NEW t \in IoThreads, WriteSide(t)
      PROVE  Alone'
  <2>1. UNCHANGED << requestSide, chain >> /\ expired' = expired /\ timer' \in {timer, "off", "armed"}
    BY <1>1 DEF WriteSide, readSide, Q!StartWrite, Q!WriteHandler, Q!EndWrite, Q!RunCallback,
       Q!SetTimeout, Q!timerVars
  <2>2. CASE Q!StartWrite(t) \/ Q!WriteHandler(t)
    BY <2>1, <2>2 DEF Q!StartWrite, Q!WriteHandler, Q!WriteEnded, Alone, AloneInPhases, NoWrites,
       requestSide
  <2>3. CASE Q!RunCallback(t)
    <3>1. Q!AfterCallback(running[t]) # Timing
      BY Kinds DEF Q!AfterCallback, Q!Calling, P!Calling
    <3>2. \A u \in IoThreads : running'[u] = IF u = t THEN Q!AfterCallback(running[t]) ELSE running[u]
      BY <2>3 DEF Q!RunCallback, ThreadTypes
    <3>3. UNCHANGED << timer, sendQueue, posted, writing, completed >>
      BY <2>3 DEF Q!RunCallback, Q!queueVars, Q!timerVars
    <3> QED
      BY <2>1, <3>1, <3>2, <3>3 DEF Alone, AloneInPhases, NoWrites, requestSide
  <2> QED
    BY <1>1, <2>2, <2>3 DEF WriteSide
<1>2. ASSUME NEW t \in IoThreads, OnRequestTimeout(t)
      PROVE  Alone'
  <2>1. UNCHANGED << chain, requestTimer, timer, expired, sendQueue, posted, running >>
        /\ requestExpired > 0 /\ requestExpired' = requestExpired - 1
    BY <1>2 DEF OnRequestTimeout, readSide, idleTimer
  <2>2. writing = << >> /\ completed = << >> => writing' = << >> /\ completed' = << >>
    BY <1>2 DEF OnRequestTimeout, Close, Q!CloseSocket, Q!Failed
  <2> QED
    BY <2>1, <2>2 DEF Alone, AloneInPhases, NoWrites
<1>3. ASSUME NEW t \in IoThreads, OnIdleTimeout(t) \/ TimerCloses(t)
      PROVE  Alone'
  <2>1. chain \notin Silent /\ chain' = chain
    BY <1>3 DEF OnIdleTimeout, TimerCloses, Alone, readSide
  <2>2. UNCHANGED requestSide
    BY <1>3 DEF OnIdleTimeout, TimerCloses
  <2>3. timer' \in {timer, "off", "armed"}
    BY <1>3 DEF OnIdleTimeout, TimerCloses, Q!TestCloseSent, Q!SetCloseSent, Q!SendClose, Q!Enqueue,
       Q!SetTimeout, Q!timerVars, idleTimer
  <2>4. expired' = expired \/ (expired > 0 /\ expired' = expired - 1)
    BY <1>3 DEF OnIdleTimeout, TimerCloses, Q!TestCloseSent, Q!SetCloseSent, Q!SendClose,
       Q!timerVars, idleTimer
  <2> QED
    BY <2>1, <2>2, <2>3, <2>4 DEF AloneInPhases, requestSide
<1>4. CASE ReaderCalls \/ ReaderCloses
  <2>1. chain \notin Silent /\ chain' \in {chain, "closed"}
    BY <1>4 DEF ReaderCalls, ReaderCloses, CloseAlreadySent, ReaderSetsClose, ReaderSendsClose,
       Q!SetCloseSent, Q!SendClose, OwnCalls, readSide, Silent, Connecting
  <2>2. UNCHANGED requestSide /\ expired' = expired /\ timer' \in {timer, "off", "armed"}
    BY <1>4 DEF ReaderCalls, ReaderCloses, CloseAlreadySent, ReaderSetsClose, ReaderSendsClose,
       Q!CallSend, Q!CallClose, Q!TestCloseSent, Q!SetCloseSent, Q!SendClose, Q!Enqueue,
       Q!SetTimeout, Q!timerVars, idleTimer
  <2> QED
    BY <2>1, <2>2 DEF AloneInPhases, requestSide, Silent, Connecting
<1>5. CASE Start
  <2>2. chain' = "resolving" /\ requestTimer' \in {"off", "armed"} /\ timer' = "off"
        /\ UNCHANGED << sendQueue, posted, writing, completed, running, expired, requestExpired >>
    BY <1>5 DEF Start, SetRequestTimeout, queueSide
  <2>3. chain \in Silent
    BY <1>5 DEF Start, Started, Silent
  <2> QED
    BY <2>2, <2>3 DEF Alone, AloneInPhases, NoWrites, Connecting
<1>6. CASE Stop \/ SocketNext
  <2>1. UNCHANGED << chain, requestSide, idleTimer, sendQueue, posted, running >>
    BY <1>6 DEF Stop, SocketNext, Q!SocketWrites, Q!SocketFails, Q!timerVars, idleTimer, readSide
  <2>2. writing = << >> /\ completed = << >> => writing' = << >> /\ completed' = << >>
    BY <1>6 DEF Stop, Close, SocketNext, Q!SocketWrites, Q!SocketFails, Q!CloseSocket, Q!Failed
  <2> QED
    BY <2>1, <2>2 DEF Alone, AloneInPhases, NoWrites, requestSide, idleTimer
<1>7. CASE Destroy \/ HeaderArrives \/ EmptyRead \/ Arrives \/ Fails \/ UNCHANGED vars
  BY <1>7 DEF Destroy, HeaderArrives, EmptyRead, Arrives, Fails, Completes, vars, readSide,
     queueSide, idleTimer, requestSide, Alone, AloneInPhases, NoWrites
<1>8. CASE RequestTimerExpires \/ IdleTimerExpires
  BY <1>8 DEF RequestTimerExpires, IdleTimerExpires, Q!TimerExpires, Q!queueVars, readSide, queueSide,
     idleTimer, requestSide, Alone, AloneInPhases, NoWrites
<1> QED
  BY <1>1, <1>2, <1>3, <1>4, <1>5, <1>6, <1>7, <1>8, PhasesAlone, ReadsAlone
     DEF Next, Handlers, Timers

LEMMA RequestCoveredStep ==
    ASSUME RequestCovered, OneReader, ReadTypes, [Next]_vars
    PROVE  RequestCovered'
<1> USE DEF RequestCovered, Peered
<1>1. ASSUME NEW t \in IoThreads, Phases(t)
      PROVE  RequestCovered'
  <2>1. requestTimer' = "armed" \/ ~RequestTimeout \/ chain' \notin Connecting
    BY <1>1 DEF Phases, OnResolved, OnConnected, OnProxyRequest, OnProxyResponse, OnTls, OnUpgrade,
       OnResponse, Proceed, Refuse, SetRequestTimeout, ConnectionError, Connecting
  <2> QED
    BY <2>1
<1>2. ASSUME NEW t \in IoThreads, ReadLoop(t) \/ NoScope(t) \/ Returns(t)
      PROVE  RequestCovered'
  <2>1. chain' \notin Connecting
    BY <1>2 DEF ReadLoop, ReadFails, StartRead, OnEmptyRead, OnHeader, OnLength, OnContent,
       NoScope, Returns, ReturnFromCallback, ConnectionClose, ConnectionError, ReadMessage,
       ReadMessageContent, RefuseSize, OnCloseFrame, OnPing, OnPong, OnFragment, OnMessage, Connecting
  <2> QED
    BY <2>1
<1>3. ASSUME NEW t \in IoThreads, OnRequestTimeout(t)
      PROVE  RequestCovered'
  <2>1. chain \in Peered => Connected
    BY DEF Connected, Connecting
  <2> QED
    BY <1>3, <2>1 DEF OnRequestTimeout, Close, Q!CloseSocket, readSide
<1>4. ASSUME NEW t \in IoThreads, WriteSide(t) \/ OnIdleTimeout(t) \/ TimerCloses(t)
      PROVE  RequestCovered'
  BY <1>4 DEF WriteSide, OnIdleTimeout, TimerCloses, Close, Q!CloseSocket, Q!StartWrite,
     Q!WriteHandler, Q!EndWrite, Q!RunCallback, Q!TestCloseSent, Q!SetCloseSent, Q!SendClose,
     requestSide, readSide
<1>5. CASE ReaderCalls \/ ReaderCloses
  BY <1>5 DEF ReaderCalls, ReaderCloses, CloseAlreadySent, ReaderSetsClose, ReaderSendsClose,
     Q!CallSend, Q!CallClose, Q!CloseSocket, Q!TestCloseSent, Q!SetCloseSent, Q!SendClose,
     requestSide, readSide, Connecting
<1>6. CASE Start \/ RequestTimerExpires
  <2>1. requestTimer' = "armed" \/ ~RequestTimeout \/ (requestExpired = 0 /\ requestExpired' = requestExpired + 1)
    BY <1>6 DEF Start, RequestTimerExpires, SetRequestTimeout
  <2> QED
    BY <2>1
<1>7. CASE Stop \/ SocketNext \/ IdleTimerExpires \/ Destroy
  BY <1>7 DEF Stop, SocketNext, IdleTimerExpires, Destroy, Close, Q!CloseSocket, Q!SocketWrites,
     Q!SocketFails, Q!TimerExpires, requestSide, readSide
<1>8. CASE HeaderArrives \/ EmptyRead \/ Arrives \/ Fails \/ UNCHANGED vars
  BY <1>8 DEF HeaderArrives, EmptyRead, Arrives, Fails, Completes, vars, requestSide, readSide
<1> QED
  BY <1>1, <1>2, <1>3, <1>4, <1>5, <1>6, <1>7, <1>8 DEF Next, Handlers, Timers

-----------------------------------------------------------------------------
(* Theorems                                                                *)

IInv ==
    /\ P!IInv
    /\ ThreadTypes
    /\ Started
    /\ OwnCalls
    /\ OneReader
    /\ ReadTypes
    /\ EventPhases
    /\ UpToDate
    /\ Alone
    /\ RequestCovered
    /\ IdleCovered

LEMMA InitInv == Init => IInv
<1>. SUFFICES ASSUME Init PROVE IInv
  OBVIOUS
<1>1. P!Init /\ ThreadTypes
  BY QueueInit
<1>2. P!IInv
  BY <1>1, QueueAssumption, P!InitInv
<1>3. /\ \A t \in IoThreads : running[t] \notin {Reading, Timing}
      /\ \A c \in Senders : callerPc[c] = "idle"
      /\ NoWrites
      /\ timer = "off" /\ expired = 0 /\ stopped = FALSE
  BY Kinds DEF Init, Q!Init, Senders, NoWrites
<1>4. chain = "none" /\ client = "new" /\ arrived = "none" /\ events = << >>
  BY DEF Init
<1>5. Started /\ OwnCalls /\ OneReader
  BY <1>3, <1>4 DEF Started, OwnCalls, OneReader, Busy, Senders
<1>6. ReadTypes
  <2>1. NoFrame \in FrameOfServer
    BY DEF NoFrame, FrameOfServer, ControlTypes
  <2>2. FragmentTypes
    <3>1. fragment = [frames |-> << >>, length |-> 0]
      BY DEF Init, NoFragment
    <3>2. << >> \in Seq(1..MaxPeerFrames)
      OBVIOUS
    <3>3. 0 \in 0..SizeModulus - 1
      BY ClientAssumption
    <3> QED
      BY <3>1, <3>2, <3>3 DEF FragmentTypes
  <2>3. frame = NoFrame /\ length = 0 /\ buffer = 0 /\ additional = 0
    BY DEF Init
  <2>4. received = 0 /\ 0 \in 0..MaxPeerFrames
    BY ClientAssumption DEF Init
  <2> QED
    BY <1>4, <2>1, <2>2, <2>3, <2>4 DEF ReadTypes, InHand, Counted, Chains
<1>7. EventPhases
  BY <1>4 DEF EventPhases, Looping, Reads
<1>8. UpToDate
  BY DEF Init, UpToDate, PeerTypes, InHand, Silent
<1>9. Alone
  <2>1. requestTimer = "off" /\ requestExpired = 0
    BY DEF Init
  <2> QED
    BY <1>3, <2>1 DEF Alone
<1>10. RequestCovered /\ IdleCovered
  BY <1>4 DEF RequestCovered, IdleCovered, Peered, Connecting, Awaiting, Reads
<1>. QED
  BY <1>1, <1>2, <1>5, <1>6, <1>7, <1>8, <1>9, <1>10 DEF IInv

LEMMA InvStep == IInv /\ [Next]_vars => IInv' /\ [P!Step]_(P!vars)
<1>. SUFFICES ASSUME IInv, [Next]_vars
              PROVE  IInv' /\ [P!Step]_(P!vars)
  OBVIOUS
<1>1. P!TypeOK /\ P!Placed /\ P!StoppedIdle
  BY DEF IInv, P!IInv, P!QueueInv
<1>2. ThreadTypes' /\ [P!Step]_(P!vars)
  BY <1>1, QueueSteps DEF IInv, Mapped
<1>3. P!IInv'
  BY <1>2, QueueAssumption, P!InvStep DEF IInv
<1>4. Started' /\ OwnCalls' /\ OneReader'
  BY <1>1, StartedStep, OwnCallsStep, OneReaderStep DEF IInv
<1>5. ReadTypes' /\ UpToDate'
  BY ReadTypesStep, UpToDateStep DEF IInv
<1>6. EventPhases'
  BY EventPhasesStep DEF IInv, ReadTypes
<1>7. Alone' /\ RequestCovered'
  BY AloneStep, RequestCoveredStep DEF IInv
<1>8. IdleCovered'
  BY <1>1, IdleCoveredStep DEF IInv
<1>. QED
  BY <1>2, <1>3, <1>4, <1>5, <1>6, <1>7, <1>8 DEF IInv

LEMMA Invariance == Spec => []IInv
  BY InitInv, InvStep, PTL DEF Spec

\* TypeOK: one thread at most runs the read side, exactly while the chain is in
\* a step which takes a thread, and no timer of a request outlives its phase.
THEOREM TypeCorrect == Spec => []TypeOK
<1>1. ASSUME IInv PROVE TypeOK
  <2>1. requestTimer = "armed" => chain \in Connecting /\ timer = "off"
    BY <1>1 DEF IInv, Alone, Silent
  <2>2. fragment.frames \in Seq(1..MaxPeerFrames) /\ fragment.length \in 0..SizeModulus - 1
    BY <1>1, ClientAssumption DEF IInv, ReadTypes, FragmentTypes
  <2> QED
    BY <1>1, <2>1, <2>2 DEF IInv, TypeOK, OneReader, Busy, ReadTypes, FrameOfServer, Counted
<1> QED
  BY <1>1, Invariance, PTL

\* MessageIntegrity: num_additional_bytes counts what the streambuf holds, and
\* on_message gets each message of the server, whole and in order.
THEOREM MessagesWhole == Spec => []MessageIntegrity
<1>1. IInv => MessageIntegrity
  BY UpToDateSuffices DEF IInv
<1> QED
  BY <1>1, Invariance, PTL

\* CallbacksWellFormed: on_open first and once, each ending once, and no end of
\* the chain in its scope without a word to the user.
THEOREM CallbacksInOrder == Spec => []CallbacksWellFormed
<1>1. IInv => CallbacksWellFormed
  BY PhasesSuffice DEF IInv, ReadTypes
<1> QED
  BY <1>1, Invariance, PTL

\* ImplementsInStream: with the timers of the client, its phases and the bytes
\* left over from one frame to the next, the user hears what InStream allows.
THEOREM InStreamImplemented == Spec => ImplementsInStream
<1>1. Init => In!InInit
  BY DEF Init, history, peerSide, In!InInit
<1>2. IInv /\ [Next]_vars => [In!InNext]_(In!inVars)
  BY InSteps DEF IInv, InMapped
<1> QED
  BY <1>1, <1>2, Invariance, PTL DEF Spec, ImplementsInStream, In!InSpec

\* ReadsTimed: with timeout_request no phase, and with timeout_idle no read waits
\* without a timer that will close the socket, unless a write is under way, whose
\* handler sets one.
THEOREM ReadsAreTimed == Spec => []ReadsTimed
<1>1. IInv => ReadsTimed
  BY CoversSuffice DEF IInv
<1> QED
  BY <1>1, Invariance, PTL

\* NoCallbackAfterDestroy: a handler which starts after the destructor's stop()
\* has no scope, and none was running when it returned.
THEOREM SilentAfterDestroy == Spec => NoCallbackAfterDestroy
<1>1. ASSUME IInv, [Next]_vars, stopped
      PROVE  UNCHANGED << events, called >>
  <2> USE DEF history
  <2>0. chain \notin Busy /\ \A t \in IoThreads : running[t] # Reading
    BY <1>1 DEF IInv, OneReader
  <2>1. ASSUME NEW t \in IoThreads, Handlers(t)
        PROVE  UNCHANGED << events, called >>
    BY <1>1, <2>0, <2>1 DEF Handlers, Phases, OnResolved, OnConnected, OnProxyRequest,
       OnProxyResponse, OnTls, OnUpgrade, OnResponse, Proceed, Refuse, ReadLoop, ReadFails, StartRead,
       OnEmptyRead, OnHeader, OnLength, OnContent, StartHandler, Scope, NoScope, Returns,
       ReturnFromCallback, ConnectionClose, queueSide
  <2>2. ASSUME NEW t \in IoThreads, WriteSide(t)
        PROVE  UNCHANGED << events, called >>
    <3>1. ~Q!RunCallback(t)
      <4>1. Quiet(running)[t] = P!Idle
        BY <1>1 DEF IInv, P!IInv, P!QueueInv, P!StoppedIdle, P!FreeThread
      <4>2. running[t] \in {Reading, Timing, Q!Idle}
        BY <4>1, Kinds DEF Quiet
      <4> QED
        BY <4>2, Kinds DEF Q!RunCallback
    <3> QED
      BY <2>2, <3>1 DEF WriteSide, readSide, Q!StartWrite, Q!WriteHandler, Q!EndWrite, Q!historyVars
  <2>3. ASSUME NEW t \in IoThreads, Timers(t)
        PROVE  UNCHANGED << events, called >>
    BY <2>3 DEF Timers, OnRequestTimeout, OnIdleTimeout, TimerCloses, readSide, queueSide,
       Q!TestCloseSent, Q!SetCloseSent, Q!SendClose, Q!historyVars
  <2>4. CASE ReaderCalls \/ ReaderCloses
    BY <2>4 DEF ReaderCalls, ReaderCloses, CloseAlreadySent, ReaderSetsClose, ReaderSendsClose,
       Q!CallSend, Q!CallClose, Q!TestCloseSent, Q!SetCloseSent, Q!SendClose, Q!historyVars,
       readSide, queueSide
  <2>5. CASE Start \/ Stop \/ Destroy \/ SocketNext \/ RequestTimerExpires \/ IdleTimerExpires
    BY <2>5 DEF Start, Stop, Destroy, SocketNext, RequestTimerExpires, IdleTimerExpires,
       Q!SocketWrites, Q!SocketFails, Q!TimerExpires, Q!historyVars, readSide, queueSide
  <2>6. CASE HeaderArrives \/ EmptyRead \/ Arrives \/ Fails \/ UNCHANGED vars
    BY <2>6 DEF HeaderArrives, EmptyRead, Arrives, Fails, Completes, vars, readSide, queueSide
  <2> QED
    BY <1>1, <2>1, <2>2, <2>3, <2>4, <2>5, <2>6 DEF Next
<1>2. IInv /\ [Next]_vars => [stopped => UNCHANGED << events, called >>]_vars
  BY <1>1
<1> QED
  BY <1>2, Invariance, PTL DEF Spec, NoCallbackAfterDestroy

\* The client implements its send queue: pongs, the close frames of endings and
\* of the idle timer, the destructor and each close() keep to its discipline.
THEOREM QueueImplemented == Spec => P!QueueSpec
<1>1. Init => P!Init
  BY QueueInit
<1> QED
  BY <1>1, InvStep, Invariance, PTL DEF Spec, P!QueueSpec

\* The write handler takes the right frame off the queue, whatever the read
\* side and the idle timer send in between.
THEOREM WriteDiscipline == Spec => []Q!OneWrite
<1>1. IInv => P!OneWrite
  BY QueueAssumption, P!PlacedMeansOneWrite DEF IInv, P!IInv, P!QueueInv
<1>2. P!OneWrite => Q!OneWrite
  BY DEF P!OneWrite, Q!OneWrite, P!InFlight, Q!InFlight, P!IsFront, Q!IsFront
<1> QED
  BY <1>1, <1>2, Invariance, PTL

\* Each frame of a client, pongs and close frames too, is answered at most
\* once, and truly (OutStream).
THEOREM StreamImplemented == Spec => P!ImplementsStream
  BY QueueImplemented, QueueAssumption, P!StreamImplemented, PTL
=============================================================================
