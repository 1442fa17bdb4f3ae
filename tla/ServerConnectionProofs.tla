------------------------ MODULE ServerConnectionProofs ------------------------
(***************************************************************************)
(* Proofs about ServerConnection for every set of users and of io threads, *)
(* every max_message_size and any number of frames in both directions.     *)
(*                                                                         *)
(* First the send queue.  A thread in a handler of the read side is idle   *)
(* for the queue (Quiet), and the timer is nobody's: what its handler does *)
(* to the queue any close() may do.  Seen so, every step of a connection   *)
(* is a step of SendQueue or leaves it as it is, and what is proved of the *)
(* queue holds in the connection (P).                                      *)
(***************************************************************************)
EXTENDS ServerConnection, CallbackProofs, SequenceTheorems, TLAPS

\* The io threads as the send queue sees them.
Quiet(r) == [t \in IoThreads |-> IF r[t] = Reading THEN Q!Idle ELSE r[t]]

P == INSTANCE SendQueueProofs
         WITH Callers <- Users \union {Reader}, IdleTimeout <- FALSE,
              MaxExpired <- 1, timer <- "off", expired <- 0, running <- Quiet(running)

\* What Quiet does not show of `running'.
ThreadTypes == running = [t \in IoThreads |-> running[t]]

LEMMA QueueAssumption == P!SendAssumption
  BY ConnectionAssumption DEF P!SendAssumption

\* Idle and Reading threads are told apart.
LEMMA Kinds ==
    /\ Q!Idle = P!Idle
    /\ Reading # Q!Idle
    /\ Reading.calls = << >>
    /\ \A calls, ok : P!Calling(calls, ok) # Reading
  BY DEF Q!Idle, P!Idle, Reading, P!Calling

-----------------------------------------------------------------------------
(* The send queue in a connection                                          *)

LEMMA QueueInit == Init => P!Init /\ ThreadTypes
<1>1. ASSUME Init PROVE Quiet(running) = [t \in IoThreads |-> P!Idle]
  BY <1>1, Kinds DEF Init, Q!Init, Quiet
<1>2. ASSUME Init PROVE ThreadTypes
  BY <1>2, Kinds DEF Init, Q!Init, ThreadTypes
<1> QED
  BY <1>1, <1>2 DEF Init, Q!Init, P!Init

\* To the queue it makes no difference that a thread enters or leaves a
\* handler of the read side.
LEMMA QuietUpdate ==
    ASSUME ThreadTypes, NEW t \in IoThreads, NEW h,
           running' = [running EXCEPT ![t] = h]
    PROVE  /\ ThreadTypes'
           /\ Quiet(running)' = [Quiet(running) EXCEPT ![t] = IF h = Reading THEN Q!Idle ELSE h]
<1>1. \A u \in IoThreads : running'[u] = IF u = t THEN h ELSE running[u]
  BY DEF ThreadTypes
<1>2. ThreadTypes'
  BY DEF ThreadTypes
<1>3. \A u \in IoThreads : Quiet(running')[u] =
          IF u = t THEN IF h = Reading THEN Q!Idle ELSE h ELSE Quiet(running)[u]
  BY <1>1 DEF Quiet
<1> QED
  BY <1>2, <1>3 DEF Quiet

\* A thread enters a handler of the read side, or leaves it.
LEMMA QuietReader ==
    ASSUME ThreadTypes, NEW t \in IoThreads,
           \/ Q!FreeThread(t) /\ running' = [running EXCEPT ![t] = Reading]
           \/ running[t] = Reading /\ running' = [running EXCEPT ![t] = Q!Idle]
    PROVE  ThreadTypes' /\ Quiet(running)' = Quiet(running)
<1>1. Quiet(running)[t] = Q!Idle
  BY Kinds DEF Quiet, Q!FreeThread
<1>2. [Quiet(running) EXCEPT ![t] = Q!Idle] = Quiet(running)
  BY <1>1 DEF Quiet
<1> QED
  BY <1>2, Kinds, QuietUpdate

\* Nothing happens to the queue.
Aside ==
    /\ UNCHANGED << queueSide, socketUp, stopped >>
    /\ Quiet(running)' = Quiet(running)

LEMMA AsideStutters == Aside => UNCHANGED P!vars
  BY DEF Aside, queueSide, P!vars

\* What the lemmas below show of a step.
Mapped == ThreadTypes' /\ [P!Step]_(P!vars)

LEMMA Unmoved ==
    ASSUME ThreadTypes, UNCHANGED << queueSide, running, socketUp, stopped >>
    PROVE  Mapped
  BY AsideStutters DEF ThreadTypes, Aside, Mapped, Quiet

LEMMA Moved ==
    ASSUME ThreadTypes, UNCHANGED << queueSide, socketUp, stopped >>, NEW t \in IoThreads,
           \/ Q!FreeThread(t) /\ running' = [running EXCEPT ![t] = Reading]
           \/ running[t] = Reading /\ running' = [running EXCEPT ![t] = Q!Idle]
    PROVE  Mapped
<1>1. ThreadTypes' /\ Aside
  BY QuietReader DEF Aside
<1> QED
  BY <1>1, AsideStutters DEF Mapped

\* The handlers of the read side, but for the last of a message.
LEMMA ReadsAside ==
    ASSUME ThreadTypes, NEW t \in IoThreads,
           \/ OnRequest(t) \/ OnResponse(t) \/ StartRead(t) \/ OnHeader(t) \/ OnLength(t)
           \/ ReaderGoesOn(t)
    PROVE  Mapped
<1> USE DEF GoOn, ReadContent, ReadMessageContent
<1>1. CASE OnRequest(t)
  BY <1>1, Unmoved DEF OnRequest
<1>2. CASE OnResponse(t)
  BY <1>2, Unmoved, Moved DEF OnResponse, StartHandler
<1>3. CASE StartRead(t)
  BY <1>3, Unmoved DEF StartRead, queueVars
<1>4. CASE OnHeader(t)
  BY <1>4, Unmoved, Moved DEF OnHeader, StartHandler
<1>5. CASE OnLength(t)
  BY <1>5, Unmoved, Moved DEF OnLength, StartHandler
<1>6. CASE ReturnFromCallback(t) \/ OnError(t) \/ OnClose(t)
  BY <1>6, Moved, Unmoved DEF ReturnFromCallback, OnError, OnClose
<1>7. CASE ConnectionOpen(t) \/ OnOpen(t) \/ ConnectionErased(t)
  BY <1>7, Unmoved DEF ConnectionOpen, OnOpen, ConnectionErased, queueVars
<1> QED
  BY <1>1, <1>2, <1>3, <1>4, <1>5, <1>6, <1>7 DEF ReaderGoesOn

\* Putting a frame into the queue is the same with and without a timer.
LEMMA PutMapped ==
    ASSUME NEW opcode, Q!Put(opcode)
    PROVE  P!Enqueue(opcode)
  BY DEF Q!Put, P!Enqueue, P!Put, P!SetTimeout

\* Callers of send() and send_close().
LEMMA CallsMapped ==
    ASSUME ThreadTypes, NEW c \in Users \union {Reader},
           Q!CallSend(c) \/ Q!TestCloseSent(c) \/ Q!SetCloseSent(c) \/ Q!SendClose(c)
    PROVE  Mapped
<1>1. running' = running
  BY DEF Q!CallSend, Q!TestCloseSent, Q!SetCloseSent, Q!SendClose
<1>2. ThreadTypes' /\ Quiet(running)' = Quiet(running)
  BY <1>1 DEF ThreadTypes, Quiet
<1>3. CASE Q!CallSend(c)
  <2>1. P!Enqueue("data")
    BY <1>3, PutMapped DEF Q!CallSend, Q!Enqueue
  <2>2. P!CallSend(c)
    BY <1>2, <1>3, <2>1 DEF Q!CallSend, P!CallSend
  <2> QED
    BY <1>2, <2>2 DEF Mapped, P!Step, P!EnqueueStep
<1>4. CASE Q!TestCloseSent(c)
  <2>1. P!TestCloseSent(c)
    BY <1>2, <1>4 DEF Q!TestCloseSent, P!TestCloseSent, Q!queueVars, P!queueVars, Q!timerVars,
       P!timerVars, Q!historyVars, P!historyVars
  <2> QED
    BY <1>2, <2>1 DEF Mapped, P!Step, P!QuietStep
<1>5. CASE Q!SetCloseSent(c)
  <2>1. P!SetCloseSent(c)
    BY <1>2, <1>5 DEF Q!SetCloseSent, P!SetCloseSent, Q!queueVars, P!queueVars, Q!timerVars,
       P!timerVars, Q!historyVars, P!historyVars
  <2> QED
    BY <1>2, <2>1 DEF Mapped, P!Step, P!QuietStep
<1>6. CASE Q!SendClose(c)
  <2>1. P!Enqueue("close")
    BY <1>6, PutMapped DEF Q!SendClose, Q!Enqueue
  <2>2. P!SendClose(c)
    BY <1>2, <1>6, <2>1 DEF Q!SendClose, P!SendClose
  <2> QED
    BY <1>2, <2>2 DEF Mapped, P!Step, P!EnqueueStep
<1> QED
  BY <1>3, <1>4, <1>5, <1>6

\* A close() of the socket, by whatever handler: when the socket was shut down
\* before and nothing was being written, it has no effect.
LEMMA CloseMapped ==
    ASSUME ThreadTypes, P!TypeOK, Q!CloseSocket,
           UNCHANGED << sendQueue, closeSent, callerPc, posted, running, stopped, nextId,
                        wire, called >>
    PROVE  Mapped
<1>1. P!CloseSocket
  BY DEF Q!CloseSocket, P!CloseSocket, Q!Failed, P!Failed
<1>2. ThreadTypes' /\ Quiet(running)' = Quiet(running)
  BY DEF ThreadTypes, Quiet
<1>3. CASE socketUp
  <2>1. P!CallClose
    BY <1>1, <1>2, <1>3 DEF P!CallClose, P!timerVars, P!historyVars
  <2> QED
    BY <1>2, <2>1 DEF Mapped, P!Step, P!CloseStep
<1>4. CASE writing # << >>
  <2>1. P!SocketFails
    BY <1>1, <1>2, <1>4 DEF P!SocketFails, P!timerVars, P!historyVars
  <2> QED
    BY <1>2, <2>1 DEF Mapped, P!Step, P!CloseStep
<1>5. CASE ~socketUp /\ writing = << >>
  <2>1. completed \in Seq(P!Done) /\ socketUp \in BOOLEAN
    BY DEF P!TypeOK, P!Done
  <2>2. Q!Failed(writing) = << >>
    BY <1>5 DEF Q!Failed
  <2>3. completed' = completed /\ socketUp' = socketUp /\ writing' = writing
    BY <1>5, <2>1, <2>2, ConcatEmptySeq DEF Q!CloseSocket
  <2> QED
    BY <1>2, <2>3, Unmoved DEF queueSide
<1> QED
  BY <1>3, <1>4, <1>5

\* What the socket does, and the timer.
LEMMA SocketMapped ==
    ASSUME ThreadTypes, P!TypeOK, Q!SocketWrites \/ Q!SocketFails \/ Q!TimerExpires
    PROVE  Mapped
<1>1. CASE Q!SocketWrites
  <2>1. ThreadTypes' /\ Quiet(running)' = Quiet(running)
    BY <1>1 DEF ThreadTypes, Quiet, Q!SocketWrites
  <2>2. P!SocketWrites
    BY <1>1, <2>1 DEF Q!SocketWrites, P!SocketWrites, P!timerVars
  <2> QED
    BY <2>1, <2>2 DEF Mapped, P!Step
<1>2. CASE Q!SocketFails
  BY <1>2, CloseMapped DEF Q!SocketFails, Q!historyVars
<1>3. CASE Q!TimerExpires
  BY <1>3, Unmoved DEF Q!TimerExpires, queueSide, Q!queueVars, Q!historyVars
<1> QED
  BY <1>1, <1>2, <1>3

\* Write handlers and the handler of the timer.
LEMMA WritesMapped ==
    ASSUME ThreadTypes, P!TypeOK, NEW t \in IoThreads,
           Q!StartWrite(t) \/ Q!WriteHandler(t) \/ Q!RunCallback(t) \/ Q!TimerHandler(t)
    PROVE  Mapped
<1>1. Q!FreeThread(t) => P!FreeThread(t)
  BY Kinds DEF Q!FreeThread, P!FreeThread, Quiet
<1>2. CASE Q!StartWrite(t)
  <2>1. ThreadTypes' /\ Quiet(running)' = Quiet(running)
    BY <1>2 DEF ThreadTypes, Quiet, Q!StartWrite
  <2>2. P!StartWrite(t)
    BY <1>1, <1>2, <2>1 DEF Q!StartWrite, P!StartWrite, Q!ScopeRefuses, P!ScopeRefuses,
       P!timerVars, Q!historyVars, P!historyVars
  <2> QED
    BY <2>1, <2>2 DEF Mapped, P!Step
<1>3. CASE Q!WriteHandler(t)
  <2>1. ASSUME NEW q, NEW calls, NEW next, Q!EndWrite(t, q, calls, next)
        PROVE  ThreadTypes' /\ P!EndWrite(t, q, calls, next)
    <3>1. CASE stopped
      <4>1. ThreadTypes' /\ Quiet(running)' = Quiet(running)
        BY <2>1, <3>1 DEF ThreadTypes, Quiet, Q!EndWrite, Q!ScopeRefuses
      <4> QED
        BY <1>1, <2>1, <3>1, <4>1 DEF Q!EndWrite, P!EndWrite, Q!ScopeRefuses, P!ScopeRefuses,
           P!SetTimeout, Q!historyVars, P!historyVars
    <3>2. CASE ~stopped
      <4>. DEFINE h == P!Calling(calls, Head(completed).ok)
      <4>1. running' = [running EXCEPT ![t] = h]
        BY <2>1, <3>2 DEF Q!EndWrite, Q!ScopeRefuses, Q!Calling, P!Calling
      <4>2. h # Reading
        BY Kinds
      <4>. HIDE DEF h
      <4>3. ThreadTypes' /\ Quiet(running)' = [Quiet(running) EXCEPT ![t] = h]
        BY <4>1, <4>2, QuietUpdate
      <4> QED
        BY <1>1, <2>1, <3>2, <4>3 DEF h, Q!EndWrite, P!EndWrite, Q!ScopeRefuses,
           P!ScopeRefuses, P!SetTimeout, Q!historyVars, P!historyVars
    <3> QED
      BY <3>1, <3>2
  <2>2. Q!Ids(sendQueue) = P!Ids(sendQueue)
    BY DEF Q!Ids, P!Ids
  <2>3. \A q : Q!Front(q) = P!Front(q)
    BY DEF Q!Front, P!Front
  <2>4. ThreadTypes' /\ P!WriteHandler(t)
    BY <1>3, <2>1, <2>2, <2>3 DEF Q!WriteHandler, P!WriteHandler, Q!WriteEnded, P!WriteEnded
  <2> QED
    BY <2>4 DEF Mapped, P!Step
<1>4. CASE Q!RunCallback(t)
  <2>1. Quiet(running)[t] = running[t]
    BY <1>4, Kinds DEF Quiet, Q!RunCallback
  <2>2. Q!AfterCallback(running[t]) = P!AfterCallback(running[t])
    BY DEF Q!AfterCallback, P!AfterCallback, Q!Idle, P!Idle, Q!Calling, P!Calling
  <2>3. P!AfterCallback(running[t]) # Reading
    BY Kinds DEF P!AfterCallback
  <2>4. ThreadTypes' /\ Quiet(running)' = [Quiet(running) EXCEPT ![t] = P!AfterCallback(running[t])]
    BY <1>4, <2>2, <2>3, QuietUpdate DEF Q!RunCallback
  <2>5. Q!Answer(t) = P!Answer(t)
    BY <2>1 DEF Q!Answer, P!Answer
  <2>6. P!RunCallback(t)
    BY <1>4, <2>1, <2>4, <2>5 DEF Q!RunCallback, P!RunCallback, Q!queueVars, P!queueVars,
       P!timerVars, Q!timerVars
  <2> QED
    BY <2>4, <2>6 DEF Mapped, P!Step
<1>5. CASE Q!TimerHandler(t)
  BY <1>5, CloseMapped DEF Q!TimerHandler, Q!historyVars
<1> QED
  BY <1>2, <1>3, <1>4, <1>5

\* The read side calls send() and send_close() only in its own handlers.
ReaderCalls == callerPc[Reader] # "idle" => chain \in {"callback", "closing"}

\* The last handler of a message.
LEMMA ContentMapped ==
    ASSUME ThreadTypes, ReaderCalls, NEW t \in IoThreads, OnContent(t)
    PROVE  Mapped
<1>1. UNCHANGED << closeSent, callerPc, writing, completed, expired, socketUp, stopped, wire,
                   called >>
  BY DEF OnContent
<1>2. CASE Q!FreeThread(t) /\ GoOn(t, "failing") /\ UNCHANGED << sendQueue, nextId, posted >>
  BY <1>1, <1>2, Moved DEF GoOn, queueSide
<1>3. CASE Q!FreeThread(t) /\ (OnCloseFrame(t) \/ OnMessage(t))
  BY <1>1, <1>3, Moved DEF OnCloseFrame, OnMessage, GoOn, queueSide
<1>4. CASE OnPong \/ OnFragment
  BY <1>1, <1>4, Unmoved DEF OnPong, OnFragment, queueSide
<1>5. CASE OnPing /\ chain = "content"
  <2>1. ThreadTypes' /\ Quiet(running)' = Quiet(running)
    BY <1>5 DEF OnPing, ThreadTypes, Quiet
  <2>2. P!Enqueue("data")
    BY <1>5, PutMapped DEF OnPing
  <2>3. P!CallSend(Reader)
    BY <1>1, <1>5, <2>1, <2>2 DEF P!CallSend, ReaderCalls
  <2> QED
    BY <2>1, <2>3 DEF Mapped, P!Step, P!EnqueueStep
<1> QED
  BY <1>2, <1>3, <1>4, <1>5 DEF OnContent, StartHandler

\* Every step of a connection is a step of its queue, or none.
LEMMA QueueSteps ==
    ASSUME ThreadTypes, ReaderCalls, P!TypeOK, [Next]_vars
    PROVE  Mapped
<1>1. ASSUME NEW t \in IoThreads, ReadHandlers(t) \/ ReaderGoesOn(t)
      PROVE  Mapped
  BY <1>1, ReadsAside, ContentMapped DEF ReadHandlers
<1>2. ASSUME NEW t \in IoThreads, WriteSide(t)
      PROVE  Mapped
  BY <1>2, WritesMapped DEF WriteSide
<1>3. CASE CallbackSends \/ ReaderCloses
  <2>1. CASE CloseAlreadySent
    BY <2>1, Unmoved DEF CloseAlreadySent, queueVars
  <2>2. CASE ~CloseAlreadySent
    BY <1>3, <2>2, CallsMapped
       DEF CallbackSends, ReaderCloses, EndingTestsClose, ReaderSetsClose, ReaderSendsClose
  <2> QED
    BY <2>1, <2>2
<1>4. ASSUME NEW u \in Users, UserNext(u)
      PROVE  Mapped
  BY <1>4, CallsMapped DEF UserNext, Q!CallerNext
<1>5. CASE UserCloses
  BY <1>5, CloseMapped DEF UserCloses, Q!CallClose, Q!timerVars, Q!historyVars
<1>6. CASE Stop
  <2>1. CASE inEndpoint
    BY <1>6, <2>1, CloseMapped DEF Stop
  <2>2. CASE ~inEndpoint
    BY <1>6, <2>2, Unmoved DEF Stop, queueSide
  <2> QED
    BY <2>1, <2>2
<1>7. CASE SocketNext
  BY <1>7, SocketMapped DEF SocketNext
<1>8. CASE ReadHandshake \/ Upgrade \/ HeaderArrives \/ EmptyRead \/ Arrives \/ Fails
             \/ UNCHANGED vars
  BY <1>8, Unmoved DEF ReadHandshake, Upgrade, HeaderArrives, EmptyRead, Arrives, Fails, vars,
     queueVars
<1> QED
  BY <1>1, <1>2, <1>3, <1>4, <1>5, <1>6, <1>7, <1>8 DEF Next

-----------------------------------------------------------------------------
(* The thread of the read side                                             *)

OneReader ==
    /\ \A t, v \in IoThreads : running[t] = Reading /\ running[v] = Reading => t = v
    /\ chain \in OnThread <=> \E t \in IoThreads : running[t] = Reading

Begins(t) ==
    /\ Q!FreeThread(t)
    /\ chain \notin OnThread
    /\ chain' \in OnThread
    /\ running' = [running EXCEPT ![t] = Reading]

Leaves(t) ==
    /\ running[t] = Reading
    /\ chain' \notin OnThread
    /\ running' = [running EXCEPT ![t] = Q!Idle]

Remains ==
    /\ chain' \in OnThread <=> chain \in OnThread
    /\ \A t \in IoThreads : running'[t] = Reading <=> running[t] = Reading

\* The handlers of the read side begin and leave as they should.
LEMMA ReaderMoves ==
    ASSUME NEW t \in IoThreads, ReadHandlers(t) \/ ReaderGoesOn(t)
    PROVE  Begins(t) \/ Leaves(t) \/ Remains
<1> USE DEF Begins, Leaves, Remains, OnThread, StartHandler, GoOn
<1>1. CASE OnRequest(t)
  BY <1>1 DEF OnRequest, WriteHandshake
<1>2. CASE OnResponse(t)
  BY <1>2 DEF OnResponse
<1>3. CASE StartRead(t)
  BY <1>3 DEF StartRead, queueVars
<1>4. CASE OnHeader(t)
  BY <1>4 DEF OnHeader, ReadMessage, ReadMessageContent, ReadContent
<1>5. CASE OnLength(t)
  BY <1>5 DEF OnLength, ReadMessageContent, ReadContent
<1>6. CASE OnContent(t)
  BY <1>6 DEF OnContent, OnCloseFrame, OnPing, OnPong, OnFragment, OnMessage, ReadMessage
<1>7. CASE ReturnFromCallback(t) \/ OnError(t) \/ OnClose(t)
  BY <1>7 DEF ReturnFromCallback, OnError, OnClose, ReadMessage
<1>8. CASE ConnectionOpen(t) \/ OnOpen(t) \/ ConnectionErased(t)
  BY <1>8 DEF ConnectionOpen, OnOpen, ConnectionErased, queueVars
<1> QED
  BY <1>1, <1>2, <1>3, <1>4, <1>5, <1>6, <1>7, <1>8 DEF ReadHandlers, ReaderGoesOn

\* A handler of the write side is none of the read side before or after.
LEMMA WritesRemain ==
    ASSUME ThreadTypes, NEW t \in IoThreads, WriteSide(t)
    PROVE  Remains
<1>1. chain' = chain
  BY DEF WriteSide, readSide
<1>2. CASE UNCHANGED running
  BY <1>1, <1>2 DEF Remains
<1>3. ASSUME NEW h, h # Reading, running[t] # Reading, running' = [running EXCEPT ![t] = h]
      PROVE  Remains
  BY <1>1, <1>3 DEF Remains, ThreadTypes
<1>4. CASE Q!StartWrite(t) \/ Q!TimerHandler(t)
  BY <1>2, <1>4 DEF Q!StartWrite, Q!TimerHandler
<1>5. CASE Q!WriteHandler(t)
  <2>1. running[t] # Reading
    BY <1>5, Kinds DEF Q!WriteHandler, Q!EndWrite, Q!FreeThread
  <2>2. UNCHANGED running \/ \E calls, ok : running' = [running EXCEPT ![t] = P!Calling(calls, ok)]
    BY <1>5 DEF Q!WriteHandler, Q!EndWrite, Q!Calling, P!Calling
  <2> QED
    BY <1>2, <1>3, <2>1, <2>2, Kinds
<1>6. CASE Q!RunCallback(t)
  <2>1. running[t] # Reading
    BY <1>6, Kinds DEF Q!RunCallback
  <2>2. Q!AfterCallback(running[t]) # Reading
    BY Kinds DEF Q!AfterCallback, Q!Calling, P!Calling
  <2> QED
    BY <1>3, <1>6, <2>1, <2>2 DEF Q!RunCallback
<1> QED
  BY <1>4, <1>5, <1>6 DEF WriteSide

\* Where the chain and the thread go in a step.
LEMMA ReaderCases ==
    ASSUME ThreadTypes, ReaderCalls, [Next]_vars
    PROVE  Remains \/ \E t \in IoThreads : Begins(t) \/ Leaves(t)
<1>1. ASSUME NEW t \in IoThreads,
             ReadHandlers(t) \/ ReaderGoesOn(t) \/ WriteSide(t)
      PROVE  Begins(t) \/ Leaves(t) \/ Remains
  BY <1>1, ReaderMoves, WritesRemain
<1>2. CASE ReaderCloses
  BY <1>2 DEF ReaderCloses, CloseAlreadySent, EndingTestsClose, ReaderSetsClose, ReaderSendsClose,
     Q!TestCloseSent, Q!SetCloseSent, Q!SendClose, Remains, OnThread, queueVars, readSide
<1>3. CASE CallbackSends
  BY <1>3 DEF CallbackSends, Q!CallSend, Q!TestCloseSent, Remains, readSide
<1>4. ASSUME NEW u \in Users, UserNext(u)
      PROVE  Remains
  BY <1>4 DEF UserNext, Q!CallerNext, Q!CallSend, Q!TestCloseSent, Q!SetCloseSent, Q!SendClose,
     Remains, readSide
<1>5. CASE UserCloses \/ Stop \/ SocketNext
  BY <1>5 DEF UserCloses, Stop, SocketNext, Q!CallClose, Q!SocketWrites, Q!SocketFails,
     Q!TimerExpires, Remains, readSide
<1>6. CASE ReadHandshake \/ Upgrade \/ HeaderArrives \/ EmptyRead \/ Arrives \/ Fails
             \/ UNCHANGED vars
  BY <1>6 DEF ReadHandshake, Upgrade, WriteHandshake, HeaderArrives, EmptyRead, Arrives, Fails,
     vars, queueVars, readSide, Remains, OnThread
<1> QED
  BY <1>1, <1>2, <1>3, <1>4, <1>5, <1>6 DEF Next

LEMMA OneReaderStep ==
    ASSUME ThreadTypes, ReaderCalls, OneReader, [Next]_vars
    PROVE  OneReader'
<1>1. CASE Remains
  BY <1>1 DEF Remains, OneReader
<1>2. ASSUME NEW t \in IoThreads, Begins(t)
      PROVE  OneReader'
  <2>1. \A u \in IoThreads : running'[u] = IF u = t THEN Reading ELSE running[u]
    BY <1>2 DEF Begins, ThreadTypes
  <2> QED
    BY <1>2, <2>1 DEF Begins, OneReader
<1>3. ASSUME NEW t \in IoThreads, Leaves(t)
      PROVE  OneReader'
  <2>1. \A u \in IoThreads : running'[u] = IF u = t THEN Q!Idle ELSE running[u]
    BY <1>3 DEF Leaves, ThreadTypes
  <2> QED
    BY <1>3, <2>1, Kinds DEF Leaves, OneReader
<1> QED
  BY <1>1, <1>2, <1>3, ReaderCases

\* send_close() runs to its end in the handler that began it.
LEMMA ReaderCallsStep ==
    ASSUME P!TypeOK, ReaderCalls, [Next]_vars
    PROVE  ReaderCalls'
<1> USE DEF ReaderCalls
<1>a. callerPc \in [Users \union {Reader} -> {"idle", "setting", "sending"}] /\ Reader \notin Users
  BY ConnectionAssumption DEF P!TypeOK
<1>1. ASSUME NEW t \in IoThreads, ReadHandlers(t) \/ ReaderGoesOn(t)
      PROVE  ReaderCalls'
  <2>1. callerPc' = callerPc
    BY <1>1 DEF ReadHandlers, ReaderGoesOn, OnRequest, OnResponse, StartRead, OnHeader, OnLength,
       OnContent, ReturnFromCallback, ConnectionOpen, OnOpen, ConnectionErased, OnError, OnClose,
       queueSide, queueVars
  <2>2. callerPc[Reader] = "idle"
    BY <1>1 DEF ReadHandlers, ReaderGoesOn, OnRequest, OnResponse, StartRead, OnHeader, OnLength,
       OnContent, ReturnFromCallback, ConnectionOpen, OnOpen, ConnectionErased, OnError, OnClose
  <2> QED
    BY <2>1, <2>2
<1>2. ASSUME NEW t \in IoThreads, WriteSide(t)
      PROVE  ReaderCalls'
  BY <1>2 DEF WriteSide, readSide, Q!StartWrite, Q!WriteHandler, Q!EndWrite, Q!RunCallback,
     Q!TimerHandler
<1>3. CASE ReaderCloses \/ CallbackSends
  BY <1>3, <1>a DEF ReaderCloses, CallbackSends, CloseAlreadySent, EndingTestsClose,
     ReaderSetsClose, ReaderSendsClose, Q!CallSend, Q!TestCloseSent, Q!SetCloseSent, Q!SendClose,
     queueVars, queueSide, readSide
<1>4. ASSUME NEW u \in Users, UserNext(u)
      PROVE  ReaderCalls'
  <2>1. callerPc'[Reader] = callerPc[Reader] /\ chain' = chain
    BY <1>4, <1>a DEF UserNext, Q!CallerNext, Q!CallSend, Q!TestCloseSent, Q!SetCloseSent,
       Q!SendClose, readSide
  <2> QED
    BY <2>1
<1>5. CASE UserCloses \/ Stop \/ SocketNext
  BY <1>5 DEF UserCloses, Stop, SocketNext, Q!CallClose, Q!SocketWrites, Q!SocketFails,
     Q!TimerExpires, readSide
<1>6. CASE HeaderArrives \/ EmptyRead \/ Arrives \/ Fails \/ UNCHANGED vars
  BY <1>6 DEF HeaderArrives, EmptyRead, Arrives, Fails, vars, queueVars, queueSide, readSide
<1>7. CASE ReadHandshake \/ Upgrade
  <2>1. callerPc' = callerPc /\ callerPc[Reader] = "idle"
    BY <1>7 DEF ReadHandshake, Upgrade, queueSide
  <2> QED
    BY <2>1
<1> QED
  BY <1>1, <1>2, <1>3, <1>4, <1>5, <1>6, <1>7 DEF Next

-----------------------------------------------------------------------------
(* Types                                                                   *)

FragmentTypes == fragment \in [frames : Seq(Nat), length : 0..SizeModulus - 1, size : Nat]

\* The rest of the type invariant.
ReadTypes ==
    /\ chain \in Chains
    /\ arrived \in {"none", "ok", "empty", "error"}
    /\ frame \in PeerFrame
    /\ FragmentTypes
    /\ inEndpoint \in BOOLEAN
    /\ stopCalled \in BOOLEAN
    /\ received \in 0..MaxPeerFrames
    /\ timer \in {"off", "armed"}
    /\ expired \in Nat

\* A sum of the type size_t.
LEMMA Wrapped ==
    ASSUME NEW x \in Nat
    PROVE  /\ x % SizeModulus \in 0..SizeModulus - 1
           /\ x < SizeModulus => x % SizeModulus = x
<1>1. SizeModulus \in Nat \ {0}
  BY ConnectionAssumption
<1> QED
  BY <1>1

LEMMA Sizes == \A n \in Lengths : n \in Nat /\ n + n < SizeModulus
<1>1. SizeModulus \in Nat
  BY ConnectionAssumption
<1> QED
  BY <1>1, LengthAssumption

LEMMA JoinedTypes ==
    ASSUME FragmentTypes, frame \in PeerFrame, fragment' = Joined
    PROVE  FragmentTypes'
<1>1. frame.no \in Nat /\ frame.length \in Nat
  BY Sizes DEF PeerFrame
<1>2. Append(fragment.frames, frame.no) \in Seq(Nat)
  BY <1>1, AppendProperties DEF FragmentTypes
<1>3. /\ (fragment.length + frame.length) % SizeModulus \in 0..SizeModulus - 1
      /\ fragment.size + frame.length \in Nat
  <2>1. fragment.length \in Nat /\ fragment.size \in Nat
    BY DEF FragmentTypes
  <2>2. fragment.length + frame.length \in Nat /\ fragment.size + frame.length \in Nat
    BY <1>1, <2>1
  <2> QED
    BY <2>2, Wrapped
<1> QED
  BY <1>2, <1>3 DEF FragmentTypes, Joined

LEMMA NoFragmentTypes == fragment' = NoFragment => FragmentTypes'
<1>1. 0 \in 0..SizeModulus - 1
  BY ConnectionAssumption
<1> QED
  BY <1>1 DEF FragmentTypes, NoFragment

LEMMA ReadTypesStep ==
    ASSUME ReadTypes, [Next]_vars
    PROVE  ReadTypes'
<1> USE ConnectionAssumption
    DEF ReadTypes, Chains, Reads, Responses, OnThread, Q!SetTimeout, Q!CancelTimeout,
        SetRequestTimeout, GoOn
<1>f. UNCHANGED fragment => FragmentTypes'
  BY DEF FragmentTypes
<1>1. ASSUME NEW t \in IoThreads, OnRequest(t) \/ OnResponse(t) \/ StartRead(t)
      PROVE  ReadTypes'
  BY <1>1, <1>f DEF OnRequest, OnResponse, StartRead, WriteHandshake, StartHandler,
     queueVars, queueSide, peerSide
<1>2. ASSUME NEW t \in IoThreads, OnHeader(t) \/ OnLength(t)
      PROVE  ReadTypes'
  BY <1>2, <1>f DEF OnHeader, OnLength, StartHandler, ReadMessage, ReadMessageContent, ReadContent,
     peerSide
<1>3. ASSUME NEW t \in IoThreads, OnContent(t)
      PROVE  ReadTypes'
  <2>1. FragmentTypes'
    BY <1>3, <1>f, JoinedTypes DEF OnContent, OnCloseFrame, OnPing, OnPong, OnFragment, OnMessage
  <2> QED
    BY <1>3, <2>1 DEF OnContent, OnCloseFrame, OnPing, OnPong, OnFragment, OnMessage,
       StartHandler, ReadMessage, peerSide
<1>4. ASSUME NEW t \in IoThreads, ReaderGoesOn(t)
      PROVE  ReadTypes'
  BY <1>4, <1>f, NoFragmentTypes DEF ReaderGoesOn, ReturnFromCallback, ConnectionOpen, OnOpen,
     ConnectionErased, OnError, OnClose, ReadMessage, peerSide, queueVars
<1>a. ASSUME UNCHANGED << arrived, frame, fragment, inEndpoint, received, stopCalled >>,
             chain' \in Chains, timer' \in {"off", "armed"}, expired' \in Nat
      PROVE  ReadTypes'
  BY <1>a, <1>f
<1>5. ASSUME NEW t \in IoThreads, WriteSide(t)
      PROVE  ReadTypes'
  <2>1. timer' \in {"off", "armed"} /\ expired' \in Nat
    <3>1. CASE Q!StartWrite(t) \/ Q!RunCallback(t) \/ Q!TimerHandler(t)
      BY <3>1 DEF Q!StartWrite, Q!RunCallback, Q!TimerHandler, Q!timerVars
    <3>2. CASE Q!WriteHandler(t)
      BY <3>2 DEF Q!WriteHandler, Q!EndWrite
    <3> QED
      BY <1>5, <3>1, <3>2 DEF WriteSide
  <2> QED
    BY <1>5, <1>a, <2>1 DEF WriteSide, readSide, peerSide
<1>b. ASSUME NEW c, Q!CallSend(c) \/ Q!TestCloseSent(c) \/ Q!SetCloseSent(c) \/ Q!SendClose(c)
      PROVE  timer' \in {"off", "armed"} /\ expired' \in Nat
  BY <1>b DEF Q!CallSend, Q!TestCloseSent, Q!SetCloseSent, Q!SendClose, Q!Enqueue, Q!timerVars
<1>6. CASE ReaderCloses \/ CallbackSends
  <2>1. CASE CloseAlreadySent
    BY <1>a, <2>1 DEF CloseAlreadySent, queueVars, peerSide
  <2>2. CASE ReaderSendsClose
    BY <1>a, <1>b, <2>2 DEF ReaderSendsClose, peerSide
  <2>3. CASE EndingTestsClose \/ ReaderSetsClose \/ CallbackSends
    BY <1>a, <1>b, <2>3 DEF EndingTestsClose, ReaderSetsClose, CallbackSends, readSide, peerSide
  <2> QED
    BY <1>6, <2>1, <2>2, <2>3 DEF ReaderCloses
<1>7. ASSUME NEW u \in Users, UserNext(u)
      PROVE  ReadTypes'
  BY <1>7, <1>a, <1>b DEF UserNext, Q!CallerNext, readSide, peerSide
<1>8. CASE UserCloses \/ Stop \/ SocketNext
  <2>1. CASE UserCloses
    BY <1>a, <2>1 DEF UserCloses, Q!CallClose, readSide, peerSide, Q!timerVars
  <2>2. CASE Stop
    BY <1>f, <2>2 DEF Stop, peerSide
  <2>3. CASE SocketNext
    <3>1. timer' \in {"off", "armed"} /\ expired' \in Nat
      BY <2>3 DEF SocketNext, Q!SocketWrites, Q!SocketFails, Q!TimerExpires, Q!timerVars
    <3> QED
      BY <1>a, <2>3, <3>1 DEF SocketNext, readSide, peerSide
  <2> QED
    BY <1>8, <2>1, <2>2, <2>3
<1>9. CASE HeaderArrives
  <2>1. PICK f \in NextFrames : frame' = f
    BY <1>9 DEF HeaderArrives
  <2>2. f \in PeerFrame
    BY <2>1, LengthAssumption DEF NextFrames, PeerFrame, FrameTypes
  <2>3. received' \in 0..MaxPeerFrames
    BY <1>9 DEF HeaderArrives
  <2> QED
    BY <1>9, <1>f, <2>1, <2>2, <2>3 DEF HeaderArrives, queueVars
<1>10. CASE EmptyRead \/ Arrives \/ Fails \/ ReadHandshake \/ Upgrade \/ UNCHANGED vars
  BY <1>10, <1>f DEF EmptyRead, Arrives, Fails, ReadHandshake, Upgrade, WriteHandshake, vars,
     queueVars, readSide, peerSide
<1> QED
  BY <1>1, <1>2, <1>3, <1>4, <1>5, <1>6, <1>7, <1>8, <1>9, <1>10 DEF Next, ReadHandlers

-----------------------------------------------------------------------------
(* The callbacks of the endpoint                                           *)

Handshaking == {"accepted", "request", "response", "refusal"}
Looping == {"posted", "header", "length", "content", "callback"}

\* stop() found the connection in its endpoint and shut its socket down.
StoppedHere == stopCalled /\ ~socketUp

\* The connection is in its endpoint, or was until stop().
Member == inEndpoint \/ StoppedHere

\* The callbacks so far, and the endpoint, by the operation of the chain.
EventPhases ==
    /\ chain \in Handshaking \union {"entering"} => events = << >> /\ ~inEndpoint
    /\ chain = "opening" => events = << >> /\ Member
    /\ chain \in Looping \union {"refusing"} => Serving(events) /\ Member
    /\ chain = "failing" => (events = << >> /\ ~inEndpoint) \/ (Serving(events) /\ Member)
    /\ chain = "failed" => (events = << >> \/ Serving(events)) /\ ~inEndpoint
    /\ chain = "refused" => Serving(events) /\ ~inEndpoint
    /\ chain \in {"closing", "closed"} =>
          (Serving(events) /\ Member) \/ (SizeRefused(events) /\ ~inEndpoint)
    /\ chain = "leaving" => (Serving(events) \/ SizeRefused(events)) /\ ~inEndpoint
    /\ chain = "ended" => (events = << >> \/ Over(events)) /\ ~inEndpoint

\* What users of the endpoint may rely on.
LEMMA PhasesSuffice ==
    ASSUME EventPhases, chain \in Chains
    PROVE  EventsWellFormed /\ Membership
<1>1. /\ EventsWellFormed <=> WellFormed(events)
      /\ Opened <=> HasOpened(events)
      /\ Ended <=> HasEnded(events)
  BY DEF EventsWellFormed, WellFormed, Opened, HasOpened, Ended, HasEnded, Terminal, Endings
<1>2. events = << >> \/ Serving(events) \/ SizeRefused(events) \/ Over(events)
  BY DEF EventPhases, Chains, Reads, Responses, OnThread, Handshaking, Looping
<1>3. EventsWellFormed
  <2>1. events = << >> => WellFormed(events)
    BY DEF WellFormed
  <2> QED
    BY <1>1, <1>2, <2>1, ServingFacts, RefusedFacts, OverFacts
<1>4. events = << >> => ~Opened /\ ~Ended
  BY DEF Opened, Ended
<1>5. /\ Serving(events) => Opened /\ ~Ended
      /\ SizeRefused(events) \/ Over(events) => Ended
  BY <1>1, ServingFacts, RefusedFacts, OverFacts
<1>6. Membership
  BY <1>4, <1>5 DEF EventPhases, Membership, Entered, Left, Member, StoppedHere, Chains, Reads,
     Responses, OnThread, Handshaking, Looping
<1> QED
  BY <1>3, <1>6

\* The socket stays down.
LEMMA SocketStays == [Next]_vars /\ ~socketUp => ~socketUp'
<1>. SUFFICES ASSUME [Next]_vars, ~socketUp PROVE ~socketUp'
  OBVIOUS
<1>1. ASSUME NEW t \in IoThreads, ReadHandlers(t) \/ ReaderGoesOn(t)
      PROVE  ~socketUp'
  BY <1>1 DEF ReadHandlers, ReaderGoesOn, OnRequest, OnResponse, StartRead, OnHeader, OnLength,
     OnContent, ReturnFromCallback, ConnectionOpen, OnOpen, ConnectionErased, OnError, OnClose,
     queueVars
<1>2. ASSUME NEW t \in IoThreads, WriteSide(t)
      PROVE  ~socketUp'
  BY <1>2 DEF WriteSide, Q!StartWrite, Q!WriteHandler, Q!EndWrite, Q!RunCallback, Q!TimerHandler,
     Q!CloseSocket
<1>3. ASSUME NEW c, Q!CallSend(c) \/ Q!TestCloseSent(c) \/ Q!SetCloseSent(c) \/ Q!SendClose(c)
      PROVE  ~socketUp'
  BY <1>3 DEF Q!CallSend, Q!TestCloseSent, Q!SetCloseSent, Q!SendClose
<1>4. CASE ReaderCloses \/ CallbackSends
  BY <1>3, <1>4 DEF ReaderCloses, CallbackSends, CloseAlreadySent, EndingTestsClose, ReaderSetsClose,
     ReaderSendsClose, queueVars
<1>5. ASSUME NEW u \in Users, UserNext(u)
      PROVE  ~socketUp'
  BY <1>3, <1>5 DEF UserNext, Q!CallerNext
<1>6. CASE UserCloses \/ SocketNext \/ Stop
  BY <1>6 DEF UserCloses, SocketNext, Stop, Q!CallClose, Q!SocketWrites, Q!SocketFails,
     Q!TimerExpires, Q!CloseSocket
<1>7. CASE HeaderArrives \/ EmptyRead \/ Arrives \/ Fails \/ ReadHandshake \/ Upgrade
             \/ UNCHANGED vars
  BY <1>7 DEF HeaderArrives, EmptyRead, Arrives, Fails, ReadHandshake, Upgrade, vars, queueVars
<1> QED
  BY <1>1, <1>2, <1>4, <1>5, <1>6, <1>7 DEF Next

\* Steps that call nothing and leave the endpoint as it is.
Unheard ==
    /\ UNCHANGED << events, inEndpoint >>
    /\ StoppedHere => StoppedHere'
    /\ \/ chain' = chain
       \/ chain \in Handshaking /\ chain' \in Handshaking \union {"entering", "failing", "ended"}
       \/ chain \in Looping /\ chain' \in Looping \union {"failing", "refusing", "closing"}
       \/ chain = "closing" /\ chain' = "closed"

LEMMA UnheardKeeps == EventPhases /\ Unheard => EventPhases'
  BY DEF EventPhases, Unheard, Member, Handshaking, Looping

LEMMA PhasesStep ==
    ASSUME EventPhases, chain \in Chains, [Next]_vars
    PROVE  EventPhases'
<1> USE UnheardKeeps
<1>a. UNCHANGED stopCalled => (StoppedHere => StoppedHere')
  BY SocketStays DEF StoppedHere
<1>1. ASSUME NEW t \in IoThreads, OnRequest(t) \/ StartRead(t) \/ OnResponse(t)
      PROVE  EventPhases'
  BY <1>1, <1>a DEF OnRequest, StartRead, OnResponse, GoOn, WriteHandshake, Unheard, Handshaking,
     Looping
<1>2. ASSUME NEW t \in IoThreads, OnHeader(t) \/ OnLength(t) \/ ReturnFromCallback(t)
      PROVE  EventPhases'
  BY <1>2, <1>a DEF OnHeader, OnLength, ReturnFromCallback, GoOn, ReadContent, ReadMessageContent,
     ReadMessage, Unheard, Looping
<1>3. ASSUME NEW t \in IoThreads, OnContent(t)
      PROVE  EventPhases'
  <2>1. chain = "content" /\ UNCHANGED << stopCalled, inEndpoint >>
    BY <1>3 DEF OnContent
  <2>2. CASE UNCHANGED events /\ chain' \in {"posted", "closing", "failing"}
    BY <1>a, <2>1, <2>2 DEF Unheard, Looping
  <2>3. CASE chain' \in {"posted", "callback"} /\ \E e \in Benign : Callback(e)
    <3>1. Serving(events')
      BY <2>1, <2>3, ServesOn DEF EventPhases, Callback, Looping
    <3>2. Member'
      BY <1>a, <2>1 DEF EventPhases, Looping, Member
    <3> QED
      BY <2>3, <3>1, <3>2 DEF EventPhases, Handshaking, Looping
  <2> QED
    BY <1>3, <2>2, <2>3 DEF OnContent, OnCloseFrame, OnPing, OnPong, OnFragment, OnMessage,
       GoOn, ReadMessage, Benign
<1>4. ASSUME NEW t \in IoThreads, ConnectionOpen(t) \/ ConnectionErased(t)
      PROVE  EventPhases'
  BY <1>4 DEF ConnectionOpen, ConnectionErased, EventPhases, Member, Handshaking, Looping
<1>5. ASSUME NEW t \in IoThreads, OnOpen(t)
      PROVE  EventPhases'
  <2>1. events' = << "open" >> /\ Member'
    BY <1>5, <1>a DEF OnOpen, EventPhases, Callback, Member, queueVars
  <2> QED
    BY <1>5, <2>1, FirstServes DEF OnOpen, EventPhases, Handshaking, Looping
<1>6. ASSUME NEW t \in IoThreads, OnError(t)
      PROVE  EventPhases'
  <2>1. CASE chain = "failed"
    <3>1. Append(<< >>, "error") = << "error" >>
      OBVIOUS
    <3>2. Over(events') /\ ~inEndpoint'
      BY <1>6, <2>1, <3>1 DEF OnError, EventPhases, Callback, Over
    <3> QED
      BY <1>6, <2>1, <3>2 DEF OnError, EventPhases, Handshaking, Looping
  <2>2. CASE chain = "refused"
    <3>1. SizeRefused(events') /\ ~inEndpoint'
      BY <1>6, <2>2, RefusesSize DEF OnError, EventPhases, Callback
    <3> QED
      BY <1>6, <2>2, <3>1 DEF OnError, EventPhases, Handshaking, Looping
  <2> QED
    BY <1>6, <2>1, <2>2 DEF OnError
<1>7. ASSUME NEW t \in IoThreads, OnClose(t)
      PROVE  EventPhases'
  <2>1. Over(events') /\ ~inEndpoint'
    BY <1>7 DEF OnClose, EventPhases, Callback, Over
  <2> QED
    BY <1>7, <2>1 DEF OnClose, EventPhases, Handshaking, Looping
<1>8. ASSUME NEW t \in IoThreads, WriteSide(t)
      PROVE  EventPhases'
  BY <1>8, <1>a DEF WriteSide, readSide, Unheard
<1>9. CASE ReaderCloses \/ CallbackSends
  BY <1>9, <1>a DEF ReaderCloses, CallbackSends, CloseAlreadySent, EndingTestsClose, ReaderSetsClose,
     ReaderSendsClose, readSide, Unheard
<1>10. ASSUME NEW u \in Users, UserNext(u)
       PROVE  EventPhases'
  BY <1>10, <1>a DEF UserNext, readSide, Unheard
<1>11. CASE UserCloses \/ SocketNext \/ HeaderArrives \/ EmptyRead \/ Arrives \/ Fails
              \/ ReadHandshake \/ Upgrade \/ UNCHANGED vars
  BY <1>11, <1>a DEF UserCloses, SocketNext, HeaderArrives, EmptyRead, Arrives, Fails,
     ReadHandshake, Upgrade, WriteHandshake, vars, readSide, Unheard, Handshaking
<1>12. CASE Stop
  <2>1. Member => Member'
    BY <1>12 DEF Stop, Member, StoppedHere, Q!CloseSocket
  <2> QED
    BY <1>12, <2>1 DEF Stop, EventPhases
<1> QED
  BY <1>1, <1>2, <1>3, <1>4, <1>5, <1>6, <1>7, <1>8, <1>9, <1>10, <1>11, <1>12
     DEF Next, ReadHandlers, ReaderGoesOn

-----------------------------------------------------------------------------
(* max_message_size                                                        *)

\* The payload is only read of a frame that keeps the message in its limit; and
\* as no sum of two such lengths wraps, the code's length is the size it keeps.
Limited ==
    2 * MaxMessage < SizeModulus =>
        /\ fragment.length = fragment.size
        /\ fragment.size <= MaxMessage
        /\ chain = "content" => frame.length + fragment.length <= MaxMessage

\* What passes the test of the limit is within it.
LEMMA TestMeansLimit ==
    ASSUME ReadTypes, 2 * MaxMessage < SizeModulus, fragment.length <= MaxMessage, ~TooBig
    PROVE  frame.length + fragment.length <= MaxMessage
<1>1. /\ SizeModulus \in Nat /\ MaxMessage \in Nat
      /\ frame.length \in Nat /\ frame.length + frame.length < SizeModulus
      /\ fragment.length \in Nat
  BY ConnectionAssumption, Sizes DEF ReadTypes, PeerFrame, FragmentTypes
<1>2. frame.length + fragment.length < SizeModulus /\ frame.length + fragment.length \in Nat
  BY <1>1
<1>3. (frame.length + fragment.length) % SizeModulus = frame.length + fragment.length
  BY <1>2, Wrapped
<1>4. (frame.length + fragment.length) % SizeModulus \in Nat
  BY <1>2, <1>3
<1> QED
  BY <1>1, <1>3, <1>4 DEF TooBig

LEMMA LimitedStep ==
    ASSUME ReadTypes, Limited, [Next]_vars
    PROVE  Limited'
<1>. SUFFICES ASSUME 2 * MaxMessage < SizeModulus
              PROVE  /\ fragment'.length = fragment'.size
                     /\ fragment'.size <= MaxMessage
                     /\ chain' = "content" => frame'.length + fragment'.length <= MaxMessage
  BY DEF Limited
<1>. DEFINE Goal == /\ fragment'.length = fragment'.size
                    /\ fragment'.size <= MaxMessage
                    /\ chain' = "content" => frame'.length + fragment'.length <= MaxMessage
<1>. SUFFICES Goal
  OBVIOUS
<1>a. /\ fragment.length = fragment.size
      /\ fragment.size <= MaxMessage
      /\ chain = "content" => frame.length + fragment.length <= MaxMessage
  BY DEF Limited
<1>1. ASSUME UNCHANGED << fragment, frame >>,
             chain' = "content" => chain = "content" \/ ~TooBig
      PROVE  Goal
  BY <1>1, <1>a, TestMeansLimit
<1>b. /\ NoFragment.length = 0 /\ NoFragment.size = 0
      /\ Joined.length = (fragment.length + frame.length) % SizeModulus
      /\ Joined.size = fragment.size + frame.length
  BY DEF NoFragment, Joined
<1>2. ASSUME NEW t \in IoThreads, OnRequest(t) \/ OnResponse(t) \/ StartRead(t)
      PROVE  Goal
  BY <1>1, <1>2 DEF OnRequest, OnResponse, StartRead, WriteHandshake, GoOn
<1>3. ASSUME NEW t \in IoThreads, OnHeader(t) \/ OnLength(t)
      PROVE  Goal
  BY <1>1, <1>3 DEF OnHeader, OnLength, GoOn, ReadContent, ReadMessage, ReadMessageContent
<1>4. ASSUME NEW t \in IoThreads, OnContent(t)
      PROVE  Goal
  <2>1. chain = "content" /\ UNCHANGED frame
    BY <1>4 DEF OnContent
  <2>2. fragment' \in {fragment, Joined}
    BY <1>4 DEF OnContent, OnCloseFrame, OnPing, OnPong, OnFragment, OnMessage
  <2>3. chain' # "content"
    BY <1>4 DEF OnContent, GoOn, OnCloseFrame, OnPing, OnPong, OnFragment, OnMessage, ReadMessage
  <2>4. Joined.length = Joined.size /\ Joined.size <= MaxMessage
    <3>1. /\ frame.length \in Nat /\ fragment.length \in Nat /\ MaxMessage \in Nat
          /\ SizeModulus \in Nat
      BY ConnectionAssumption, Sizes DEF ReadTypes, PeerFrame, FragmentTypes
    <3>2. /\ fragment.length + frame.length = frame.length + fragment.length
          /\ fragment.length + frame.length \in Nat
          /\ fragment.length + frame.length < SizeModulus
      BY <1>a, <2>1, <3>1
    <3> QED
      BY <1>a, <1>b, <2>1, <3>2, Wrapped
  <2> QED
    BY <1>a, <2>2, <2>3, <2>4
<1>5. ASSUME NEW t \in IoThreads, ReturnFromCallback(t)
      PROVE  Goal
  <2>1. MaxMessage \in Nat
    BY ConnectionAssumption
  <2> QED
    BY <1>5, <1>b, <2>1 DEF ReturnFromCallback, ReadMessage
<1>6. ASSUME NEW t \in IoThreads,
             \/ ConnectionOpen(t) \/ OnOpen(t) \/ ConnectionErased(t) \/ OnError(t) \/ OnClose(t)
             \/ WriteSide(t)
      PROVE  Goal
  BY <1>1, <1>6 DEF ConnectionOpen, OnOpen, ConnectionErased, OnError, OnClose, WriteSide, readSide
<1>7. CASE ReaderCloses \/ CallbackSends \/ UserCloses \/ SocketNext \/ Stop
  BY <1>1, <1>7 DEF ReaderCloses, CallbackSends, CloseAlreadySent, EndingTestsClose, ReaderSetsClose,
     ReaderSendsClose, UserCloses, SocketNext, Stop, readSide
<1>8. ASSUME NEW u \in Users, UserNext(u)
      PROVE  Goal
  BY <1>1, <1>8 DEF UserNext, readSide
<1>9. CASE EmptyRead \/ Arrives \/ Fails \/ ReadHandshake \/ Upgrade \/ UNCHANGED vars
  BY <1>1, <1>9 DEF EmptyRead, Arrives, Fails, ReadHandshake, Upgrade, WriteHandshake, vars, readSide
<1>10. CASE HeaderArrives
  BY <1>10, <1>a DEF HeaderArrives
<1> QED
  BY <1>2, <1>3, <1>4, <1>5, <1>6, <1>7, <1>8, <1>9, <1>10 DEF Next, ReadHandlers, ReaderGoesOn

-----------------------------------------------------------------------------
(* Messages                                                                *)

\* Nothing has arrived unless it is waited for.
Awaited == arrived # "none" => chain \in Reads \union Responses

\* A frame was received whose handlers are not done with it.
InHand == (chain = "header" /\ arrived = "ok") \/ chain \in {"length", "content"}

\* What the frame in hand lacks in what the read side has.
FrameInHand ==
    /\ frame.type = "text" =>
          /\ fragment.frames = << >> /\ partial = << >>
          /\ messages = Append(delivered, << frame.no >>)
    /\ frame.type \in {"first", "cont"} =>
          /\ partial = Append(fragment.frames, frame.no)
          /\ messages = delivered
    /\ frame.type = "last" =>
          /\ partial = << >>
          /\ messages = Append(delivered, Append(fragment.frames, frame.no))
    /\ frame.type \in ControlTypes \union {"unmasked"} =>
          /\ partial = fragment.frames
          /\ messages = delivered

PeerTypes ==
    /\ partial \in Seq(Nat)
    /\ messages \in Seq(Seq(Nat))
    /\ delivered \in Seq(Seq(Nat))

\* Before the first message, and after the last.
Beginning == Handshaking \union {"entering", "opening"}
Ending == {"failing", "failed", "refusing", "refused", "closing", "closed", "leaving", "ended"}

\* The read side has all that was sent, but for the frame in hand; when it
\* gives up, it misses at most one message.
UpToDate ==
    /\ Awaited
    /\ PeerTypes
    /\ delivered = messages \/ \E m \in Seq(Nat) : messages = Append(delivered, m)
    /\ InHand => FrameInHand
    /\ chain \in {"posted", "header"} /\ ~InHand => partial = fragment.frames /\ delivered = messages
    /\ chain = "callback" => partial = << >> /\ delivered = messages
    /\ chain \in Beginning => fragment = NoFragment /\ partial = << >> /\ delivered = messages

LEMMA UpToDateSuffices == UpToDate => MessageIntegrity
<1>. SUFFICES ASSUME UpToDate PROVE MessageIntegrity
  OBVIOUS
<1>1. /\ Len(delivered) \in Nat
      /\ DOMAIN delivered = 1..Len(delivered)
  BY LenProperties DEF UpToDate, PeerTypes
<1>2. /\ Len(delivered) <= Len(messages)
      /\ \A i \in DOMAIN delivered : delivered[i] = messages[i]
  <2>1. CASE delivered = messages
    BY <1>1, <2>1
  <2>2. ASSUME NEW m \in Seq(Nat), messages = Append(delivered, m)
        PROVE  /\ Len(delivered) <= Len(messages)
               /\ \A i \in DOMAIN delivered : delivered[i] = messages[i]
    <3>1. delivered \in Seq(Seq(Nat))
      BY DEF UpToDate, PeerTypes
    <3> QED
      BY <1>1, <2>2, <3>1, AppendProperties
  <2> QED
    BY <2>1, <2>2 DEF UpToDate
<1>3. chain = "header" /\ arrived = "none" => delivered = messages
  BY DEF UpToDate, InHand
<1> QED
  BY <1>2, <1>3 DEF MessageIntegrity

\* Steps that deliver nothing and change neither the fragment nor the frame.
LEMMA UpToDateKept ==
    ASSUME UpToDate, UNCHANGED << fragment, partial, messages, delivered, frame >>, Awaited',
           \/ chain' = chain /\ (InHand' <=> InHand)
           \/ chain \in Beginning /\ chain' \in Beginning \union {"callback"}
           \/ chain' \in Ending
           \/ InHand /\ chain' \in {"length", "content"}
           \/ chain = "posted" /\ chain' = "header" /\ arrived' = arrived
           \/ chain = "header" /\ ~InHand /\ chain' = "posted"
    PROVE  UpToDate'
<1>1. PeerTypes' /\ FrameInHand' = FrameInHand
  BY DEF UpToDate, PeerTypes, FrameInHand
<1> QED
  BY <1>1 DEF UpToDate, InHand, Awaited, Beginning, Ending, Handshaking, Reads, Responses

\* The last handler of a frame, by the type of the frame.
LEMMA ContentUpToDate ==
    ASSUME UpToDate, ReadTypes, NEW t \in IoThreads, OnContent(t)
    PROVE  UpToDate'
<1>1. /\ chain = "content" /\ UNCHANGED << frame, partial, messages >>
      /\ FrameInHand /\ arrived' = "none"
  BY DEF OnContent, UpToDate, InHand, peerSide, StartHandler
<1>2. CASE GoOn(t, "failing") /\ UNCHANGED << fragment, delivered >>
  BY <1>1, <1>2, UpToDateKept DEF GoOn, Awaited, Ending
<1>3. CASE OnCloseFrame(t)
  BY <1>1, <1>3, UpToDateKept DEF OnCloseFrame, GoOn, Awaited, Ending
<1>4. CASE OnPing \/ OnPong
  <2>1. chain' = "posted" /\ UNCHANGED << fragment, delivered >> /\ frame.type \in ControlTypes
    BY <1>4 DEF OnPing, OnPong, ReadMessage, ControlTypes
  <2> QED
    BY <1>1, <2>1 DEF UpToDate, Awaited, InHand, PeerTypes, FrameInHand, Beginning, Handshaking
<1>5. CASE OnFragment
  <2>1. chain' = "posted" /\ fragment' = Joined /\ UNCHANGED delivered
        /\ frame.type \in {"first", "cont"}
    BY <1>5 DEF OnFragment, ReadMessage
  <2>2. fragment'.frames = partial
    BY <1>1, <2>1 DEF FrameInHand, Joined
  <2> QED
    BY <1>1, <2>1, <2>2 DEF UpToDate, Awaited, InHand, PeerTypes, FrameInHand, Beginning, Handshaking
<1>6. CASE OnMessage(t)
  <2>1. chain' = "callback"
    BY <1>6 DEF OnMessage, GoOn
  <2>2. delivered' = messages /\ partial = << >>
    <3>1. CASE frame.type = "text"
      BY <1>1, <1>6, <3>1 DEF OnMessage, FrameInHand
    <3>2. CASE frame.type = "last"
      BY <1>1, <1>6, <3>2 DEF OnMessage, FrameInHand, Joined
    <3> QED
      BY <1>6, <3>1, <3>2 DEF OnMessage
  <2> QED
    BY <1>1, <2>1, <2>2 DEF UpToDate, Awaited, InHand, PeerTypes, Beginning, Handshaking
<1> QED
  BY <1>2, <1>3, <1>4, <1>5, <1>6 DEF OnContent

\* The peer sends a frame.
LEMMA HeaderUpToDate ==
    ASSUME UpToDate, ReadTypes, HeaderArrives
    PROVE  UpToDate'
<1>1. /\ chain = "header" /\ chain' = "header" /\ arrived' = "ok"
      /\ UNCHANGED << fragment, delivered >>
  BY DEF HeaderArrives
<1>2. partial = fragment.frames /\ delivered = messages
  BY DEF HeaderArrives, UpToDate, InHand
<1>3. PICK f \in NextFrames :
          /\ Legal(f)
          /\ frame' = f
          /\ partial' = CASE f.type \in {"first", "cont"} -> Append(partial, f.no)
                          [] f.type = "last" -> << >>
                          [] OTHER -> partial
          /\ messages' = IF f.type \in {"text", "last"}
                           THEN Append(messages, Append(partial, f.no))
                           ELSE messages
  BY DEF HeaderArrives
<1>4. f.no \in Nat /\ f.type \in FrameTypes
  BY DEF NextFrames, FrameTypes, ReadTypes
<1>5. partial \in Seq(Nat) /\ messages \in Seq(Seq(Nat)) /\ Append(partial, f.no) \in Seq(Nat)
  BY <1>4, AppendProperties DEF UpToDate, PeerTypes
<1>6. /\ f.type \in {"first", "cont"} => partial' = Append(partial, f.no)
      /\ f.type = "last" => partial' = << >>
      /\ f.type \notin {"first", "cont", "last"} => partial' = partial
  BY <1>3
<1>7. PeerTypes'
  <2>1. partial' \in Seq(Nat)
    BY <1>3, <1>5, <1>6
  <2>2. messages' \in Seq(Seq(Nat))
    BY <1>3, <1>5, AppendProperties
  <2> QED
    BY <1>1, <2>1, <2>2 DEF UpToDate, PeerTypes
<1>8. FrameInHand'
  <2>1. CASE f.type = "text"
    <3>1. partial = << >>
      BY <1>3, <2>1 DEF Legal
    <3>2. Append(partial, f.no) = << f.no >>
      BY <3>1
    <3> QED
      BY <1>1, <1>2, <1>3, <1>6, <2>1, <3>1, <3>2 DEF FrameInHand, ControlTypes
  <2>2. CASE f.type # "text"
    BY <1>1, <1>2, <1>3, <1>4, <1>6, <2>2 DEF FrameInHand, ControlTypes, FrameTypes, DataTypes
  <2> QED
    BY <2>1, <2>2
<1>9. delivered' = messages' \/ \E m \in Seq(Nat) : messages' = Append(delivered', m)
  BY <1>1, <1>2, <1>3, <1>5
<1> QED
  BY <1>1, <1>7, <1>8, <1>9 DEF UpToDate, Awaited, Reads, InHand, Beginning, Handshaking

LEMMA UpToDateStep ==
    ASSUME UpToDate, ReadTypes, [Next]_vars
    PROVE  UpToDate'
<1> USE UpToDateKept DEF Awaited, Reads, Responses
<1>a. Awaited
  BY DEF UpToDate
<1>1. ASSUME NEW t \in IoThreads, OnRequest(t) \/ OnResponse(t)
      PROVE  UpToDate'
  BY <1>1 DEF OnRequest, OnResponse, StartHandler, WriteHandshake, GoOn, peerSide, Handshaking,
     Beginning, Ending
<1>2. ASSUME NEW t \in IoThreads, StartRead(t)
      PROVE  UpToDate'
  BY <1>2, <1>a DEF StartRead, peerSide
<1>3. ASSUME NEW t \in IoThreads, OnHeader(t) \/ OnLength(t)
      PROVE  UpToDate'
  BY <1>3 DEF OnHeader, OnLength, StartHandler, GoOn, ReadMessage, ReadMessageContent,
     ReadContent, peerSide, InHand, Ending
<1>4. ASSUME NEW t \in IoThreads, ReturnFromCallback(t)
      PROVE  UpToDate'
  <2>1. chain = "callback" /\ chain' = "posted" /\ fragment' = NoFragment
        /\ UNCHANGED << arrived, frame, partial, messages, delivered >>
    BY <1>4 DEF ReturnFromCallback, ReadMessage, peerSide
  <2> QED
    BY <2>1 DEF UpToDate, PeerTypes, InHand, NoFragment, Beginning, Handshaking
<1>5. ASSUME NEW t \in IoThreads,
             ConnectionOpen(t) \/ OnOpen(t) \/ ConnectionErased(t) \/ OnError(t) \/ OnClose(t)
      PROVE  UpToDate'
  BY <1>5, <1>a DEF ConnectionOpen, OnOpen, ConnectionErased, OnError, OnClose, peerSide, Beginning,
     Ending
<1>6. ASSUME NEW t \in IoThreads, WriteSide(t)
      PROVE  UpToDate'
  BY <1>6, <1>a DEF WriteSide, readSide, peerSide, InHand
<1>7. CASE ReaderCloses \/ CallbackSends \/ UserCloses \/ SocketNext \/ Stop
  BY <1>7, <1>a DEF ReaderCloses, CallbackSends, CloseAlreadySent, EndingTestsClose, ReaderSetsClose,
     ReaderSendsClose, UserCloses, SocketNext, Stop, readSide, peerSide, InHand, Ending
<1>8. ASSUME NEW u \in Users, UserNext(u)
      PROVE  UpToDate'
  BY <1>8, <1>a DEF UserNext, readSide, peerSide, InHand
<1>9. CASE EmptyRead \/ Arrives \/ Fails
  BY <1>9, <1>a DEF EmptyRead, Arrives, Fails, peerSide, InHand
<1>10. CASE ReadHandshake \/ Upgrade \/ UNCHANGED vars
  BY <1>10, <1>a DEF ReadHandshake, Upgrade, WriteHandshake, vars, readSide, peerSide, InHand,
     Beginning, Handshaking
<1> QED
  BY <1>1, <1>2, <1>3, <1>4, <1>5, <1>6, <1>7, <1>8, <1>9, <1>10, ContentUpToDate, HeaderUpToDate
     DEF Next, ReadHandlers, ReaderGoesOn

-----------------------------------------------------------------------------
(* What the handlers of the endpoint are promised (InStream)               *)

\* The next step of the stream, or none.
InMapped == [In!InNext]_(In!inVars)

LEMMA Silent == UNCHANGED << messages, delivered, events >> => InMapped
  BY DEF InMapped, In!inVars

\* The connection is served as long as its loop goes on.
LEMMA LoopGoesOn ==
    ASSUME EventPhases, chain \in Looping
    PROVE  In!Going
<1>1. Serving(events)
  BY DEF EventPhases
<1> QED
  BY <1>1, LastHeard DEF In!Going, In!HeardLast

\* The peer sends the last frame of a message, or another frame.
LEMMA HeaderOffers ==
    ASSUME EventPhases, UpToDate, ReadTypes, HeaderArrives
    PROVE  InMapped
<1>1. chain = "header" /\ delivered = messages /\ UNCHANGED << delivered, events >>
  BY DEF HeaderArrives, UpToDate, InHand
<1>2. In!Going
  BY <1>1, LoopGoesOn DEF Looping
<1>3. PICK f \in NextFrames :
          messages' = IF f.type \in {"text", "last"}
                        THEN Append(messages, Append(partial, f.no))
                        ELSE messages
  BY DEF HeaderArrives
<1>4. CASE f.type \notin {"text", "last"}
  BY <1>1, <1>3, <1>4, Silent
<1>5. CASE f.type \in {"text", "last"}
  <2>1. f.no \in Nat
    BY DEF NextFrames, ReadTypes
  <2>2. partial \in Seq(Nat) /\ messages \in Seq(Seq(Nat)) /\ Append(partial, f.no) \in Seq(Nat)
    BY <2>1, AppendProperties DEF UpToDate, PeerTypes
  <2>3. messages' = Append(messages, Append(partial, f.no))
    BY <1>3, <1>5
  <2>4. \E i \in DOMAIN messages' : messages'[i] = Append(partial, f.no)
    <3>1. /\ Len(messages) + 1 \in DOMAIN messages'
          /\ messages'[Len(messages) + 1] = Append(partial, f.no)
      BY <2>2, <2>3, AppendProperties, LenProperties
    <3> QED
      BY <3>1
  <2>5. In!Offer
    BY <1>1, <1>2, <2>3, <2>4 DEF In!Offer
  <2> QED
    BY <2>5 DEF InMapped, In!InNext
<1> QED
  BY <1>4, <1>5

\* A message is given to on_message, or a control frame answered.
LEMMA ContentHeard ==
    ASSUME EventPhases, UpToDate, ReadTypes, NEW t \in IoThreads, OnContent(t)
    PROVE  InMapped
<1>1. chain = "content" /\ UNCHANGED messages /\ FrameInHand
  BY DEF OnContent, UpToDate, InHand, peerSide
<1>2. In!Going
  BY <1>1, LoopGoesOn DEF Looping
<1>3. CASE UNCHANGED << delivered, events >>
  BY <1>1, <1>3, Silent
<1>4. CASE OnCloseFrame(t) \/ OnFragment
  BY <1>1, <1>4, Silent DEF OnCloseFrame, OnFragment
<1>5. CASE OnPing \/ OnPong
  <2>1. delivered = messages /\ UNCHANGED delivered
    BY <1>1, <1>5 DEF OnPing, OnPong, FrameInHand, ControlTypes
  <2> QED
    BY <1>1, <1>2, <1>5, <2>1 DEF OnPing, OnPong, Callback, InMapped, In!InNext, In!Control, In!Hear
<1>6. CASE OnMessage(t)
  <2>1. PICK m \in Seq(Nat) : messages = Append(delivered, m) /\ delivered' = messages
    <3>1. frame.no \in Nat /\ fragment.frames \in Seq(Nat)
      BY DEF ReadTypes, FragmentTypes, PeerFrame
    <3>2. << frame.no >> \in Seq(Nat) /\ Append(fragment.frames, frame.no) \in Seq(Nat)
      BY <3>1, AppendProperties
    <3>3. CASE frame.type = "text"
      BY <1>1, <1>6, <3>2, <3>3 DEF OnMessage, FrameInHand
    <3>4. CASE frame.type = "last"
      BY <1>1, <1>6, <3>2, <3>4 DEF OnMessage, FrameInHand, Joined
    <3> QED
      BY <1>6, <3>3, <3>4 DEF OnMessage
  <2>2. delivered # messages
    BY <2>1, AppendProperties, LenProperties DEF UpToDate, PeerTypes
  <2> QED
    BY <1>1, <1>2, <1>6, <2>1, <2>2 DEF OnMessage, Callback, InMapped, In!InNext, In!Take, In!Hear
<1> QED
  BY <1>3, <1>4, <1>5, <1>6 DEF OnContent

\* Each step of a connection is a step of the stream, or leaves it as it is.
LEMMA InSteps ==
    ASSUME EventPhases, UpToDate, ReadTypes, [Next]_vars
    PROVE  InMapped
<1> USE Silent
<1>1. ASSUME NEW t \in IoThreads,
             \/ OnRequest(t) \/ OnResponse(t) \/ StartRead(t) \/ OnHeader(t) \/ OnLength(t)
             \/ ReturnFromCallback(t) \/ ConnectionOpen(t) \/ ConnectionErased(t) \/ WriteSide(t)
      PROVE  InMapped
  BY <1>1 DEF OnRequest, OnResponse, StartRead, OnHeader, OnLength, ReturnFromCallback,
     ConnectionOpen, ConnectionErased, WriteSide, peerSide, readSide
<1>2. ASSUME NEW t \in IoThreads, OnOpen(t)
      PROVE  InMapped
  BY <1>2 DEF OnOpen, EventPhases, Callback, peerSide, InMapped, In!InNext, In!Open, In!Hear
<1>a. ASSUME Serving(events)
      PROVE  In!Going
  BY <1>a, LastHeard DEF In!Going, In!HeardLast
<1>3. ASSUME NEW t \in IoThreads, OnError(t)
      PROVE  InMapped
  <2>1. UNCHANGED << messages, delivered >>
    BY <1>3 DEF OnError, peerSide
  <2>2. CASE chain = "failed" /\ Callback("error")
    <3>1. events = << >> \/ In!Going
      BY <1>a, <2>2 DEF EventPhases
    <3> QED
      BY <2>1, <2>2, <3>1 DEF Callback, InMapped, In!InNext, In!Fail, In!Hear
  <2>3. CASE chain = "refused" /\ Callback("message_size")
    <3>1. In!Going
      BY <1>a, <2>3 DEF EventPhases
    <3> QED
      BY <2>1, <2>3, <3>1 DEF Callback, InMapped, In!InNext, In!Refuse, In!Hear
  <2> QED
    BY <1>3, <2>2, <2>3 DEF OnError
<1>4. ASSUME NEW t \in IoThreads, OnClose(t)
      PROVE  InMapped
  <2>1. In!Going \/ In!HeardLast({"message_size"})
    <3>1. Serving(events) \/ SizeRefused(events)
      BY <1>4 DEF OnClose, EventPhases
    <3> QED
      BY <3>1, LastHeard DEF In!Going, In!HeardLast
  <2> QED
    BY <1>4, <2>1 DEF OnClose, Callback, peerSide, InMapped, In!InNext, In!Finish, In!Hear
<1>5. CASE ReaderCloses \/ CallbackSends \/ UserCloses \/ SocketNext \/ Stop
  BY <1>5 DEF ReaderCloses, CallbackSends, CloseAlreadySent, EndingTestsClose, ReaderSetsClose,
     ReaderSendsClose, UserCloses, SocketNext, Stop, readSide, peerSide
<1>6. ASSUME NEW u \in Users, UserNext(u)
      PROVE  InMapped
  BY <1>6 DEF UserNext, readSide, peerSide
<1>7. CASE EmptyRead \/ Arrives \/ Fails \/ ReadHandshake \/ Upgrade \/ UNCHANGED vars
  BY <1>7 DEF EmptyRead, Arrives, Fails, ReadHandshake, Upgrade, vars, readSide, peerSide
<1> QED
  BY <1>1, <1>2, <1>3, <1>4, <1>5, <1>6, <1>7, HeaderOffers, ContentHeard
     DEF Next, ReadHandlers, ReaderGoesOn

-----------------------------------------------------------------------------
(* Timeouts                                                                *)

\* Until the connection is entered nobody can send, so that no handler of a
\* write takes the timer from the handshake.
NothingSent ==
    chain \in Handshaking =>
        /\ completed = << >> /\ posted = << >> /\ writing = << >>
        /\ \A c \in Users \union {Reader} : callerPc[c] = "idle"

\* A timer, or its handler, will end what the connection waits for.
Covered == timer = "armed" \/ expired > 0

Waiting == {"posted", "header", "length", "content"}

\* ReadsTimed by the operation of the chain.
Watched ==
    /\ socketUp /\ RequestTimeout /\ chain \in {"request", "response", "refusal"} => Covered
    /\ socketUp /\ IdleTimeout /\ chain \in Waiting => Covered

LEMMA WatchedIsTimed == Watched <=> ReadsTimed
  BY DEF Watched, Waiting, Covered, ReadsTimed, Responses

LEMMA NothingSentStep ==
    ASSUME EventPhases, ReaderCalls, NothingSent, chain \in Chains, [Next]_vars
    PROVE  NothingSent'
<1> USE DEF NothingSent, Handshaking
<1>1. CASE chain' \notin Handshaking
  BY <1>1
<1>2. ASSUME UNCHANGED << completed, posted, writing, callerPc >>,
             chain' \in Handshaking => chain \in Handshaking
      PROVE  NothingSent'
  BY <1>2
<1>3. ASSUME NEW t \in IoThreads, ReadHandlers(t) \/ ReaderGoesOn(t)
      PROVE  NothingSent'
  <2>1. CASE OnRequest(t) \/ OnResponse(t)
    BY <1>1, <1>2, <2>1 DEF OnRequest, OnResponse, WriteHandshake, GoOn, queueSide
  <2>2. CASE ~(OnRequest(t) \/ OnResponse(t))
    <3>1. chain' \notin Handshaking
      BY <1>3, <2>2 DEF ReadHandlers, ReaderGoesOn, StartRead, OnHeader, OnLength, OnContent,
         ReturnFromCallback, ConnectionOpen, OnOpen, ConnectionErased, OnError, OnClose, GoOn,
         ReadContent, ReadMessage, ReadMessageContent, OnCloseFrame, OnPing, OnPong, OnFragment,
         OnMessage
    <3> QED
      BY <1>1, <3>1
  <2> QED
    BY <2>1, <2>2
<1>4. ASSUME NEW t \in IoThreads, WriteSide(t)
      PROVE  NothingSent'
  <2>1. chain' = chain
    BY <1>4 DEF WriteSide, readSide
  <2>2. CASE chain \in Handshaking
    <3>1. Q!Failed(<< >>) = << >>
      BY DEF Q!Failed
    <3>2. UNCHANGED << posted, callerPc >>
      BY <1>4, <2>2 DEF WriteSide, Q!StartWrite, Q!WriteHandler, Q!WriteEnded, Q!RunCallback,
         Q!TimerHandler, Q!queueVars
    <3>3. completed' = << >> /\ writing' = << >>
      BY <1>4, <2>2, <3>1 DEF WriteSide, Q!StartWrite, Q!WriteHandler, Q!WriteEnded,
         Q!RunCallback, Q!TimerHandler, Q!CloseSocket, Q!queueVars
    <3> QED
      BY <2>2, <3>2, <3>3
  <2> QED
    BY <1>1, <2>1, <2>2
<1>5. CASE ReaderCloses \/ CallbackSends
  <2>1. chain \notin Handshaking
    BY <1>5 DEF ReaderCloses, CallbackSends, CloseAlreadySent, EndingTestsClose, ReaderSetsClose,
       ReaderSendsClose, Q!SetCloseSent, Q!SendClose
  <2>2. chain' \notin Handshaking
    BY <1>5, <2>1 DEF ReaderCloses, CallbackSends, CloseAlreadySent, EndingTestsClose,
       ReaderSetsClose, ReaderSendsClose, readSide
  <2> QED
    BY <1>1, <2>2
<1>6. CASE UserCloses \/ \E u \in Users : UserNext(u)
  <2>1. chain' = chain /\ Entered
    BY <1>6 DEF UserCloses, UserNext, readSide
  <2>2. chain \notin Handshaking
    BY <2>1 DEF Entered, Opened, EventPhases
  <2> QED
    BY <1>1, <2>1, <2>2
<1>7. CASE Stop
  <2>1. chain' = chain /\ UNCHANGED << posted, callerPc >>
    BY <1>7 DEF Stop
  <2>2. chain \in Handshaking => UNCHANGED << writing, completed >>
    BY <1>7 DEF Stop, EventPhases
  <2> QED
    BY <1>1, <1>2, <2>1, <2>2
<1>8. CASE SocketNext
  <2>1. chain' = chain /\ (chain \in Handshaking => UNCHANGED << completed, posted, writing, callerPc >>)
    BY <1>8 DEF SocketNext, Q!SocketWrites, Q!SocketFails, Q!TimerExpires, Q!queueVars, readSide
  <2> QED
    BY <1>1, <1>2, <2>1
<1>9. CASE HeaderArrives \/ EmptyRead \/ Arrives \/ Fails \/ ReadHandshake \/ Upgrade
             \/ UNCHANGED vars
  BY <1>2, <1>9 DEF HeaderArrives, EmptyRead, Arrives, Fails, ReadHandshake, Upgrade, WriteHandshake,
     vars, queueVars, queueSide, readSide
<1> QED
  BY <1>3, <1>4, <1>5, <1>6, <1>7, <1>8, <1>9 DEF Next

LEMMA WatchedStep ==
    ASSUME EventPhases, ReaderCalls, ReadTypes, NothingSent, Watched, [Next]_vars
    PROVE  Watched'
<1> USE DEF Covered, Handshaking, Waiting
<1>0. IdleTimeout \in BOOLEAN /\ RequestTimeout \in BOOLEAN /\ expired \in Nat
  BY ConnectionAssumption DEF ReadTypes
<1>1. CASE chain' \notin Waiting \union {"request", "response", "refusal"} \/ ~socketUp'
  BY <1>1 DEF Watched
<1>2. ASSUME UNCHANGED << chain, timer, expired >>, socketUp' => socketUp
      PROVE  Watched'
  BY <1>2 DEF Watched
<1>3. ASSUME chain' \in {"request", "response", "refusal"}, SetRequestTimeout
      PROVE  Watched'
  BY <1>3 DEF Watched, SetRequestTimeout
<1>4. ASSUME chain' \notin Handshaking, Q!SetTimeout
      PROVE  Watched'
  BY <1>4 DEF Watched, Q!SetTimeout
<1>5. socketUp' => socketUp
  BY SocketStays
<1>6. ASSUME NEW t \in IoThreads, ReadHandlers(t) \/ ReaderGoesOn(t)
      PROVE  Watched'
  <2>1. CASE OnRequest(t)
    BY <1>1, <1>3, <2>1 DEF OnRequest, WriteHandshake
  <2>2. CASE OnResponse(t)
    BY <1>1, <2>2 DEF OnResponse, GoOn
  <2>3. CASE StartRead(t)
    BY <1>5, <2>3 DEF StartRead, queueVars, Watched
  <2>4. CASE OnHeader(t) \/ OnLength(t)
    BY <1>1, <1>4, <2>4 DEF OnHeader, OnLength, ReadMessage, ReadMessageContent, ReadContent, GoOn
  <2>5. CASE OnContent(t)
    BY <1>1, <1>4, <2>5 DEF OnContent, OnCloseFrame, OnPing, OnPong, OnFragment, OnMessage,
       ReadMessage, GoOn
  <2>6. CASE ReturnFromCallback(t)
    BY <1>4, <2>6 DEF ReturnFromCallback, ReadMessage
  <2>7. CASE ConnectionOpen(t) \/ OnOpen(t) \/ ConnectionErased(t) \/ OnError(t) \/ OnClose(t)
    BY <1>1, <2>7 DEF ConnectionOpen, OnOpen, ConnectionErased, OnError, OnClose
  <2> QED
    BY <1>6, <2>1, <2>2, <2>3, <2>4, <2>5, <2>6, <2>7 DEF ReadHandlers, ReaderGoesOn
<1>7. ASSUME NEW t \in IoThreads, WriteSide(t)
      PROVE  Watched'
  <2>1. chain' = chain
    BY <1>7 DEF WriteSide, readSide
  <2>2. CASE Q!StartWrite(t) \/ Q!RunCallback(t)
    BY <1>2, <1>5, <2>1, <2>2 DEF Q!StartWrite, Q!RunCallback, Q!timerVars
  <2>3. CASE Q!WriteHandler(t)
    <3>1. chain \notin Handshaking
      BY <2>3 DEF Q!WriteHandler, Q!WriteEnded, NothingSent
    <3>2. Q!SetTimeout
      BY <2>3 DEF Q!WriteHandler, Q!EndWrite
    <3> QED
      BY <1>4, <2>1, <3>1, <3>2
  <2>4. CASE Q!TimerHandler(t)
    BY <1>1, <2>4 DEF Q!TimerHandler, Q!CloseSocket
  <2> QED
    BY <1>7, <2>2, <2>3, <2>4 DEF WriteSide
<1>8. ASSUME NEW c \in Users \union {Reader}, chain \notin Handshaking, chain' = chain,
             Q!CallSend(c) \/ Q!TestCloseSent(c) \/ Q!SetCloseSent(c) \/ Q!SendClose(c)
      PROVE  Watched'
  <2>1. CASE Q!TestCloseSent(c) \/ Q!SetCloseSent(c)
    BY <1>2, <1>5, <1>8, <2>1 DEF Q!TestCloseSent, Q!SetCloseSent, Q!timerVars
  <2>2. CASE Q!CallSend(c) \/ Q!SendClose(c)
    <3>1. (Q!SetTimeout \/ UNCHANGED timer) /\ UNCHANGED expired
      BY <2>2 DEF Q!CallSend, Q!SendClose, Q!Enqueue
    <3> QED
      BY <1>2, <1>4, <1>5, <1>8, <3>1
  <2> QED
    BY <1>8, <2>1, <2>2
<1>9. CASE ReaderCloses \/ CallbackSends
  <2>1. chain \in {"callback", "closing"} /\ chain' \in {"callback", "closing", "closed"}
    BY <1>9 DEF ReaderCloses, CallbackSends, CloseAlreadySent, EndingTestsClose, ReaderSetsClose,
       ReaderSendsClose, Q!SetCloseSent, Q!SendClose, ReaderCalls, readSide
  <2> QED
    BY <1>1, <2>1
<1>10. CASE UserCloses
  BY <1>1, <1>10 DEF UserCloses, Q!CallClose, Q!CloseSocket
<1>11. ASSUME NEW u \in Users, UserNext(u)
       PROVE  Watched'
  <2>1. chain \notin Handshaking /\ chain' = chain
    BY <1>11 DEF UserNext, readSide, Entered, Opened, EventPhases
  <2> QED
    BY <1>8, <1>11, <2>1 DEF UserNext, Q!CallerNext
<1>12. CASE Stop
  BY <1>2, <1>5, <1>12 DEF Stop
<1>13. CASE SocketNext
  <2>1. CASE Q!SocketWrites \/ Q!SocketFails
    BY <1>2, <1>5, <1>13, <2>1 DEF SocketNext, Q!SocketWrites, Q!SocketFails, Q!timerVars, readSide
  <2>2. CASE Q!TimerExpires
    <3>1. expired' > 0
      BY <1>0, <2>2 DEF Q!TimerExpires
    <3> QED
      BY <3>1 DEF Watched
  <2> QED
    BY <1>13, <2>1, <2>2 DEF SocketNext
<1>14. CASE HeaderArrives \/ EmptyRead \/ Arrives \/ Fails \/ UNCHANGED vars
  BY <1>2, <1>5, <1>14 DEF HeaderArrives, EmptyRead, Arrives, Fails, vars, queueVars, readSide
<1>15. CASE ReadHandshake \/ Upgrade
  BY <1>3, <1>15 DEF ReadHandshake, Upgrade, WriteHandshake
<1> QED
  BY <1>6, <1>7, <1>9, <1>10, <1>11, <1>12, <1>13, <1>14, <1>15 DEF Next

-----------------------------------------------------------------------------
(* Theorems                                                                *)

IInv ==
    /\ P!IInv
    /\ ThreadTypes
    /\ ReaderCalls
    /\ OneReader
    /\ ReadTypes
    /\ EventPhases
    /\ Limited
    /\ UpToDate
    /\ NothingSent
    /\ Watched

LEMMA InitInv == Init => IInv
<1>. SUFFICES ASSUME Init PROVE IInv
  OBVIOUS
<1>1. P!Init /\ ThreadTypes
  BY QueueInit
<1>2. P!IInv
  BY <1>1, QueueAssumption, P!InitInv
<1>3. /\ \A t \in IoThreads : running[t] # Reading
      /\ callerPc[Reader] = "idle"
      /\ timer = "off" /\ expired = 0
  BY Kinds DEF Init, Q!Init
<1>4. ReaderCalls /\ OneReader
  BY <1>3 DEF Init, ReaderCalls, OneReader, OnThread
<1>5. ReadTypes
  <2>1. NoFrame \in PeerFrame
    BY LengthAssumption DEF NoFrame, PeerFrame, FrameTypes, ControlTypes
  <2>2. FragmentTypes
    <3>1. 0 \in 0..SizeModulus - 1
      BY ConnectionAssumption
    <3> QED
      BY <3>1 DEF Init, NoFragment, FragmentTypes
  <2>3. chain \in Chains /\ arrived \in {"none", "ok", "empty", "error"} /\ frame = NoFrame
    BY DEF Init, Chains
  <2>4. inEndpoint \in BOOLEAN /\ stopCalled \in BOOLEAN
    BY Zenon DEF Init
  <2>5. received = 0 /\ 0 \in 0..MaxPeerFrames
    BY ConnectionAssumption DEF Init
  <2> QED
    BY <1>3, <2>1, <2>2, <2>3, <2>4, <2>5 DEF ReadTypes
<1>6. EventPhases
  BY DEF Init, EventPhases, Handshaking, Looping
<1>7. Limited
  <2>1. 0 <= MaxMessage
    BY ConnectionAssumption
  <2> QED
    BY <2>1 DEF Init, Limited, NoFragment
<1>8. UpToDate
  BY DEF Init, UpToDate, Awaited, PeerTypes, InHand, Beginning, Handshaking
<1>9. NothingSent /\ Watched
  BY DEF Init, Q!Init, NothingSent, Watched, Waiting
<1>. QED
  BY <1>1, <1>2, <1>4, <1>5, <1>6, <1>7, <1>8, <1>9 DEF IInv

LEMMA InvStep == IInv /\ [Next]_vars => IInv' /\ [P!Step]_(P!vars)
<1>. SUFFICES ASSUME IInv, [Next]_vars
              PROVE  IInv' /\ [P!Step]_(P!vars)
  OBVIOUS
<1>1. P!TypeOK
  BY DEF IInv, P!IInv, P!QueueInv
<1>2. ThreadTypes' /\ [P!Step]_(P!vars)
  BY <1>1, QueueSteps DEF IInv, Mapped
<1>3. P!IInv'
  BY <1>2, QueueAssumption, P!InvStep DEF IInv
<1>4. ReaderCalls' /\ OneReader'
  BY <1>1, ReaderCallsStep, OneReaderStep DEF IInv
<1>5. ReadTypes' /\ Limited' /\ UpToDate'
  BY ReadTypesStep, LimitedStep, UpToDateStep DEF IInv
<1>6. EventPhases'
  BY PhasesStep DEF IInv, ReadTypes
<1>7. NothingSent' /\ Watched'
  BY NothingSentStep, WatchedStep DEF IInv, ReadTypes
<1>. QED
  BY <1>2, <1>3, <1>4, <1>5, <1>6, <1>7 DEF IInv

LEMMA Invariance == Spec => []IInv
  BY InitInv, InvStep, PTL DEF Spec

\* TypeOK: a thread is in a handler of the read side exactly while the chain
\* is in a step which runs on a thread.
THEOREM TypeCorrect == Spec => []TypeOK
<1>1. IInv => TypeOK
  BY DEF IInv, TypeOK, OneReader, ReadTypes, FragmentTypes, ReaderCalls, Limited
<1> QED
  BY <1>1, Invariance, PTL

\* EventsWellFormed: on_open comes first and once, and each ending once.
THEOREM CallbacksInOrder == Spec => []EventsWellFormed
<1>1. IInv => EventsWellFormed
  BY PhasesSuffice DEF IInv, ReadTypes
<1> QED
  BY <1>1, Invariance, PTL

\* Membership: an endpoint has the connections that were entered and have not
\* been taken out, in the windows before their callbacks too; only stop() makes
\* an exception, of connections whose socket it has closed.
THEOREM EndpointMembers == Spec => []Membership
<1>1. IInv => Membership
  BY PhasesSuffice DEF IInv, ReadTypes
<1> QED
  BY <1>1, Invariance, PTL

\* MessageIntegrity: on_message gets each message of the peer, whole and in
\* order.
THEOREM MessagesWhole == Spec => []MessageIntegrity
<1>1. IInv => MessageIntegrity
  BY UpToDateSuffices DEF IInv
<1> QED
  BY <1>1, Invariance, PTL

\* ImplementsInStream: the handlers of an endpoint are called as InStream
\* promises, whatever sends, endings and stop() come in between.
THEOREM InStreamImplemented == Spec => ImplementsInStream
<1>1. Init => In!InInit
  BY DEF Init, In!InInit
<1>2. IInv /\ [Next]_vars => [In!InNext]_(In!inVars)
  BY InSteps DEF IInv, InMapped
<1> QED
  BY <1>1, <1>2, Invariance, PTL DEF Spec, ImplementsInStream, In!InSpec

\* FragmentBounded: the limit holds over all fragments of a message, if it is
\* below half of what size_t holds, so that the code's sums cannot wrap.
THEOREM SizeBounded == Spec => []FragmentBounded
<1>1. IInv => FragmentBounded
  BY DEF IInv, Limited, FragmentBounded
<1> QED
  BY <1>1, Invariance, PTL

\* The connection implements its send queue: pongs, close frames, the threads
\* of the read side and every close() of the socket keep to its discipline.
THEOREM QueueImplemented == Spec => P!QueueSpec
<1>1. Init => P!Init
  BY QueueInit
<1> QED
  BY <1>1, InvStep, Invariance, PTL DEF Spec, P!QueueSpec

\* WritesOneAtATime: the write handler takes the right frame off the queue,
\* whatever the read side sends in between.
THEOREM WriteDiscipline == Spec => []WritesOneAtATime
<1>1. IInv => P!OneWrite
  BY QueueAssumption, P!PlacedMeansOneWrite DEF IInv, P!IInv, P!QueueInv
<1>2. P!OneWrite => WritesOneAtATime
  BY DEF P!OneWrite, WritesOneAtATime, Q!OneWrite, P!InFlight, Q!InFlight, P!IsFront, Q!IsFront
<1> QED
  BY <1>1, <1>2, Invariance, PTL

\* ReadsTimed: with its timeouts set, a connection never waits for its peer
\* without a timer, whatever writes and users do to the one timer it has.
THEOREM ReadsAreTimed == Spec => []ReadsTimed
<1>1. IInv => ReadsTimed
  BY WatchedIsTimed DEF IInv
<1> QED
  BY <1>1, Invariance, PTL

\* The callbacks of send() which one io thread calls follow the order of the
\* sends, whichever handlers of the read side run in between (CallbackOrder of
\* SendQueue).
THEOREM CallbacksOrdered == Spec => []P!CallbackOrder
  BY QueueImplemented, QueueAssumption, P!ThreadsInOrder, PTL

\* Each frame of a connection, pongs and close frames too, is answered at most
\* once, and truly (OutStream).
THEOREM StreamImplemented == Spec => P!ImplementsStream
  BY QueueImplemented, QueueAssumption, P!StreamImplemented, PTL
=============================================================================
