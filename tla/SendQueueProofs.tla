--------------------------- MODULE SendQueueProofs ---------------------------
(***************************************************************************)
(* Proofs about SendQueue for every set of callers and of io threads and   *)
(* for any number of frames.                                               *)
(*                                                                         *)
(* The inductive invariant has one part for each thing that the code       *)
(* relies on without saying so.  Placed: the front of the queue is in one  *)
(* place at a time.  Numbered: the queue is what was accepted last.        *)
(* WireCounted: what the peer has received, by the place of the front.     *)
(* CallsTrue and CallsDistinct: a callback that waits to be called knows   *)
(* the fate of its frame, and belongs to it alone.                         *)
(***************************************************************************)
EXTENDS SendQueue, SequenceTheorems, TLAPS

Done == [frame : Frame, ok : BOOLEAN]

\* The number of frames which have left the queue.
Base == nextId - 1 - Len(sendQueue)

\* OneWrite by cases: where the front of the queue is.
InNoPlace == posted = << >> /\ writing = << >> /\ completed = << >>

InPosted ==
    /\ sendQueue # << >>
    /\ posted = << sendQueue[1] >>
    /\ writing = << >>
    /\ completed = << >>

InWriting ==
    /\ sendQueue # << >>
    /\ posted = << >>
    /\ writing = << sendQueue[1] >>
    /\ completed = << >>

InCompleted(ok) ==
    /\ sendQueue # << >>
    /\ posted = << >>
    /\ writing = << >>
    /\ completed = << [frame |-> sendQueue[1], ok |-> ok] >>

Placed ==
    \/ InNoPlace /\ (stopped \/ sendQueue = << >>)
    \/ InPosted
    \/ InWriting
    \/ InCompleted(TRUE)
    \/ InCompleted(FALSE)

\* The queue holds the frames which were accepted last, in order.
Numbered ==
    /\ Len(sendQueue) < nextId
    /\ \A i \in 1..Len(sendQueue) : sendQueue[i].id = Base + i

\* What the peer has received, by the place of the front.
WireCounted ==
    /\ WireOrder
    /\ sendQueue = << >> => Len(wire) <= Base
    /\ InPosted \/ InWriting => Len(wire) <= Base
    /\ InCompleted(TRUE) => Len(wire) = Base + 1
    /\ InCompleted(FALSE) => ~socketUp /\ Len(wire) <= Base
    /\ socketUp /\ InWriting => Len(wire) = Base
    /\ socketUp /\ ~stopped /\ (InPosted \/ sendQueue = << >>) => Len(wire) = Base

\* Callbacks which are still to be called belong to frames that left the
\* queue, and know what became of their frame.
CallsTrue ==
    \A t \in IoThreads : \A i \in 1..Len(running[t].calls) :
        /\ running[t].calls[i] \in 1..Base
        /\ IF running[t].ok
             THEN running[t].calls[i] <= Len(wire)
             ELSE ~socketUp /\ running[t].calls[i] > Len(wire)

\* No frame is answered twice.
CallsDistinct ==
    /\ \A t, u \in IoThreads :
          \A i \in 1..Len(running[t].calls), j \in 1..Len(running[u].calls) :
              running[t].calls[i] = running[u].calls[j] => t = u /\ i = j
    /\ \A k \in 1..Len(called) :
          /\ called[k].id <= Base
          /\ \A t \in IoThreads : \A i \in 1..Len(running[t].calls) :
                running[t].calls[i] # called[k].id

StoppedIdle == stopped => \A t \in IoThreads : FreeThread(t)

QueueInv == TypeOK /\ Placed /\ Numbered /\ WireCounted /\ StoppedIdle

IInv == QueueInv /\ CallsTrue /\ CallsDistinct

\* The type invariant in three parts.
QueueTypes ==
    /\ sendQueue \in Seq(Frame)
    /\ posted \in Seq(Frame)
    /\ writing \in Seq(Frame)
    /\ completed \in Seq(Done)
    /\ nextId \in Nat \ {0}
    /\ wire \in Seq(Frame)

Handler == [kind : {"idle", "calling"}, calls : Seq(Nat), ok : BOOLEAN]

HandlerTypes ==
    /\ running \in [IoThreads -> Handler]
    /\ \A t \in IoThreads : running[t].kind = "calling" => running[t].calls # << >>
    /\ called \in Seq(Outcome)

PlainTypes ==
    /\ closeSent \in BOOLEAN
    /\ callerPc \in [Callers -> {"idle", "setting", "sending"}]
    /\ timer \in {"off", "armed"}
    /\ ~IdleTimeout => timer = "off"
    /\ expired \in Nat
    /\ socketUp \in BOOLEAN
    /\ stopped \in BOOLEAN

-----------------------------------------------------------------------------
(* Sequences                                                               *)

\* Appending to a sequence.
LEMMA AppendFacts ==
    ASSUME NEW S, NEW s \in Seq(S), NEW e \in S
    PROVE  /\ Append(s, e) \in Seq(S)
           /\ Len(Append(s, e)) = Len(s) + 1
           /\ Append(s, e) # << >>
           /\ Append(s, e)[Len(s) + 1] = e
           /\ \A i \in 1..Len(s) : Append(s, e)[i] = s[i]
  OBVIOUS

\* A sequence of one element.
LEMMA OneElement ==
    ASSUME NEW S, NEW e \in S
    PROVE  /\ << e >> \in Seq(S)
           /\ << e >> # << >>
           /\ Len(<< e >>) = 1
           /\ << e >>[1] = e
           /\ Head(<< e >>) = e
           /\ Tail(<< e >>) = << >>
           /\ DOMAIN << e >> = {1}
           /\ Append(<< >>, e) = << e >>
           /\ << >> \o << e >> = << e >>
  OBVIOUS

\* What is left of a sequence of several elements.
LEMMA TailFacts ==
    ASSUME NEW S, NEW s \in Seq(S), s # << >>, Len(s) # 1
    PROVE  Tail(s) \in Seq(S) /\ Tail(s) # << >> /\ Len(Tail(s)) = Len(s) - 1
<1>1. Len(s) \in Nat \ {0}
  BY EmptySeq
<1>2. Tail(s) \in Seq(S) /\ Len(Tail(s)) = Len(s) - 1
  BY HeadTailProperties
<1>3. Tail(s) = << >> => Len(Tail(s)) = 0
  BY EmptySeq
<1>. QED
  BY <1>1, <1>2, <1>3

\* The numbers of a queue, in its order.
LEMMA IdsFacts ==
    ASSUME NEW q \in Seq(Frame)
    PROVE  /\ Ids(q) \in Seq(Nat)
           /\ Len(Ids(q)) = Len(q)
           /\ \A i \in 1..Len(q) : Ids(q)[i] = q[i].id
<1>1. DOMAIN q = 1..Len(q) /\ Len(q) \in Nat
  BY LenProperties
<1>2. ASSUME NEW i \in 1..Len(q) PROVE q[i].id \in Nat
  <2>1. q[i] \in Frame
    BY ElementOfSeq
  <2>. QED
    BY <2>1 DEF Frame
<1>3. Ids(q) \in [1..Len(q) -> Nat]
  BY <1>1, <1>2 DEF Ids
<1>4. Ids(q) \in Seq(Nat)
  BY <1>1, <1>3, SeqDef
<1>5. Len(Ids(q)) = Len(q)
  BY <1>1, <1>3, <1>4, LenProperties
<1>. QED
  BY <1>1, <1>4, <1>5 DEF Ids

\* What Front keeps of a queue.
LEMMA FrontFacts ==
    ASSUME NEW S, NEW q \in Seq(S)
    PROVE  /\ q = << >> => Front(q) = << >>
           /\ q # << >> => Front(q) = << q[1] >>
  BY DEF Front

\* The writes of w fail in their order.
LEMMA FailedFacts ==
    ASSUME NEW w \in Seq(Frame)
    PROVE  /\ Failed(w) \in Seq(Done)
           /\ Len(Failed(w)) = Len(w)
           /\ \A i \in 1..Len(w) : Failed(w)[i] = [frame |-> w[i], ok |-> FALSE]
<1>1. DOMAIN w = 1..Len(w) /\ Len(w) \in Nat
  BY LenProperties
<1>2. ASSUME NEW i \in 1..Len(w) PROVE [frame |-> w[i], ok |-> FALSE] \in Done
  <2>1. w[i] \in Frame
    BY ElementOfSeq
  <2>. QED
    BY <2>1 DEF Done
<1>3. Failed(w) \in [1..Len(w) -> Done]
  BY <1>1, <1>2 DEF Failed
<1>4. Failed(w) \in Seq(Done)
  BY <1>1, <1>3, SeqDef
<1>5. Len(Failed(w)) = Len(w)
  BY <1>1, <1>3, <1>4, LenProperties
<1>. QED
  BY <1>1, <1>4, <1>5 DEF Failed

\* close() fails the write which is pending, if there is one.
LEMMA CloseMoves ==
    ASSUME TypeOK, Placed, CloseSocket
    PROVE  /\ socketUp' = FALSE
           /\ writing' = << >>
           /\ ~InWriting => writing = << >> /\ completed' = completed
           /\ InWriting => completed' = << [frame |-> sendQueue[1], ok |-> FALSE] >>
<1>1. writing \in Seq(Frame) /\ completed \in Seq(Done)
  BY DEF TypeOK, Done
<1>2. ASSUME ~InWriting PROVE writing = << >> /\ completed' = completed
  <2>1. writing = << >>
    BY <1>2 DEF Placed, InNoPlace, InPosted, InCompleted
  <2>2. Failed(writing) = << >>
    BY <1>1, <2>1, FailedFacts, EmptySeq
  <2>. QED
    BY <1>1, <2>1, <2>2, ConcatEmptySeq DEF CloseSocket
<1>3. ASSUME InWriting PROVE completed' = << [frame |-> sendQueue[1], ok |-> FALSE] >>
  <2>1. completed = << >> /\ Len(writing) = 1 /\ writing[1] = sendQueue[1]
    BY <1>3 DEF InWriting
  <2>2. /\ Failed(writing) \in Seq(Done)
        /\ Len(Failed(writing)) = 1
        /\ Failed(writing)[1] = [frame |-> sendQueue[1], ok |-> FALSE]
    BY <1>1, <2>1, FailedFacts
  <2>3. Failed(writing) = << [frame |-> sendQueue[1], ok |-> FALSE] >>
    BY <2>2
  <2>. QED
    BY <2>1, <2>2, <2>3, ConcatEmptySeq DEF CloseSocket
<1>. QED
  BY <1>2, <1>3 DEF CloseSocket

-----------------------------------------------------------------------------
(* What the two critical sections do                                       *)

\* send() appends a frame; one that becomes the front is posted.
LEMMA EnqueueEffect ==
    ASSUME TypeOK, NEW opcode \in Opcode, Enqueue(opcode)
    PROVE  LET f == [id |-> nextId, opcode |-> opcode]
           IN  /\ f \in Frame
               /\ nextId' = nextId + 1
               /\ sendQueue' = Append(sendQueue, f)
               /\ sendQueue' # << >>
               /\ sendQueue = << >> => posted' = Append(posted, sendQueue'[1])
               /\ sendQueue # << >> =>
                     posted' = posted /\ sendQueue'[1] = sendQueue[1]
               /\ timer' \in {timer, IF IdleTimeout THEN "armed" ELSE "off"}
               /\ timer' = IF sendQueue = << >> /\ IdleTimeout THEN "armed"
                           ELSE IF sendQueue = << >> THEN "off" ELSE timer
<1>. DEFINE f == [id |-> nextId, opcode |-> opcode]
<1>1. f \in Frame /\ sendQueue \in Seq(Frame)
  BY DEF TypeOK, Frame
<1>2. /\ Append(sendQueue, f) # << >>
      /\ Len(Append(sendQueue, f)) = Len(sendQueue) + 1
  BY <1>1, AppendFacts
<1>3. sendQueue # << >> => Len(sendQueue) \in Nat \ {0}
  BY <1>1, EmptySeq
<1>4. sendQueue # << >> => Append(sendQueue, f)[1] = sendQueue[1]
  BY <1>1, <1>3, AppendFacts
<1>5. sendQueue = << >> => Len(sendQueue) = 0
  BY EmptySeq
<1>. QED
  BY <1>1, <1>2, <1>3, <1>4, <1>5 DEF Enqueue, Put, SetTimeout

\* A write's handler: the scope refuses it, or it takes the frame that was
\* written out of the queue, or it drops the queue.
LEMMA WriteHandlerEffect ==
    ASSUME TypeOK, Placed, NEW t \in IoThreads, WriteHandler(t)
    PROVE  /\ completed' = << >> /\ writing' = << >>
           /\ timer' = IF IdleTimeout THEN "armed" ELSE "off"
           /\ UNCHANGED << closeSent, callerPc, expired, socketUp, stopped, nextId,
                           wire, called >>
           /\ InCompleted(TRUE) \/ InCompleted(FALSE)
           /\ stopped => UNCHANGED << sendQueue, posted, running >>
           /\ ~stopped /\ InCompleted(TRUE) =>
                 /\ sendQueue' = Tail(sendQueue)
                 /\ posted' = Front(Tail(sendQueue))
                 /\ running' = [running EXCEPT ![t] = Calling(<< sendQueue[1].id >>, TRUE)]
           /\ ~stopped /\ InCompleted(FALSE) =>
                 /\ sendQueue' = << >>
                 /\ posted' = << >>
                 /\ running' = [running EXCEPT ![t] = Calling(Ids(sendQueue), FALSE)]
<1>1. completed # << >>
  BY DEF WriteHandler, WriteEnded
<1>2. InCompleted(TRUE) \/ InCompleted(FALSE)
  BY <1>1 DEF Placed, InNoPlace, InPosted, InWriting
<1>3. /\ sendQueue \in Seq(Frame) /\ sendQueue # << >>
      /\ posted = << >> /\ writing = << >>
  BY <1>2 DEF InCompleted, TypeOK
<1>4. sendQueue[1] \in Frame /\ Len(sendQueue) \in Nat \ {0}
  BY <1>3, EmptySeq, ElementOfSeq
<1>5. ASSUME NEW ok \in BOOLEAN, InCompleted(ok)
      PROVE  Head(completed) = [frame |-> sendQueue[1], ok |-> ok] /\ Tail(completed) = << >>
  <2>1. [frame |-> sendQueue[1], ok |-> ok] \in Done
    BY <1>4 DEF Done
  <2>. QED
    BY <2>1, <1>5, OneElement DEF InCompleted
<1>7. Tail(sendQueue) \in Seq(Frame)
  BY <1>3, HeadTailProperties
<1>8. Front(Ids(sendQueue)) = << sendQueue[1].id >>
  <2>1. Ids(sendQueue) \in Seq(Nat) /\ Len(Ids(sendQueue)) = Len(sendQueue)
    BY <1>3, IdsFacts
  <2>2. Ids(sendQueue)[1] = sendQueue[1].id
    BY <1>3, <1>4, IdsFacts
  <2>3. Ids(sendQueue) # << >>
    BY <2>1, <1>4, EmptySeq
  <2>. QED
    BY <2>1, <2>2, <2>3, FrontFacts
<1>9. Front(Tail(sendQueue)) \in Seq(Frame)
  <2>1. CASE Tail(sendQueue) = << >>
    BY <2>1, <1>7, FrontFacts, EmptySeq
  <2>2. CASE Tail(sendQueue) # << >>
    BY <2>2, <1>7, FrontFacts, HeadTailProperties, OneElement DEF Front
  <2>. QED
    BY <2>1, <2>2
<1>10. CASE InCompleted(TRUE)
  <2>1. Head(completed) = [frame |-> sendQueue[1], ok |-> TRUE] /\ Tail(completed) = << >>
    BY <1>5, <1>10
  <2>2. Head(completed).ok = TRUE
    BY <2>1
  <2>3. EndWrite(t, Tail(sendQueue), << sendQueue[1].id >>, Front(Tail(sendQueue)))
    BY <1>8, <2>2 DEF WriteHandler, WriteEnded
  <2>4. posted \o Front(Tail(sendQueue)) = Front(Tail(sendQueue))
    BY <1>3, <1>9, ConcatEmptySeq
  <2>5. ~InCompleted(FALSE)
    <3>1. SUFFICES ASSUME InCompleted(FALSE) PROVE FALSE
      OBVIOUS
    <3>2. Head(completed) = [frame |-> sendQueue[1], ok |-> FALSE]
      BY <1>5, <3>1
    <3>3. Head(completed).ok = FALSE
      BY <3>2
    <3>. QED
      BY <2>2, <3>3
  <2>. QED
    BY <1>3, <1>10, <2>1, <2>2, <2>3, <2>4, <2>5
    DEF EndWrite, ScopeRefuses, SetTimeout, historyVars
<1>11. CASE InCompleted(FALSE)
  <2>1. Head(completed) = [frame |-> sendQueue[1], ok |-> FALSE] /\ Tail(completed) = << >>
    BY <1>5, <1>11
  <2>2. Head(completed).ok = FALSE
    BY <2>1
  <2>3. EndWrite(t, << >>, Ids(sendQueue), << >>)
    BY <2>2 DEF WriteHandler, WriteEnded
  <2>4. posted \o << >> = << >>
    BY <1>3, ConcatEmptySeq, EmptySeq
  <2>5. ~InCompleted(TRUE)
    <3>1. SUFFICES ASSUME InCompleted(TRUE) PROVE FALSE
      OBVIOUS
    <3>2. Head(completed) = [frame |-> sendQueue[1], ok |-> TRUE]
      BY <1>5, <3>1
    <3>3. Head(completed).ok = TRUE
      BY <3>2
    <3>. QED
      BY <2>2, <3>3
  <2>. QED
    BY <1>3, <1>11, <2>1, <2>2, <2>3, <2>4, <2>5
    DEF EndWrite, ScopeRefuses, SetTimeout, historyVars
<1>. QED
  BY <1>2, <1>10, <1>11

-----------------------------------------------------------------------------
(* The invariant of the queue                                              *)

\* The parts are the type invariant.
LEMMA TypeParts == TypeOK <=> QueueTypes /\ HandlerTypes /\ PlainTypes
  BY DEF TypeOK, QueueTypes, HandlerTypes, PlainTypes, Done, Handler

\* The invariant holds initially.
LEMMA InitInv == Init => IInv
<1>. SUFFICES ASSUME Init PROVE IInv
  OBVIOUS
<1>1. TypeOK
  <2>1. QueueTypes
    BY DEF Init, QueueTypes
  <2>2. HandlerTypes
    BY DEF Init, HandlerTypes, Handler, Idle
  <2>3. PlainTypes
    BY DEF Init, PlainTypes
  <2>. QED
    BY <2>1, <2>2, <2>3, TypeParts
<1>2. Placed
  BY DEF Init, Placed, InNoPlace
<1>3. Numbered /\ Len(wire) = 0 /\ Base = 0
  <2>1. Len(sendQueue) = 0 /\ Len(wire) = 0 /\ nextId = 1
    BY DEF Init
  <2>. QED
    BY <2>1 DEF Numbered, Base
<1>4. WireCounted
  BY <1>3 DEF Init, WireCounted, WireOrder, InPosted, InWriting, InCompleted
<1>5. StoppedIdle
  BY DEF Init, StoppedIdle
<1>6. CallsTrue /\ CallsDistinct
  BY DEF Init, CallsTrue, CallsDistinct, Idle
<1>. QED
  BY <1>1, <1>2, <1>3, <1>4, <1>5, <1>6 DEF IInv, QueueInv

\* The steps which leave the queue, the write and the callbacks alone.
QuietStep ==
    \/ \E c \in Callers : TestCloseSent(c) \/ SetCloseSent(c)
    \/ ReadSideUsesTimer
    \/ TimerExpires

\* The steps which are a close() and nothing more for the queue.
CloseStep ==
    \/ CallClose
    \/ \E t \in IoThreads : TimerHandler(t)
    \/ SocketFails

EnqueueStep == \E c \in Callers : CallSend(c) \/ SendClose(c)

\* A step of the queue, by what it does to it.  Unlike Next it has no bound on
\* the number of frames: the connections that use the queue have steps of the
\* protocol, which the bound leaves aside.
Step ==
    \/ QuietStep
    \/ CloseStep
    \/ EnqueueStep
    \/ \E t \in IoThreads : StartWrite(t)
    \/ \E t \in IoThreads : WriteHandler(t)
    \/ \E t \in IoThreads : RunCallback(t)
    \/ SocketWrites
    \/ StopRunner

QueueSpec == Init /\ [][Step]_vars

\* Nothing else happens in a step of Next.
LEMMA NextSteps == Next => Step
  BY DEF Next, CallerNext, IoNext, Step, QuietStep, CloseStep, EnqueueStep

LEMMA StepCases ==
    ASSUME [Step]_vars
    PROVE  \/ QuietStep
           \/ CloseStep
           \/ EnqueueStep
           \/ \E t \in IoThreads : StartWrite(t)
           \/ \E t \in IoThreads : WriteHandler(t)
           \/ \E t \in IoThreads : RunCallback(t)
           \/ SocketWrites
           \/ StopRunner
           \/ UNCHANGED vars
  BY DEF Step

\* A quiet step.
LEMMA QuietFacts ==
    ASSUME QuietStep
    PROVE  UNCHANGED << sendQueue, posted, writing, completed, running, socketUp,
                        stopped, nextId, wire, called >>
  BY DEF QuietStep, TestCloseSent, SetCloseSent, ReadSideUsesTimer, TimerExpires,
         queueVars, historyVars

\* A step which closes the socket.
LEMMA CloseFacts ==
    ASSUME CloseStep
    PROVE  /\ CloseSocket
           /\ UNCHANGED << sendQueue, closeSent, callerPc, posted, running, timer,
                           stopped, nextId, wire, called >>
           /\ expired' \in {expired, expired - 1}
           /\ expired = 0 => expired' = 0
  BY DEF CloseStep, CallClose, TimerHandler, SocketFails, historyVars, timerVars

\* A step which accepts a frame.
LEMMA EnqueueFacts ==
    ASSUME EnqueueStep
    PROVE  /\ \E opcode \in Opcode : Enqueue(opcode)
           /\ UNCHANGED << closeSent, writing, completed, running, expired, socketUp,
                           stopped, wire, called >>
  BY DEF EnqueueStep, CallSend, SendClose, Opcode

\* A handler which starts or goes on calling callbacks, or returns.
LEMMA HandlerUpdate ==
    ASSUME HandlerTypes, NEW t \in IoThreads, NEW h \in Handler,
           h.kind = "calling" => h.calls # << >>,
           running' = [running EXCEPT ![t] = h],
           called' \in Seq(Outcome)
    PROVE  HandlerTypes'
<1>1. \A u \in IoThreads : running'[u] = IF u = t THEN h ELSE running[u]
  BY DEF HandlerTypes
<1>2. running' \in [IoThreads -> Handler]
  BY DEF HandlerTypes
<1>. QED
  BY <1>1, <1>2 DEF HandlerTypes

\* The two kinds of handlers.
LEMMA Handlers ==
    /\ Idle \in Handler /\ Idle.kind = "idle" /\ Idle.calls = << >>
    /\ \A calls \in Seq(Nat), ok \in BOOLEAN :
          /\ Calling(calls, ok) \in Handler
          /\ Calling(calls, ok).calls = calls
          /\ Calling(calls, ok).kind = "calling"
  BY DEF Idle, Calling, Handler

\* Types are preserved.
LEMMA TypeStep == TypeOK /\ Placed /\ [Step]_vars => TypeOK'
<1>. SUFFICES ASSUME QueueTypes, HandlerTypes, PlainTypes, TypeOK, Placed, [Step]_vars
              PROVE  QueueTypes' /\ HandlerTypes' /\ PlainTypes'
  BY DEF TypeOK, QueueTypes, HandlerTypes, PlainTypes, Done, Handler
<1>. DEFINE Goal == QueueTypes' /\ HandlerTypes' /\ PlainTypes'
<1>1. ASSUME QuietStep PROVE Goal
  <2>1. QueueTypes' /\ HandlerTypes'
    BY <1>1, QuietFacts DEF QueueTypes, HandlerTypes
  <2>2. ASSUME NEW c \in Callers, TestCloseSent(c) \/ SetCloseSent(c) PROVE PlainTypes'
    BY <2>2 DEF TestCloseSent, SetCloseSent, PlainTypes, timerVars
  <2>3. ASSUME TimerExpires PROVE PlainTypes'
    BY <2>3 DEF TimerExpires, PlainTypes
  <2>4. ASSUME ReadSideUsesTimer PROVE PlainTypes'
    BY <2>4 DEF ReadSideUsesTimer, CancelTimeout, SetTimeout, PlainTypes
  <2>. QED
    BY <1>1, <2>1, <2>2, <2>3, <2>4 DEF QuietStep
<1>2. ASSUME CloseStep PROVE Goal
  <2>1. CloseSocket
    BY <1>2, CloseFacts
  <2>2. completed \o Failed(writing) \in Seq(Done)
    BY FailedFacts, ConcatProperties DEF QueueTypes
  <2>3. QueueTypes'
    BY <1>2, <2>1, <2>2, CloseFacts DEF CloseSocket, QueueTypes
  <2>4. HandlerTypes'
    BY <1>2, CloseFacts DEF HandlerTypes
  <2>5. PlainTypes'
    BY <1>2, <2>1, CloseFacts DEF CloseSocket, PlainTypes
  <2>. QED
    BY <2>3, <2>4, <2>5
<1>3. ASSUME EnqueueStep PROVE Goal
  <2>1. PICK opcode \in Opcode : Enqueue(opcode)
    BY <1>3, EnqueueFacts
  <2>. DEFINE f == [id |-> nextId, opcode |-> opcode]
  <2>2. f \in Frame /\ sendQueue' = Append(sendQueue, f) /\ nextId' = nextId + 1
    BY <2>1, EnqueueEffect
  <2>. HIDE DEF f
  <2>3. sendQueue' \in Seq(Frame) /\ sendQueue' # << >>
    BY <2>2, AppendFacts DEF QueueTypes
  <2>4. sendQueue'[1] \in Frame
    BY <2>3, EmptySeq, ElementOfSeq
  <2>5. posted' \in {posted, Append(posted, sendQueue'[1])}
    BY <2>1, EnqueueEffect
  <2>6. posted' \in Seq(Frame)
    <3>1. Append(posted, sendQueue'[1]) \in Seq(Frame)
      BY <2>4, AppendFacts DEF QueueTypes
    <3>. QED
      BY <2>5, <3>1 DEF QueueTypes
  <2>7. QueueTypes'
    BY <1>3, <2>2, <2>3, <2>6, EnqueueFacts DEF QueueTypes
  <2>8. HandlerTypes'
    BY <1>3, EnqueueFacts DEF HandlerTypes
  <2>9. timer' \in {timer, IF IdleTimeout THEN "armed" ELSE "off"}
    BY <2>1, EnqueueEffect
  <2>10. callerPc' \in [Callers -> {"idle", "setting", "sending"}]
    BY <1>3 DEF EnqueueStep, CallSend, SendClose, PlainTypes
  <2>11. PlainTypes'
    BY <1>3, <2>9, <2>10, EnqueueFacts DEF PlainTypes
  <2>. QED
    BY <2>7, <2>8, <2>11
<1>4. ASSUME NEW t \in IoThreads, StartWrite(t) PROVE Goal
  <2>1. Tail(posted) \in Seq(Frame) /\ Append(writing, Head(posted)) \in Seq(Frame)
    BY <1>4, HeadTailProperties, AppendFacts DEF StartWrite, QueueTypes
  <2>2. QueueTypes'
    BY <1>4, <2>1 DEF StartWrite, QueueTypes, historyVars
  <2>. QED
    BY <1>4, <2>2 DEF StartWrite, HandlerTypes, PlainTypes, timerVars, historyVars
<1>5. ASSUME NEW t \in IoThreads, WriteHandler(t) PROVE Goal
  <2>1. sendQueue \in Seq(Frame) /\ sendQueue # << >> /\ Len(sendQueue) \in Nat \ {0}
    BY <1>5, WriteHandlerEffect, EmptySeq DEF InCompleted, QueueTypes
  <2>2. sendQueue[1] \in Frame
    BY <2>1, ElementOfSeq
  <2>3. << sendQueue[1].id >> \in Seq(Nat) /\ << sendQueue[1].id >> # << >>
    BY <2>2, OneElement DEF Frame
  <2>4. Ids(sendQueue) \in Seq(Nat) /\ Ids(sendQueue) # << >>
    BY <2>1, IdsFacts, EmptySeq
  <2>5. Tail(sendQueue) \in Seq(Frame) /\ Front(Tail(sendQueue)) \in Seq(Frame)
    <3>1. Tail(sendQueue) \in Seq(Frame)
      BY <2>1, HeadTailProperties
    <3>2. Tail(sendQueue) # << >> => Head(Tail(sendQueue)) \in Frame
      BY <3>1, HeadTailProperties
    <3>. QED
      BY <3>1, <3>2 DEF Front
  <2>6. sendQueue' \in Seq(Frame) /\ posted' \in Seq(Frame)
    <3>1. << >> \in Seq(Frame)
      OBVIOUS
    <3>2. sendQueue' \in {sendQueue, Tail(sendQueue), << >>}
      BY <1>5, WriteHandlerEffect DEF PlainTypes
    <3>3. posted' \in {posted, Front(Tail(sendQueue)), << >>}
      BY <1>5, WriteHandlerEffect DEF PlainTypes
    <3>. QED
      BY <2>5, <3>1, <3>2, <3>3 DEF QueueTypes
  <2>7. \/ running' = running
        \/ \E calls \in Seq(Nat), ok \in BOOLEAN :
              calls # << >> /\ running' = [running EXCEPT ![t] = Calling(calls, ok)]
    BY <1>5, <2>3, <2>4, WriteHandlerEffect
  <2>8. QueueTypes'
    <3>1. completed' = << >> /\ writing' = << >> /\ nextId' = nextId /\ wire' = wire
      BY <1>5, WriteHandlerEffect
    <3>. QED
      BY <2>6, <3>1 DEF QueueTypes
  <2>9. HandlerTypes'
    <3>1. called' = called
      BY <1>5, WriteHandlerEffect
    <3>2. called \in Seq(Outcome)
      BY DEF HandlerTypes
    <3>3. CASE running' = running
      BY <3>1, <3>3 DEF HandlerTypes
    <3>4. CASE running' # running
      BY <2>7, <3>1, <3>2, <3>4, Handlers, HandlerUpdate
    <3>. QED
      BY <3>3, <3>4
  <2>10. PlainTypes'
    <3>1. /\ timer' = IF IdleTimeout THEN "armed" ELSE "off"
          /\ UNCHANGED << closeSent, callerPc, expired, socketUp, stopped >>
      BY <1>5, WriteHandlerEffect
    <3>. QED
      BY <3>1 DEF PlainTypes
  <2>. QED
    BY <2>8, <2>9, <2>10
<1>6. ASSUME NEW t \in IoThreads, RunCallback(t) PROVE Goal
  <2>1. running[t].calls \in Seq(Nat) /\ running[t].calls # << >> /\ running[t].ok \in BOOLEAN
    BY <1>6 DEF RunCallback, HandlerTypes, Handler
  <2>2. Head(running[t].calls) \in Nat
    BY <2>1, HeadTailProperties
  <2>3. called' \in Seq(Outcome)
    <3>1. Answer(t) \in Outcome
      BY <2>1, <2>2 DEF Answer, Outcome
    <3>. QED
      BY <1>6, <3>1, AppendFacts DEF RunCallback, HandlerTypes
  <2>4. \/ running' = [running EXCEPT ![t] = Idle]
        \/ \E calls \in Seq(Nat), ok \in BOOLEAN :
              calls # << >> /\ running' = [running EXCEPT ![t] = Calling(calls, ok)]
    <3>1. CASE Len(running[t].calls) = 1
      BY <1>6, <3>1 DEF RunCallback, AfterCallback
    <3>2. CASE Len(running[t].calls) # 1
      <4>1. Tail(running[t].calls) \in Seq(Nat) /\ Tail(running[t].calls) # << >>
        BY <2>1, <3>2, TailFacts
      <4>. QED
        BY <1>6, <2>1, <3>2, <4>1 DEF RunCallback, AfterCallback
    <3>. QED
      BY <3>1, <3>2
  <2>5. HandlerTypes'
    BY <2>3, <2>4, Handlers, HandlerUpdate
  <2>. QED
    BY <1>6, <2>5 DEF RunCallback, QueueTypes, PlainTypes, queueVars, timerVars
<1>7. ASSUME SocketWrites PROVE Goal
  <2>1. writing \in Seq(Frame) /\ writing # << >>
    BY <1>7 DEF SocketWrites, QueueTypes
  <2>2. Head(writing) \in Frame /\ Tail(writing) \in Seq(Frame)
    BY <2>1, HeadTailProperties
  <2>3. [frame |-> Head(writing), ok |-> TRUE] \in Done
    BY <2>2 DEF Done
  <2>4. completed' \in Seq(Done)
    BY <1>7, <2>3, AppendFacts DEF SocketWrites, QueueTypes
  <2>5. wire' \in Seq(Frame)
    BY <1>7, <2>2, AppendFacts DEF SocketWrites, QueueTypes
  <2>6. QueueTypes'
    BY <1>7, <2>2, <2>4, <2>5 DEF SocketWrites, QueueTypes
  <2>. QED
    BY <1>7, <2>6 DEF SocketWrites, HandlerTypes, PlainTypes, timerVars
<1>8. ASSUME StopRunner PROVE Goal
  BY <1>8 DEF StopRunner, QueueTypes, HandlerTypes, PlainTypes, queueVars, timerVars, historyVars
<1>9. ASSUME UNCHANGED vars PROVE Goal
  BY <1>9 DEF vars, QueueTypes, HandlerTypes, PlainTypes
<1>. QED
  BY <1>1, <1>2, <1>3, <1>4, <1>5, <1>6, <1>7, <1>8, <1>9, StepCases

\* A queue which is not empty has a front.
LEMMA FrontFrame ==
    ASSUME TypeOK, sendQueue # << >>
    PROVE  /\ sendQueue[1] \in Frame
           /\ Len(sendQueue) \in Nat \ {0}
           /\ Tail(sendQueue) \in Seq(Frame)
           /\ Len(Tail(sendQueue)) = Len(sendQueue) - 1
<1>1. sendQueue \in Seq(Frame)
  BY DEF TypeOK
<1>. QED
  BY <1>1, EmptySeq, ElementOfSeq, HeadTailProperties

\* The front moves from place to place and is never in two of them.
LEMMA PlacedStep == TypeOK /\ Placed /\ [Step]_vars => Placed'
<1>. SUFFICES ASSUME TypeOK, Placed, [Step]_vars PROVE Placed'
  OBVIOUS
<1>. USE DEF InNoPlace, InPosted, InWriting, InCompleted
<1>1. ASSUME QuietStep PROVE Placed'
  BY <1>1, QuietFacts DEF Placed
<1>2. ASSUME CloseStep PROVE Placed'
  <2>1. CASE InWriting
    <3>1. InCompleted(FALSE)'
      BY <1>2, <2>1, CloseFacts, CloseMoves
    <3>. QED
      BY <3>1 DEF Placed
  <2>2. CASE ~InWriting
    <3>1. UNCHANGED << sendQueue, posted, writing, completed, stopped >>
      BY <1>2, <2>2, CloseFacts, CloseMoves
    <3>. QED
      BY <3>1 DEF Placed
  <2>. QED
    BY <2>1, <2>2
<1>3. ASSUME EnqueueStep PROVE Placed'
  <2>1. PICK opcode \in Opcode : Enqueue(opcode)
    BY <1>3, EnqueueFacts
  <2>2. UNCHANGED << writing, completed, stopped >> /\ sendQueue' # << >>
    BY <1>3, <2>1, EnqueueFacts, EnqueueEffect
  <2>3. CASE sendQueue = << >>
    <3>1. InNoPlace
      BY <2>3 DEF Placed
    <3>2. sendQueue' \in Seq(Frame)
      BY TypeStep DEF TypeOK
    <3>3. sendQueue'[1] \in Frame
      BY <2>2, <3>2, EmptySeq, ElementOfSeq
    <3>4. posted' = << sendQueue'[1] >>
      BY <2>1, <2>3, <3>1, <3>3, EnqueueEffect, OneElement
    <3>. QED
      BY <2>2, <3>1, <3>4 DEF Placed
  <2>4. CASE sendQueue # << >>
    <3>1. posted' = posted /\ sendQueue'[1] = sendQueue[1]
      BY <2>1, <2>4, EnqueueEffect
    <3>. QED
      BY <2>2, <2>4, <3>1 DEF Placed
  <2>. QED
    BY <2>3, <2>4
<1>4. ASSUME NEW t \in IoThreads, StartWrite(t) PROVE Placed'
  <2>1. InPosted
    BY <1>4 DEF StartWrite, Placed
  <2>2. Head(posted) = sendQueue[1] /\ Tail(posted) = << >>
    BY <2>1, FrontFrame, OneElement
  <2>3. UNCHANGED << sendQueue, completed, stopped >> /\ posted' = << >>
    BY <1>4, <2>2 DEF StartWrite, historyVars
  <2>4. CASE stopped
    BY <1>4, <2>1, <2>3, <2>4 DEF StartWrite, ScopeRefuses, Placed
  <2>5. CASE ~stopped
    <3>1. writing' = << sendQueue[1] >>
      BY <1>4, <2>1, <2>2, <2>5, FrontFrame, OneElement DEF StartWrite, ScopeRefuses
    <3>. QED
      BY <2>1, <2>3, <3>1 DEF Placed
  <2>. QED
    BY <2>4, <2>5
<1>5. ASSUME NEW t \in IoThreads, WriteHandler(t) PROVE Placed'
  <2>1. completed' = << >> /\ writing' = << >> /\ stopped' = stopped /\ sendQueue # << >>
    BY <1>5, WriteHandlerEffect
  <2>2. CASE stopped
    <3>1. posted' = << >>
      BY <1>5, <2>2, WriteHandlerEffect
    <3>. QED
      BY <2>1, <2>2, <3>1 DEF Placed
  <2>3. CASE ~stopped /\ InCompleted(TRUE)
    <3>1. sendQueue' = Tail(sendQueue) /\ posted' = Front(Tail(sendQueue))
      BY <1>5, <2>3, WriteHandlerEffect
    <3>2. Tail(sendQueue) \in Seq(Frame)
      BY <2>1, FrontFrame
    <3>3. CASE Tail(sendQueue) = << >>
      BY <2>1, <3>1, <3>3, FrontFacts, <3>2 DEF Placed
    <3>4. CASE Tail(sendQueue) # << >>
      <4>1. posted' = << sendQueue'[1] >>
        BY <3>1, <3>2, <3>4, FrontFacts
      <4>. QED
        BY <2>1, <3>1, <3>4, <4>1 DEF Placed
    <3>. QED
      BY <3>3, <3>4
  <2>4. CASE ~stopped /\ InCompleted(FALSE)
    <3>1. sendQueue' = << >> /\ posted' = << >>
      BY <1>5, <2>4, WriteHandlerEffect
    <3>. QED
      BY <2>1, <3>1 DEF Placed
  <2>. QED
    BY <1>5, <2>2, <2>3, <2>4, WriteHandlerEffect
<1>6. ASSUME NEW t \in IoThreads, RunCallback(t) PROVE Placed'
  BY <1>6 DEF RunCallback, Placed, queueVars
<1>7. ASSUME SocketWrites PROVE Placed'
  <2>1. InWriting
    BY <1>7 DEF SocketWrites, Placed
  <2>2. Head(writing) = sendQueue[1] /\ Tail(writing) = << >>
    BY <2>1, FrontFrame, OneElement
  <2>3. [frame |-> sendQueue[1], ok |-> TRUE] \in Done
    BY <2>1, FrontFrame DEF Done
  <2>4. completed' = << [frame |-> sendQueue[1], ok |-> TRUE] >>
    BY <1>7, <2>1, <2>2, <2>3, OneElement DEF SocketWrites
  <2>5. InCompleted(TRUE)'
    BY <1>7, <2>1, <2>2, <2>4 DEF SocketWrites
  <2>. QED
    BY <2>5 DEF Placed
<1>8. ASSUME StopRunner PROVE Placed'
  BY <1>8 DEF StopRunner, Placed, queueVars
<1>9. ASSUME UNCHANGED vars PROVE Placed'
  BY <1>9 DEF vars, Placed
<1>. QED
  BY <1>1, <1>2, <1>3, <1>4, <1>5, <1>6, <1>7, <1>8, <1>9, StepCases

PlacesExclude ==
    /\ InPosted => ~InWriting /\ ~InCompleted(TRUE) /\ ~InCompleted(FALSE)
    /\ InWriting => ~InPosted /\ ~InCompleted(TRUE) /\ ~InCompleted(FALSE)
    /\ InCompleted(TRUE) => ~InPosted /\ ~InWriting /\ ~InCompleted(FALSE)
    /\ InCompleted(FALSE) => ~InPosted /\ ~InWriting /\ ~InCompleted(TRUE)
    /\ InPosted \/ InWriting \/ InCompleted(TRUE) \/ InCompleted(FALSE) =>
          sendQueue # << >>

\* The places exclude each other.
LEMMA Exclusive == PlacesExclude
<1>1. InCompleted(TRUE) => Head(completed).ok = TRUE
  <2>1. SUFFICES ASSUME InCompleted(TRUE) PROVE Head(completed).ok = TRUE
    OBVIOUS
  <2>2. Head(completed) = [frame |-> sendQueue[1], ok |-> TRUE]
    BY <2>1 DEF InCompleted
  <2>. QED
    BY <2>2
<1>2. InCompleted(FALSE) => Head(completed).ok = FALSE
  <2>1. SUFFICES ASSUME InCompleted(FALSE) PROVE Head(completed).ok = FALSE
    OBVIOUS
  <2>2. Head(completed) = [frame |-> sendQueue[1], ok |-> FALSE]
    BY <2>1 DEF InCompleted
  <2>. QED
    BY <2>2
<1>3. ~(InCompleted(TRUE) /\ InCompleted(FALSE))
  BY <1>1, <1>2
<1>4. /\ InPosted => ~InWriting
      /\ InPosted \/ InWriting => ~InCompleted(TRUE) /\ ~InCompleted(FALSE)
  BY DEF InPosted, InWriting, InCompleted
<1>. QED
  BY <1>3, <1>4 DEF PlacesExclude, InPosted, InWriting, InCompleted

\* And so they do in the next state.
LEMMA ExclusiveNext == PlacesExclude'
  BY Exclusive, PTL

\* How many frames have left the queue after each step that changes it.
LEMMA BaseFacts ==
    ASSUME TypeOK, Placed, Numbered
    PROVE  /\ Base \in Nat
           /\ EnqueueStep => Base' = Base /\ Len(sendQueue') = Len(sendQueue) + 1
           /\ \A t \in IoThreads : WriteHandler(t) =>
                 /\ stopped => Base' = Base
                 /\ ~stopped /\ InCompleted(TRUE) => Base' = Base + 1
                 /\ ~stopped /\ InCompleted(FALSE) => Base' = nextId - 1
           /\ UNCHANGED << sendQueue, nextId >> => Base' = Base
<1>1. sendQueue \in Seq(Frame) /\ nextId \in Nat \ {0} /\ Len(sendQueue) \in Nat
  BY LenProperties DEF TypeOK
<1>2. Base \in Nat
  BY <1>1 DEF Base, Numbered
<1>3. ASSUME EnqueueStep PROVE Base' = Base /\ Len(sendQueue') = Len(sendQueue) + 1
  <2>1. PICK opcode \in Opcode : Enqueue(opcode)
    BY <1>3, EnqueueFacts
  <2>. DEFINE f == [id |-> nextId, opcode |-> opcode]
  <2>2. f \in Frame /\ sendQueue' = Append(sendQueue, f) /\ nextId' = nextId + 1
    BY <2>1, EnqueueEffect
  <2>3. Len(sendQueue') = Len(sendQueue) + 1
    BY <1>1, <2>2, AppendFacts
  <2>. QED
    BY <1>1, <2>2, <2>3 DEF Base
<1>4. ASSUME NEW t \in IoThreads, WriteHandler(t)
      PROVE  /\ stopped => Base' = Base
             /\ ~stopped /\ InCompleted(TRUE) => Base' = Base + 1
             /\ ~stopped /\ InCompleted(FALSE) => Base' = nextId - 1
  <2>1. nextId' = nextId /\ sendQueue # << >>
    BY <1>4, WriteHandlerEffect DEF InCompleted
  <2>2. Len(Tail(sendQueue)) = Len(sendQueue) - 1
    BY <2>1, FrontFrame
  <2>3. ASSUME stopped PROVE Base' = Base
    BY <1>4, <2>1, <2>3, WriteHandlerEffect DEF Base
  <2>4. ASSUME ~stopped, InCompleted(TRUE) PROVE Base' = Base + 1
    <3>1. sendQueue' = Tail(sendQueue)
      BY <1>4, <2>4, WriteHandlerEffect
    <3>. QED
      BY <1>1, <2>1, <2>2, <3>1 DEF Base
  <2>5. ASSUME ~stopped, InCompleted(FALSE) PROVE Base' = nextId - 1
    <3>1. sendQueue' = << >>
      BY <1>4, <2>5, WriteHandlerEffect
    <3>2. Len(sendQueue') = 0
      BY <3>1
    <3>. QED
      BY <1>1, <2>1, <3>2 DEF Base
  <2>. QED
    BY <2>3, <2>4, <2>5
<1>. QED
  BY <1>2, <1>3, <1>4 DEF Base

\* The frames of the queue are those accepted last.
LEMMA NumberedStep == TypeOK /\ Placed /\ Numbered /\ [Step]_vars => Numbered'
<1>. SUFFICES ASSUME TypeOK, Placed, Numbered, [Step]_vars PROVE Numbered'
  OBVIOUS
<1>1. sendQueue \in Seq(Frame) /\ nextId \in Nat \ {0} /\ Len(sendQueue) \in Nat
  BY LenProperties DEF TypeOK
<1>2. ASSUME UNCHANGED << sendQueue, nextId >> PROVE Numbered'
  BY <1>2 DEF Numbered, Base
<1>3. ASSUME EnqueueStep PROVE Numbered'
  <2>1. PICK opcode \in Opcode : Enqueue(opcode)
    BY <1>3, EnqueueFacts
  <2>. DEFINE f == [id |-> nextId, opcode |-> opcode]
  <2>2. f \in Frame /\ sendQueue' = Append(sendQueue, f) /\ nextId' = nextId + 1
    BY <2>1, EnqueueEffect
  <2>3. Base' = Base /\ Len(sendQueue') = Len(sendQueue) + 1
    BY <1>3, BaseFacts
  <2>4. Base + Len(sendQueue) + 1 = nextId
    BY <1>1 DEF Base
  <2>5. ASSUME NEW i \in 1..Len(sendQueue') PROVE sendQueue'[i].id = Base + i
    <3>1. CASE i = Len(sendQueue) + 1
      <4>1. sendQueue'[i] = f
        BY <1>1, <2>2, <3>1, AppendFacts
      <4>. QED
        BY <1>1, <2>4, <3>1, <4>1, BaseFacts
    <3>2. CASE i # Len(sendQueue) + 1
      <4>1. i \in 1..Len(sendQueue)
        BY <1>1, <2>3, <3>2
      <4>2. sendQueue'[i] = sendQueue[i]
        BY <1>1, <2>2, <4>1, AppendFacts
      <4>. QED
        BY <4>1, <4>2 DEF Numbered
    <3>. QED
      BY <3>1, <3>2
  <2>6. Len(sendQueue') < nextId'
    BY <1>1, <2>2, <2>3 DEF Numbered
  <2>. QED
    BY <2>3, <2>5, <2>6 DEF Numbered
<1>4. ASSUME NEW t \in IoThreads, WriteHandler(t) PROVE Numbered'
  <2>1. nextId' = nextId
    BY <1>4, WriteHandlerEffect
  <2>2. CASE stopped
    BY <1>2, <1>4, <2>1, <2>2, WriteHandlerEffect
  <2>3. CASE ~stopped /\ InCompleted(TRUE)
    <3>1. sendQueue' = Tail(sendQueue) /\ sendQueue # << >> /\ Base' = Base + 1
      BY <1>4, <2>3, WriteHandlerEffect, BaseFacts DEF InCompleted
    <3>2. Len(sendQueue') = Len(sendQueue) - 1
      BY <3>1, FrontFrame
    <3>3. ASSUME NEW i \in 1..Len(sendQueue') PROVE sendQueue'[i].id = Base + 1 + i
      <4>1. sendQueue'[i] = sendQueue[i + 1]
        BY <1>1, <3>1, HeadTailProperties
      <4>2. i + 1 \in 1..Len(sendQueue)
        BY <1>1, <3>2
      <4>3. sendQueue[i + 1].id = Base + (i + 1)
        BY <4>2 DEF Numbered
      <4>. QED
        BY <4>1, <4>2, <4>3, BaseFacts
    <3>. QED
      BY <1>1, <2>1, <3>1, <3>2, <3>3 DEF Numbered
  <2>4. CASE ~stopped /\ InCompleted(FALSE)
    <3>1. sendQueue' = << >>
      BY <1>4, <2>4, WriteHandlerEffect
    <3>2. Len(sendQueue') = 0
      BY <3>1
    <3>. QED
      BY <1>1, <2>1, <3>2 DEF Numbered
  <2>. QED
    BY <1>4, <2>2, <2>3, <2>4, WriteHandlerEffect
<1>5. \/ EnqueueStep
      \/ \E t \in IoThreads : WriteHandler(t)
      \/ UNCHANGED << sendQueue, nextId >>
  BY StepCases, QuietFacts, CloseFacts
  DEF StartWrite, RunCallback, SocketWrites, StopRunner, vars, historyVars, queueVars
<1>. QED
  BY <1>2, <1>3, <1>4, <1>5

\* Handlers of a stopped scope have returned and do not start anew.
LEMMA StoppedIdleStep ==
    TypeOK /\ Placed /\ StoppedIdle /\ [Step]_vars => StoppedIdle'
<1>. SUFFICES ASSUME TypeOK, Placed, StoppedIdle, [Step]_vars PROVE StoppedIdle'
  OBVIOUS
<1>1. ASSUME NEW t \in IoThreads, WriteHandler(t) PROVE StoppedIdle'
  BY <1>1, WriteHandlerEffect DEF StoppedIdle, FreeThread
<1>2. ASSUME NEW t \in IoThreads, RunCallback(t) PROVE StoppedIdle'
  <2>1. stopped' = stopped /\ running[t] # Idle
    BY <1>2 DEF RunCallback, Idle
  <2>. QED
    BY <2>1 DEF StoppedIdle, FreeThread
<1>3. ASSUME StopRunner PROVE StoppedIdle'
  BY <1>3 DEF StopRunner, StoppedIdle, FreeThread
<1>4. ASSUME UNCHANGED << running, stopped >> PROVE StoppedIdle'
  BY <1>4 DEF StoppedIdle, FreeThread
<1>5. \/ \E t \in IoThreads : WriteHandler(t) \/ RunCallback(t)
      \/ StopRunner
      \/ UNCHANGED << running, stopped >>
  BY StepCases, QuietFacts, CloseFacts, EnqueueFacts DEF StartWrite, SocketWrites, vars
<1>. QED
  BY <1>1, <1>2, <1>3, <1>4, <1>5

\* What the peer has received stays tied to the place of the front.
LEMMA WireStep ==
    TypeOK /\ Placed /\ Numbered /\ WireCounted /\ [Step]_vars => WireCounted'
<1>. SUFFICES ASSUME TypeOK, Placed, Numbered, WireCounted, [Step]_vars
              PROVE  WireCounted'
  OBVIOUS
<1>1. Base \in Nat /\ Len(wire) \in Nat /\ nextId \in Nat
  BY BaseFacts, LenProperties DEF TypeOK
<1>2. Placed' /\ TypeOK' /\ Numbered'
  BY PlacedStep, TypeStep, NumberedStep
<1>3. ASSUME UNCHANGED << sendQueue, posted, writing, completed, socketUp, stopped,
                          nextId, wire >>
      PROVE  WireCounted'
  BY <1>3 DEF WireCounted, WireOrder, Base, InPosted, InWriting, InCompleted
<1>4. ASSUME CloseStep PROVE WireCounted'
  <2>1. UNCHANGED << sendQueue, posted, nextId, wire, stopped >> /\ socketUp' = FALSE
    BY <1>4, CloseFacts, CloseMoves
  <2>2. CASE InWriting
    <3>1. InCompleted(FALSE)'
      BY <1>4, <2>1, <2>2, CloseFacts, CloseMoves DEF InWriting, InCompleted
    <3>2. Base' = Base /\ Len(wire) <= Base
      BY <2>1, <2>2, BaseFacts DEF WireCounted
    <3>. QED
      BY <1>2, <2>1, <3>1, <3>2, ExclusiveNext DEF WireCounted, WireOrder, PlacesExclude
  <2>3. CASE ~InWriting
    <3>1. UNCHANGED << writing, completed >> /\ Base' = Base
      BY <1>4, <2>1, <2>3, CloseFacts, CloseMoves, BaseFacts
    <3>. QED
      BY <2>1, <3>1 DEF WireCounted, WireOrder, InPosted, InWriting, InCompleted
  <2>. QED
    BY <2>2, <2>3
<1>5. ASSUME EnqueueStep PROVE WireCounted'
  <2>1. PICK opcode \in Opcode : Enqueue(opcode)
    BY <1>5, EnqueueFacts
  <2>2. UNCHANGED << writing, completed, stopped, socketUp, wire >>
    BY <1>5, EnqueueFacts
  <2>3. Base' = Base /\ sendQueue' # << >>
    BY <1>5, <2>1, EnqueueEffect, BaseFacts
  <2>4. CASE sendQueue = << >>
    <3>1. InNoPlace
      BY <2>4 DEF Placed, InPosted, InWriting, InCompleted
    <3>2. InPosted'
      <4>1. sendQueue'[1] \in Frame
        BY <1>2, <2>3, EmptySeq, ElementOfSeq DEF TypeOK
      <4>2. posted' = << sendQueue'[1] >>
        BY <2>1, <2>4, <3>1, <4>1, EnqueueEffect, OneElement DEF InNoPlace
      <4>. QED
        BY <2>2, <2>3, <3>1, <4>2 DEF InNoPlace, InPosted
    <3>. QED
      BY <1>2, <2>2, <2>3, <2>4, <3>2, ExclusiveNext DEF WireCounted, WireOrder, PlacesExclude
  <2>5. CASE sendQueue # << >>
    <3>1. posted' = posted /\ sendQueue'[1] = sendQueue[1]
      BY <2>1, <2>5, EnqueueEffect
    <3>2. /\ InPosted' <=> InPosted
          /\ InWriting' <=> InWriting
          /\ InCompleted(TRUE)' <=> InCompleted(TRUE)
          /\ InCompleted(FALSE)' <=> InCompleted(FALSE)
      BY <2>2, <2>3, <2>5, <3>1 DEF InPosted, InWriting, InCompleted
    <3>. QED
      BY <2>2, <2>3, <2>5, <3>2 DEF WireCounted, WireOrder
  <2>. QED
    BY <2>4, <2>5
<1>6. ASSUME NEW t \in IoThreads, StartWrite(t) PROVE WireCounted'
  <2>1. InPosted
    BY <1>6 DEF StartWrite, Placed, InNoPlace, InWriting, InCompleted
  <2>2. UNCHANGED << sendQueue, completed, stopped, socketUp, nextId, wire >>
    BY <1>6 DEF StartWrite, historyVars
  <2>3. Base' = Base /\ Len(wire) <= Base
    BY <2>1, <2>2, BaseFacts DEF WireCounted
  <2>4. ~InCompleted(TRUE)' /\ ~InCompleted(FALSE)' /\ sendQueue' # << >>
    BY <2>1, <2>2 DEF InPosted, InCompleted
  <2>5. CASE stopped
    <3>1. ~InWriting'
      BY <1>6, <2>1, <2>5 DEF StartWrite, ScopeRefuses, InPosted, InWriting
    <3>. QED
      BY <2>2, <2>3, <2>4, <2>5, <3>1 DEF WireCounted, WireOrder
  <2>6. CASE ~stopped
    <3>1. socketUp => Len(wire) = Base
      BY <2>1, <2>6 DEF WireCounted
    <3>2. ~InPosted'
      <4>1. posted' = << >>
        BY <1>6, <2>1, FrontFrame, OneElement DEF StartWrite, InPosted
      <4>. QED
        BY <4>1 DEF InPosted
    <3>. QED
      BY <2>2, <2>3, <2>4, <3>1, <3>2 DEF WireCounted, WireOrder
  <2>. QED
    BY <2>5, <2>6
<1>7. ASSUME NEW t \in IoThreads, WriteHandler(t) PROVE WireCounted'
  <2>1. UNCHANGED << stopped, socketUp, nextId, wire >> /\ sendQueue # << >>
    BY <1>7, WriteHandlerEffect DEF InCompleted
  <2>2. ~InWriting' /\ ~InCompleted(TRUE)' /\ ~InCompleted(FALSE)'
    <3>1. writing' = << >> /\ completed' = << >>
      BY <1>7, WriteHandlerEffect
    <3>. QED
      BY <3>1 DEF InWriting, InCompleted
  <2>3. CASE stopped
    <3>1. posted' = posted /\ sendQueue' = sendQueue /\ posted = << >>
      BY <1>7, <2>3, WriteHandlerEffect DEF InCompleted
    <3>2. ~InPosted'
      BY <3>1 DEF InPosted
    <3>. QED
      BY <2>1, <2>2, <2>3, <3>1, <3>2 DEF WireCounted, WireOrder
  <2>4. CASE ~stopped /\ InCompleted(TRUE)
    <3>1. Base' = Base + 1 /\ Len(wire) = Base + 1
      BY <1>7, <2>4, BaseFacts DEF WireCounted
    <3>2. Len(wire') = Base'
      BY <2>1, <3>1
    <3>3. WireOrder'
      BY <2>1 DEF WireCounted, WireOrder
    <3>4. Len(wire') <= Base'
      BY <1>1, <3>1, <3>2
    <3>. QED
      BY <2>2, <3>2, <3>3, <3>4 DEF WireCounted
  <2>5. CASE ~stopped /\ InCompleted(FALSE)
    <3>1. Base' = nextId - 1 /\ ~socketUp /\ Len(wire) <= Base
      BY <1>7, <2>5, BaseFacts DEF WireCounted
    <3>2. Base <= nextId - 1
      BY <1>1, LenProperties DEF Base, TypeOK
    <3>3. Len(wire) <= Base'
      BY <1>1, <3>1, <3>2
    <3>. QED
      BY <1>1, <2>1, <2>2, <3>1, <3>3 DEF WireCounted, WireOrder
  <2>. QED
    BY <1>7, <2>3, <2>4, <2>5, WriteHandlerEffect
<1>8. ASSUME SocketWrites PROVE WireCounted'
  <2>1. InWriting /\ socketUp
    BY <1>8 DEF SocketWrites, Placed, InNoPlace, InPosted, InCompleted
  <2>2. UNCHANGED << sendQueue, posted, stopped, socketUp, nextId >>
    BY <1>8 DEF SocketWrites
  <2>3. Head(writing) = sendQueue[1] /\ sendQueue[1] \in Frame
    BY <2>1, FrontFrame, OneElement DEF InWriting
  <2>4. Len(wire) = Base /\ Base' = Base
    BY <2>1, <2>2, BaseFacts DEF WireCounted
  <2>5. sendQueue[1].id = Base + 1
    BY <2>1, FrontFrame DEF InWriting, Numbered
  <2>6. wire' = Append(wire, sendQueue[1]) /\ wire \in Seq(Frame)
    BY <1>8, <2>3 DEF SocketWrites, TypeOK
  <2>7. Len(wire') = Base + 1
    BY <2>3, <2>4, <2>6, AppendFacts
  <2>8. WireOrder'
    <3>1. DOMAIN wire' = 1..Len(wire) + 1 /\ DOMAIN wire = 1..Len(wire)
      BY <1>2, <2>4, <2>6, <2>7, LenProperties DEF TypeOK
    <3>2. ASSUME NEW i \in 1..Len(wire) + 1 PROVE wire'[i].id = i
      <4>1. CASE i = Len(wire) + 1
        BY <2>3, <2>4, <2>5, <2>6, <4>1, AppendFacts
      <4>2. CASE i # Len(wire) + 1
        <5>1. i \in 1..Len(wire)
          BY <1>1, <4>2
        <5>2. wire'[i] = wire[i]
          BY <2>3, <2>6, <5>1, AppendFacts
        <5>. QED
          BY <3>1, <5>1, <5>2 DEF WireCounted, WireOrder
      <4>. QED
        BY <4>1, <4>2
    <3>. QED
      BY <3>1, <3>2 DEF WireOrder
  <2>9. InCompleted(TRUE)'
    <3>1. Tail(writing) = << >> /\ completed = << >> /\ posted = << >>
      BY <2>1, <2>3, OneElement DEF InWriting
    <3>2. [frame |-> sendQueue[1], ok |-> TRUE] \in Done
      BY <2>3 DEF Done
    <3>3. completed' = << [frame |-> sendQueue[1], ok |-> TRUE] >>
      BY <1>8, <2>3, <3>1, <3>2, OneElement DEF SocketWrites
    <3>. QED
      BY <1>8, <2>1, <2>2, <3>1, <3>3 DEF SocketWrites, InCompleted, InWriting
  <2>. QED
    BY <2>4, <2>7, <2>8, <2>9, ExclusiveNext DEF WireCounted, PlacesExclude
<1>9. ASSUME StopRunner PROVE WireCounted'
  <2>1. UNCHANGED << sendQueue, posted, writing, completed, socketUp, nextId, wire >>
    BY <1>9 DEF StopRunner, queueVars, historyVars
  <2>2. stopped' = TRUE
    BY <1>9 DEF StopRunner
  <2>. QED
    BY <2>1, <2>2 DEF WireCounted, WireOrder, Base, InPosted, InWriting, InCompleted
<1>10. \/ UNCHANGED << sendQueue, posted, writing, completed, socketUp, stopped, nextId, wire >>
       \/ CloseStep \/ EnqueueStep \/ SocketWrites \/ StopRunner
       \/ \E t \in IoThreads : StartWrite(t) \/ WriteHandler(t)
  BY StepCases, QuietFacts DEF RunCallback, vars, queueVars
<1>. QED
  BY <1>3, <1>4, <1>5, <1>6, <1>7, <1>8, <1>9, <1>10

\* Where the front is, is what OneWrite says.
LEMMA PlacedMeansOneWrite == TypeOK /\ Placed => OneWrite
<1>. SUFFICES ASSUME TypeOK, Placed PROVE OneWrite
  OBVIOUS
<1>. USE DEF InNoPlace, InPosted, InWriting, InCompleted
<1>1. CASE InNoPlace /\ (stopped \/ sendQueue = << >>)
  BY <1>1 DEF OneWrite, InFlight
<1>2. CASE InPosted
  BY <1>2 DEF OneWrite, InFlight, IsFront
<1>3. CASE InWriting
  BY <1>3 DEF OneWrite, InFlight, IsFront
<1>4. ASSUME NEW ok \in BOOLEAN, InCompleted(ok) PROVE OneWrite
  <2>1. [frame |-> sendQueue[1], ok |-> ok] \in Done
    BY <1>4, FrontFrame DEF Done
  <2>2. Len(completed) = 1 /\ DOMAIN completed = {1} /\ completed[1].frame = sendQueue[1]
    BY <1>4, <2>1, OneElement
  <2>. QED
    BY <1>4, <2>2 DEF OneWrite, InFlight, IsFront
<1>. QED
  BY <1>1, <1>2, <1>3, <1>4 DEF Placed

\* The invariant of the queue is inductive.
LEMMA QueueStep == QueueInv /\ [Step]_vars => QueueInv'
  BY TypeStep, PlacedStep, NumberedStep, WireStep, StoppedIdleStep DEF QueueInv

-----------------------------------------------------------------------------
(* Callbacks                                                               *)

\* What the callbacks of a thread are after each step.
LEMMA HandlersOfOthers ==
    ASSUME TypeOK, NEW t \in IoThreads, NEW h, running' = [running EXCEPT ![t] = h]
    PROVE  \A u \in IoThreads : running'[u] = IF u = t THEN h ELSE running[u]
  BY DEF TypeOK

\* Steps which neither start nor call callbacks keep what is known of them.
LEMMA CallsKept ==
    ASSUME QueueInv, CallsTrue, CallsDistinct,
           UNCHANGED << running, called >>, Base' = Base,
           wire' \in Seq(Frame), Len(wire') >= Len(wire),
           ~socketUp => ~socketUp' /\ wire' = wire
    PROVE  CallsTrue' /\ CallsDistinct'
<1>1. Len(wire) \in Nat /\ Len(wire') \in Nat /\ Base \in Nat
  BY BaseFacts, LenProperties DEF QueueInv, TypeOK
<1>2. ASSUME NEW t \in IoThreads, NEW i \in 1..Len(running[t].calls)
      PROVE  /\ running[t].calls[i] \in 1..Base
             /\ running[t].ok => running[t].calls[i] <= Len(wire')
             /\ ~running[t].ok => ~socketUp' /\ running[t].calls[i] > Len(wire')
  <2>1. running[t].calls[i] \in 1..Base
    BY <1>2 DEF CallsTrue
  <2>2. CASE running[t].ok
    BY <1>1, <1>2, <2>1, <2>2 DEF CallsTrue
  <2>3. CASE ~running[t].ok
    BY <1>2, <2>1, <2>3 DEF CallsTrue
  <2>. QED
    BY <2>1, <2>2, <2>3
<1>3. CallsTrue'
  BY <1>2 DEF CallsTrue
<1>4. CallsDistinct'
  BY DEF CallsDistinct
<1>. QED
  BY <1>3, <1>4

\* A write's handler which has callbacks to call for frames that leave the
\* queue with it.
LEMMA CallsStarted ==
    ASSUME QueueInv, CallsTrue, CallsDistinct,
           NEW t \in IoThreads, FreeThread(t),
           NEW calls \in Seq(Nat), NEW ok \in BOOLEAN,
           running' = [running EXCEPT ![t] = Calling(calls, ok)],
           UNCHANGED << called, wire, socketUp >>,
           Base' \in Nat, Base <= Base',
           \A i \in 1..Len(calls) :
              /\ calls[i] \in Base + 1..Base'
              /\ IF ok THEN calls[i] <= Len(wire) ELSE ~socketUp /\ calls[i] > Len(wire),
           \A i, j \in 1..Len(calls) : calls[i] = calls[j] => i = j
    PROVE  CallsTrue' /\ CallsDistinct'
<1>1. Base \in Nat
  BY BaseFacts DEF QueueInv
<1>2. \A u \in IoThreads : running'[u] = IF u = t THEN Calling(calls, ok) ELSE running[u]
  BY HandlersOfOthers DEF QueueInv
<1>3. /\ running'[t].calls = calls
      /\ running'[t].ok <=> ok
  BY <1>2 DEF Calling
<1>4. \A u \in IoThreads : u # t => running'[u] = running[u]
  BY <1>2
<1>5. CallsTrue'
  <2>1. ASSUME NEW u \in IoThreads, NEW i \in 1..Len(running'[u].calls)
        PROVE  /\ running'[u].calls[i] \in 1..Base'
               /\ IF running'[u].ok
                    THEN running'[u].calls[i] <= Len(wire)
                    ELSE ~socketUp /\ running'[u].calls[i] > Len(wire)
    <3>1. CASE u = t
      BY <1>1, <1>3, <2>1, <3>1
    <3>2. CASE u # t
      <4>1. running'[u] = running[u] /\ i \in 1..Len(running[u].calls)
        BY <1>4, <2>1, <3>2
      <4>2. running[u].calls[i] \in 1..Base
        BY <4>1 DEF CallsTrue
      <4>. QED
        BY <1>1, <4>1, <4>2 DEF CallsTrue
    <3>. QED
      BY <3>1, <3>2
  <2>. QED
    BY <2>1 DEF CallsTrue
<1>6. ASSUME NEW u \in IoThreads, u # t, NEW i \in 1..Len(running'[u].calls)
      PROVE  running'[u].calls[i] \in 1..Base
  BY <1>4, <1>6 DEF CallsTrue
<1>7. \A i \in 1..Len(running'[t].calls) : running'[t].calls[i] > Base
  BY <1>1, <1>3
<1>8. ASSUME NEW u \in IoThreads, NEW v \in IoThreads,
             NEW i \in 1..Len(running'[u].calls), NEW j \in 1..Len(running'[v].calls),
             running'[u].calls[i] = running'[v].calls[j]
      PROVE  u = v /\ i = j
  <2>1. CASE u = t /\ v = t
    BY <1>3, <1>8, <2>1
  <2>2. CASE u = t /\ v # t
    <3>1. running'[u].calls[i] > Base /\ running'[v].calls[j] \in 1..Base
      BY <1>6, <1>7, <2>2
    <3>. QED
      BY <1>1, <1>8, <3>1
  <2>3. CASE u # t /\ v = t
    <3>1. running'[v].calls[j] > Base /\ running'[u].calls[i] \in 1..Base
      BY <1>6, <1>7, <2>3
    <3>. QED
      BY <1>1, <1>8, <3>1
  <2>4. CASE u # t /\ v # t
    BY <1>4, <1>8, <2>4 DEF CallsDistinct
  <2>. QED
    BY <2>1, <2>2, <2>3, <2>4
<1>9. ASSUME NEW k \in 1..Len(called)
      PROVE  /\ called[k].id <= Base'
             /\ \A u \in IoThreads : \A i \in 1..Len(running'[u].calls) :
                   running'[u].calls[i] # called[k].id
  <2>1. called[k].id <= Base /\ called[k].id \in Nat
    <3>1. called[k] \in Outcome
      BY ElementOfSeq DEF QueueInv, TypeOK
    <3>. QED
      BY <3>1 DEF CallsDistinct, Outcome
  <2>2. \A i \in 1..Len(running'[t].calls) : running'[t].calls[i] # called[k].id
    BY <1>1, <1>7, <2>1
  <2>3. \A u \in IoThreads : u # t =>
           \A i \in 1..Len(running'[u].calls) : running'[u].calls[i] # called[k].id
    BY <1>4 DEF CallsDistinct
  <2>. QED
    BY <1>1, <2>1, <2>2, <2>3
<1>10. CallsDistinct'
  BY <1>8, <1>9 DEF CallsDistinct
<1>. QED
  BY <1>5, <1>10

\* Two places of one frame among the callbacks to call are the same place.
LEMMA Distinct ==
    ASSUME CallsDistinct, NEW u \in IoThreads, NEW v \in IoThreads,
           NEW i \in 1..Len(running[u].calls), NEW j \in 1..Len(running[v].calls),
           running[u].calls[i] = running[v].calls[j]
    PROVE  u = v /\ i = j
  BY DEF CallsDistinct

\* The next callback is called.
LEMMA CallbackCalled ==
    ASSUME QueueInv, CallsTrue, CallsDistinct, NEW t \in IoThreads, RunCallback(t)
    PROVE  CallsTrue' /\ CallsDistinct'
<1>. DEFINE calls == running[t].calls
            n == Head(calls)
<1>1. calls \in Seq(Nat) /\ calls # << >> /\ running[t].ok \in BOOLEAN
  BY DEF RunCallback, QueueInv, TypeOK
<1>2. Len(calls) \in Nat \ {0} /\ n = calls[1] /\ n \in Nat
  BY <1>1, EmptySeq, HeadTailProperties
<1>3. UNCHANGED << wire, socketUp >> /\ Base' = Base
  BY BaseFacts DEF RunCallback, queueVars, QueueInv
<1>4. called' = Append(called, [id |-> n, thread |-> t, ok |-> running[t].ok])
  BY DEF RunCallback, Answer
<1>5. /\ \A u \in IoThreads : u # t => running'[u] = running[u]
      /\ \A i \in 1..Len(running'[t].calls) :
            /\ i + 1 \in 1..Len(calls)
            /\ running'[t].calls[i] = calls[i + 1]
            /\ running'[t].ok <=> running[t].ok
  <2>1. \A u \in IoThreads : running'[u] = IF u = t THEN AfterCallback(running[t]) ELSE running[u]
    BY HandlersOfOthers DEF QueueInv, RunCallback
  <2>2. CASE Len(calls) = 1
    <3>1. running'[t].calls = << >>
      BY <2>1, <2>2 DEF AfterCallback, Idle
    <3>. QED
      BY <2>1, <3>1
  <2>3. CASE Len(calls) # 1
    <3>1. running'[t].calls = Tail(calls) /\ (running'[t].ok <=> running[t].ok)
      <4>1. running'[t] = Calling(Tail(calls), running[t].ok)
        BY <2>1, <2>3 DEF AfterCallback
      <4>. QED
        BY <4>1 DEF Calling
    <3>2. Len(Tail(calls)) = Len(calls) - 1
      BY <1>1, HeadTailProperties
    <3>3. \A i \in 1..Len(Tail(calls)) : Tail(calls)[i] = calls[i + 1]
      BY <1>1, HeadTailProperties
    <3>. QED
      BY <1>2, <2>1, <3>1, <3>2, <3>3
  <2>. QED
    BY <2>2, <2>3
<1>6. CallsTrue'
  <2>1. ASSUME NEW u \in IoThreads, NEW i \in 1..Len(running'[u].calls)
        PROVE  \E j \in 1..Len(running[u].calls) :
                  /\ running'[u].calls[i] = running[u].calls[j]
                  /\ running'[u].ok <=> running[u].ok
    BY <1>5, <2>1
  <2>2. ASSUME NEW u \in IoThreads, NEW i \in 1..Len(running'[u].calls)
        PROVE  /\ running'[u].calls[i] \in 1..Base'
               /\ IF running'[u].ok
                    THEN running'[u].calls[i] <= Len(wire')
                    ELSE ~socketUp' /\ running'[u].calls[i] > Len(wire')
    <3>1. PICK j \in 1..Len(running[u].calls) :
              /\ running'[u].calls[i] = running[u].calls[j]
              /\ running'[u].ok <=> running[u].ok
      BY <2>1, <2>2
    <3>. QED
      BY <1>3, <3>1 DEF CallsTrue
  <2>. QED
    BY <2>2 DEF CallsTrue
<1>7. ASSUME NEW u \in IoThreads, NEW v \in IoThreads,
             NEW i \in 1..Len(running'[u].calls), NEW j \in 1..Len(running'[v].calls),
             running'[u].calls[i] = running'[v].calls[j]
      PROVE  u = v /\ i = j
  <2>. DEFINE Was(w, k) == IF w = t THEN k + 1 ELSE k
  <2>1. Was(u, i) \in 1..Len(running[u].calls) /\ running'[u].calls[i] = running[u].calls[Was(u, i)]
    <3>1. CASE u = t
      BY <1>5, <1>7, <3>1
    <3>2. CASE u # t
      BY <1>5, <1>7, <3>2
    <3>. QED
      BY <3>1, <3>2
  <2>2. Was(v, j) \in 1..Len(running[v].calls) /\ running'[v].calls[j] = running[v].calls[Was(v, j)]
    <3>1. CASE v = t
      BY <1>5, <1>7, <3>1
    <3>2. CASE v # t
      BY <1>5, <1>7, <3>2
    <3>. QED
      BY <3>1, <3>2
  <2>. HIDE DEF Was
  <2>3. u = v /\ Was(u, i) = Was(v, j)
    <3>1. running[u].calls[Was(u, i)] = running[v].calls[Was(v, j)]
      BY <1>7, <2>1, <2>2
    <3>. QED
      BY <2>1, <2>2, <3>1, Distinct
  <2>4. i \in Int /\ j \in Int
    OBVIOUS
  <2>. QED
    BY <2>3, <2>4 DEF Was
<1>8. /\ called \in Seq(Outcome)
      /\ [id |-> n, thread |-> t, ok |-> running[t].ok] \in Outcome
  BY <1>1, <1>2 DEF QueueInv, TypeOK, Outcome
<1>9. ASSUME NEW k \in 1..Len(called')
      PROVE  /\ called'[k].id <= Base
             /\ \A u \in IoThreads : \A i \in 1..Len(running'[u].calls) :
                   running'[u].calls[i] # called'[k].id
  <2>1. CASE k \in 1..Len(called)
    <3>1. called'[k] = called[k]
      BY <1>4, <1>8, <2>1, AppendFacts
    <3>2. ASSUME NEW u \in IoThreads, NEW i \in 1..Len(running'[u].calls)
          PROVE  running'[u].calls[i] # called[k].id
      <4>1. PICK j \in 1..Len(running[u].calls) : running'[u].calls[i] = running[u].calls[j]
        BY <1>5, <3>2
      <4>. QED
        BY <2>1, <4>1 DEF CallsDistinct
    <3>. QED
      BY <2>1, <3>1, <3>2 DEF CallsDistinct
  <2>2. CASE k \notin 1..Len(called)
    <3>1. k = Len(called) + 1
      <4>1. Len(called) \in Nat /\ Len(called') = Len(called) + 1
        BY <1>4, <1>8, AppendFacts, LenProperties
      <4>. QED
        BY <2>2, <4>1
    <3>2. called'[k].id = n
      BY <1>4, <1>8, <3>1, AppendFacts
    <3>3. n \in 1..Base
      BY <1>2 DEF CallsTrue
    <3>4. ASSUME NEW u \in IoThreads, NEW i \in 1..Len(running'[u].calls)
          PROVE  running'[u].calls[i] # n
      <4>1. CASE u = t
        <5>1. i + 1 \in 1..Len(calls) /\ running'[t].calls[i] = calls[i + 1] /\ i + 1 # 1
          BY <1>5, <3>4, <4>1
        <5>2. 1 \in 1..Len(calls)
          BY <1>2
        <5>. QED
          BY <1>2, <4>1, <5>1, <5>2 DEF CallsDistinct
      <4>2. CASE u # t
        <5>1. running'[u] = running[u] /\ 1 \in 1..Len(calls)
          BY <1>2, <1>5, <4>2
        <5>. QED
          BY <1>2, <3>4, <4>2, <5>1 DEF CallsDistinct
      <4>. QED
        BY <4>1, <4>2
    <3>. QED
      BY <3>2, <3>3, <3>4
  <2>. QED
    BY <2>1, <2>2
<1>10. CallsDistinct'
  BY <1>3, <1>7, <1>9 DEF CallsDistinct
<1>. QED
  BY <1>6, <1>10

\* What is known of the callbacks is preserved.
LEMMA CallsStep == IInv /\ [Step]_vars => CallsTrue' /\ CallsDistinct'
<1>. SUFFICES ASSUME QueueInv, CallsTrue, CallsDistinct, [Step]_vars
              PROVE  CallsTrue' /\ CallsDistinct'
  BY DEF IInv
<1>. USE DEF QueueInv
<1>1. /\ Base \in Nat /\ Len(wire) \in Nat /\ Len(sendQueue) \in Nat /\ nextId \in Nat
      /\ sendQueue \in Seq(Frame) /\ wire \in Seq(Frame)
  BY BaseFacts, LenProperties DEF TypeOK
<1>2. wire' \in Seq(Frame)
  BY TypeStep DEF TypeOK
<1>3. ASSUME UNCHANGED << running, called, wire >>, Base' = Base, ~socketUp => ~socketUp'
      PROVE  CallsTrue' /\ CallsDistinct'
  BY <1>1, <1>2, <1>3, CallsKept
<1>4. ASSUME SocketWrites PROVE CallsTrue' /\ CallsDistinct'
  <2>1. UNCHANGED << running, called >> /\ Base' = Base /\ socketUp
    BY <1>4, BaseFacts DEF SocketWrites
  <2>2. Len(wire') = Len(wire) + 1
    <3>1. Head(writing) \in Frame
      BY <1>4, HeadTailProperties DEF SocketWrites, TypeOK
    <3>. QED
      BY <1>1, <1>4, <3>1, AppendFacts DEF SocketWrites
  <2>. QED
    BY <1>1, <1>2, <2>1, <2>2, CallsKept
<1>5. ASSUME NEW t \in IoThreads, WriteHandler(t) PROVE CallsTrue' /\ CallsDistinct'
  <2>1. UNCHANGED << called, wire, socketUp, nextId >> /\ sendQueue # << >>
    BY <1>5, WriteHandlerEffect DEF InCompleted
  <2>2. FreeThread(t)
    BY <1>5 DEF WriteHandler, EndWrite
  <2>3. Base + Len(sendQueue) = nextId - 1
    BY <1>1 DEF Base
  <2>4. CASE stopped
    <3>1. running' = running /\ Base' = Base
      BY <1>5, <2>4, WriteHandlerEffect, BaseFacts
    <3>. QED
      BY <1>3, <2>1, <3>1
  <2>5. CASE ~stopped /\ InCompleted(TRUE)
    <3>. DEFINE calls == << sendQueue[1].id >>
    <3>1. running' = [running EXCEPT ![t] = Calling(calls, TRUE)] /\ Base' = Base + 1
      BY <1>5, <2>5, WriteHandlerEffect, BaseFacts
    <3>2. sendQueue[1].id = Base + 1 /\ Len(wire) = Base + 1
      BY <2>1, <2>5, FrontFrame DEF Numbered, WireCounted
    <3>3. calls \in Seq(Nat) /\ Len(calls) = 1 /\ calls[1] = Base + 1
      BY <1>1, <3>2, OneElement
    <3>4. \A i \in 1..Len(calls) : i = 1
      BY <3>3
    <3>5. \A i \in 1..Len(calls) :
             calls[i] \in Base + 1..Base' /\ calls[i] <= Len(wire)
      BY <1>1, <3>1, <3>2, <3>3, <3>4
    <3>6. Base' \in Nat /\ Base <= Base'
      BY <1>1, <3>1
    <3>. HIDE DEF calls
    <3>. QED
      BY <2>1, <2>2, <3>1, <3>3, <3>4, <3>5, <3>6, CallsStarted
  <2>6. CASE ~stopped /\ InCompleted(FALSE)
    <3>. DEFINE calls == Ids(sendQueue)
    <3>1. running' = [running EXCEPT ![t] = Calling(calls, FALSE)] /\ Base' = nextId - 1
      BY <1>5, <2>6, WriteHandlerEffect, BaseFacts
    <3>2. ~socketUp /\ Len(wire) <= Base
      BY <2>6 DEF WireCounted
    <3>3. calls \in Seq(Nat) /\ Len(calls) = Len(sendQueue)
      BY <1>1, IdsFacts
    <3>4. \A i \in 1..Len(calls) : calls[i] = Base + i
      BY <1>1, <3>3, IdsFacts DEF Numbered
    <3>5. ASSUME NEW i \in 1..Len(calls)
          PROVE  calls[i] \in Base + 1..Base' /\ calls[i] > Len(wire)
      <4>1. i \in Nat /\ 1 <= i /\ i <= Len(sendQueue) /\ calls[i] = Base + i
        BY <1>1, <3>3, <3>4
      <4>. QED
        BY <1>1, <2>3, <3>1, <3>2, <4>1
    <3>6. \A i, j \in 1..Len(calls) : calls[i] = calls[j] => i = j
      BY <1>1, <3>4
    <3>7. Base' \in Nat /\ Base <= Base'
      BY <1>1, <2>3, <3>1
    <3>. HIDE DEF calls
    <3>. QED
      BY <2>1, <2>2, <3>1, <3>2, <3>3, <3>5, <3>6, <3>7, CallsStarted
  <2>. QED
    BY <1>5, <2>4, <2>5, <2>6, WriteHandlerEffect
<1>6. ASSUME NEW t \in IoThreads, RunCallback(t) PROVE CallsTrue' /\ CallsDistinct'
  BY <1>6, CallbackCalled
<1>7. ASSUME QuietStep \/ CloseStep \/ EnqueueStep \/ StopRunner \/ UNCHANGED vars
             \/ \E t \in IoThreads : StartWrite(t)
      PROVE  CallsTrue' /\ CallsDistinct'
  <2>1. UNCHANGED << running, called, wire >> /\ (~socketUp => ~socketUp')
    <3>1. CASE QuietStep
      BY <3>1, QuietFacts
    <3>2. CASE CloseStep
      BY <3>2, CloseFacts DEF CloseSocket
    <3>3. CASE EnqueueStep
      BY <3>3, EnqueueFacts
    <3>4. CASE StopRunner \/ UNCHANGED vars
      BY <3>4 DEF StopRunner, vars, historyVars
    <3>5. CASE \E t \in IoThreads : StartWrite(t)
      BY <3>5 DEF StartWrite, historyVars
    <3>. QED
      BY <1>7, <3>1, <3>2, <3>3, <3>4, <3>5
  <2>2. Base' = Base
    <3>1. CASE EnqueueStep
      BY <3>1, BaseFacts
    <3>2. CASE ~EnqueueStep
      <4>1. UNCHANGED << sendQueue, nextId >>
        BY <1>7, <3>2, QuietFacts, CloseFacts DEF StopRunner, StartWrite, vars, historyVars, queueVars
      <4>. QED
        BY <4>1, BaseFacts
    <3>. QED
      BY <3>1, <3>2
  <2>. QED
    BY <1>3, <2>1, <2>2
<1>. QED
  BY <1>4, <1>5, <1>6, <1>7, StepCases

\* A write's handler has to answer for the next frames after those that have
\* left the queue, in order.
LEMMA NextAnswers ==
    ASSUME QueueInv, NEW t \in IoThreads, WriteHandler(t), ~stopped
    PROVE  \E calls \in Seq(Nat), ok \in BOOLEAN :
              /\ running' = [running EXCEPT ![t] = Calling(calls, ok)]
              /\ \A i \in 1..Len(calls) : calls[i] = Base + i
<1>. USE DEF QueueInv
<1>1. sendQueue \in Seq(Frame) /\ Base \in Nat
  BY BaseFacts DEF TypeOK
<1>2. InCompleted(TRUE) \/ InCompleted(FALSE)
  BY WriteHandlerEffect
<1>3. CASE InCompleted(TRUE)
  <2>1. running' = [running EXCEPT ![t] = Calling(<< sendQueue[1].id >>, TRUE)]
    BY <1>3, WriteHandlerEffect
  <2>2. sendQueue[1].id = Base + 1
    BY <1>3, FrontFrame DEF InCompleted, Numbered
  <2>3. PICK n \in Nat : n = Base + 1
    BY <1>1
  <2>4. << n >> \in Seq(Nat) /\ Len(<< n >>) = 1 /\ << n >>[1] = Base + 1
    BY <2>3, OneElement
  <2>5. \A i \in 1..Len(<< n >>) : << n >>[i] = Base + i
    BY <2>4
  <2>. QED
    BY <2>1, <2>2, <2>3, <2>4, <2>5
<1>4. CASE InCompleted(FALSE)
  <2>1. running' = [running EXCEPT ![t] = Calling(Ids(sendQueue), FALSE)]
    BY <1>4, WriteHandlerEffect
  <2>2. Ids(sendQueue) \in Seq(Nat) /\ Len(Ids(sendQueue)) = Len(sendQueue)
    BY <1>1, IdsFacts
  <2>3. \A i \in 1..Len(Ids(sendQueue)) : Ids(sendQueue)[i] = Base + i
    BY <1>1, <2>2, IdsFacts DEF Numbered
  <2>. QED
    BY <2>1, <2>2, <2>3
<1>. QED
  BY <1>2, <1>3, <1>4

\* What a thread has called and has yet to call is in the order of the sends.
Ordered ==
    /\ CallbackOrder
    /\ \A t \in IoThreads : \A i \in 1..Len(running[t].calls) :
          /\ \A j \in 1..Len(running[t].calls) :
                i < j => running[t].calls[i] < running[t].calls[j]
          /\ \A k \in 1..Len(called) :
                called[k].thread = t => called[k].id < running[t].calls[i]

\* The callbacks of the next frames come after all that were called.
LEMMA OrderStarted ==
    ASSUME QueueInv, CallsDistinct, Ordered, NEW t \in IoThreads, WriteHandler(t)
    PROVE  Ordered'
<1>1. called' = called
  BY WriteHandlerEffect DEF QueueInv
<1>2. CASE stopped
  BY <1>1, <1>2, WriteHandlerEffect DEF QueueInv, Ordered, CallbackOrder
<1>3. CASE ~stopped
  <2>1. PICK calls \in Seq(Nat), ok \in BOOLEAN :
            /\ running' = [running EXCEPT ![t] = Calling(calls, ok)]
            /\ \A i \in 1..Len(calls) : calls[i] = Base + i
    BY <1>3, NextAnswers
  <2>2. \A u \in IoThreads :
            running'[u].calls = IF u = t THEN calls ELSE running[u].calls
    <3>. DEFINE h == Calling(calls, ok)
    <3>1. running' = [running EXCEPT ![t] = h] /\ h.calls = calls
      BY <2>1 DEF Calling
    <3>. HIDE DEF h
    <3>2. \A u \in IoThreads : running'[u] = IF u = t THEN h ELSE running[u]
      BY <3>1, HandlersOfOthers DEF QueueInv
    <3>. QED
      BY <3>1, <3>2
  <2>3. Base \in Nat /\ Len(calls) \in Nat
    BY BaseFacts, LenProperties DEF QueueInv
  <2>4. \A i, j \in 1..Len(calls) : i < j => calls[i] < calls[j]
    BY <2>1, <2>3
  <2>5. ASSUME NEW k \in 1..Len(called), NEW i \in 1..Len(calls)
        PROVE  called[k].id < calls[i]
    <3>1. called[k].id \in Nat
      <4>1. called[k] \in Outcome
        BY <2>5, ElementOfSeq DEF QueueInv, TypeOK
      <4>. QED
        BY <4>1 DEF Outcome
    <3>2. called[k].id <= Base
      BY <2>5 DEF CallsDistinct
    <3>. QED
      BY <2>1, <2>3, <2>5, <3>1, <3>2
  <2>6. ASSUME NEW u \in IoThreads, NEW i \in 1..Len(running'[u].calls)
        PROVE  /\ \A j \in 1..Len(running'[u].calls) :
                     i < j => running'[u].calls[i] < running'[u].calls[j]
               /\ \A k \in 1..Len(called) :
                     called[k].thread = u => called[k].id < running'[u].calls[i]
    <3>1. CASE u = t
      BY <2>2, <2>4, <2>5, <2>6, <3>1
    <3>2. CASE u # t
      <4>1. running'[u].calls = running[u].calls
        BY <2>2, <3>2
      <4>. QED
        BY <2>6, <4>1 DEF Ordered
    <3>. QED
      BY <3>1, <3>2
  <2>. QED
    BY <1>1, <2>6 DEF Ordered, CallbackOrder
<1>. QED
  BY <1>2, <1>3

\* The first of the callbacks which wait is called.
LEMMA OrderCalled ==
    ASSUME QueueInv, Ordered, NEW t \in IoThreads, RunCallback(t)
    PROVE  Ordered'
<1>. DEFINE calls == running[t].calls
            n == Head(calls)
            e == Answer(t)
<1>1. calls \in Seq(Nat) /\ calls # << >> /\ running[t].ok \in BOOLEAN
  BY DEF RunCallback, QueueInv, TypeOK
<1>2. Len(calls) \in Nat \ {0} /\ n = calls[1] /\ n \in Nat
  BY <1>1, EmptySeq, HeadTailProperties
<1>3. ASSUME NEW i \in 1..Len(running'[t].calls)
      PROVE  i + 1 \in 1..Len(calls) /\ running'[t].calls[i] = calls[i + 1]
  <2>a. \A u \in IoThreads : running'[u] = IF u = t THEN AfterCallback(running[t]) ELSE running[u]
    BY HandlersOfOthers DEF QueueInv, RunCallback
  <2>1. running'[t] = AfterCallback(running[t])
    BY <2>a
  <2>2. CASE Len(calls) = 1
    <3>1. running'[t].calls = << >>
      BY <2>1, <2>2 DEF AfterCallback, Idle
    <3>. QED
      BY <1>3, <3>1
  <2>3. CASE Len(calls) # 1
    <3>1. running'[t].calls = Tail(calls)
      BY <2>1, <2>3 DEF AfterCallback, Calling
    <3>2. Len(Tail(calls)) = Len(calls) - 1
      BY <1>1, HeadTailProperties
    <3>3. \A j \in 1..Len(Tail(calls)) : Tail(calls)[j] = calls[j + 1]
      BY <1>1, HeadTailProperties
    <3>. QED
      BY <1>2, <1>3, <3>1, <3>2, <3>3
  <2>. QED
    BY <2>2, <2>3
<1>4. \A i, j \in 1..Len(calls) : i < j => calls[i] < calls[j]
  BY DEF Ordered
<1>5. \A k \in 1..Len(called), i \in 1..Len(calls) :
          called[k].thread = t => called[k].id < calls[i]
  BY DEF Ordered
<1>6. /\ called' = Append(called, e)
      /\ called \in Seq(Outcome)
      /\ e \in Outcome
      /\ e.id = n
      /\ e.thread = t
  BY <1>1, <1>2 DEF RunCallback, Answer, Outcome, QueueInv, TypeOK
<1>7. /\ Len(called) \in Nat
      /\ Len(called') = Len(called) + 1
      /\ called'[Len(called) + 1].id = n
      /\ called'[Len(called) + 1].thread = t
      /\ \A k \in 1..Len(called) : called'[k] = called[k]
  BY <1>6, AppendFacts, LenProperties
<1>8. DOMAIN called = 1..Len(called) /\ DOMAIN called' = 1..Len(called')
  BY <1>6, AppendFacts, LenProperties
<1>. HIDE DEF calls, n, e
<1>9. CallbackOrder'
  <2>1. ASSUME NEW k \in 1..Len(called'), NEW m \in 1..Len(called'), k < m,
               called'[k].thread = called'[m].thread
        PROVE  called'[k].id < called'[m].id
    <3>1. k \in 1..Len(called)
      BY <1>7, <2>1
    <3>2. CASE m \in 1..Len(called)
      BY <1>7, <1>8, <2>1, <3>1, <3>2 DEF Ordered, CallbackOrder
    <3>3. CASE m \notin 1..Len(called)
      <4>1. m = Len(called) + 1 /\ called'[m].id = n /\ called'[m].thread = t
        BY <1>7, <2>1, <3>3
      <4>2. called[k].id < n
        BY <1>2, <1>5, <1>7, <2>1, <3>1, <4>1
      <4>. QED
        BY <1>7, <3>1, <4>1, <4>2
    <3>. QED
      BY <3>2, <3>3
  <2>. QED
    BY <1>8, <2>1 DEF CallbackOrder
<1>10. ASSUME NEW i \in 1..Len(running'[t].calls)
       PROVE  /\ \A j \in 1..Len(running'[t].calls) :
                    i < j => running'[t].calls[i] < running'[t].calls[j]
              /\ \A k \in 1..Len(called') :
                    called'[k].thread = t => called'[k].id < running'[t].calls[i]
  <2>1. i + 1 \in 1..Len(calls) /\ running'[t].calls[i] = calls[i + 1] /\ 1 < i + 1
    BY <1>3, <1>10
  <2>2. ASSUME NEW j \in 1..Len(running'[t].calls), i < j
        PROVE  running'[t].calls[i] < running'[t].calls[j]
    <3>1. j + 1 \in 1..Len(calls) /\ running'[t].calls[j] = calls[j + 1] /\ i + 1 < j + 1
      BY <1>3, <2>2
    <3>. QED
      BY <1>4, <2>1, <3>1
  <2>3. ASSUME NEW k \in 1..Len(called'), called'[k].thread = t
        PROVE  called'[k].id < running'[t].calls[i]
    <3>1. CASE k \in 1..Len(called)
      BY <1>5, <1>7, <2>1, <2>3, <3>1
    <3>2. CASE k \notin 1..Len(called)
      <4>1. k = Len(called) + 1
        BY <1>7, <2>3, <3>2
      <4>2. n < calls[i + 1]
        BY <1>2, <1>4, <2>1
      <4>. QED
        BY <1>7, <2>1, <4>1, <4>2
    <3>. QED
      BY <3>1, <3>2
  <2>. QED
    BY <2>2, <2>3
<1>11. ASSUME NEW u \in IoThreads, u # t, NEW i \in 1..Len(running'[u].calls)
       PROVE  /\ \A j \in 1..Len(running'[u].calls) :
                    i < j => running'[u].calls[i] < running'[u].calls[j]
              /\ \A k \in 1..Len(called') :
                    called'[k].thread = u => called'[k].id < running'[u].calls[i]
  <2>1. running'[u] = running[u]
    BY <1>11, HandlersOfOthers DEF QueueInv, RunCallback
  <2>2. ASSUME NEW k \in 1..Len(called'), called'[k].thread = u
        PROVE  k \in 1..Len(called) /\ called'[k] = called[k]
    BY <1>7, <1>11, <2>2
  <2>. QED
    BY <1>11, <2>1, <2>2 DEF Ordered
<1>. QED
  BY <1>9, <1>10, <1>11 DEF Ordered

LEMMA OrderStep == QueueInv /\ CallsDistinct /\ Ordered /\ [Step]_vars => Ordered'
<1>. SUFFICES ASSUME QueueInv, CallsDistinct, Ordered, [Step]_vars
              PROVE  Ordered'
  OBVIOUS
<1>1. UNCHANGED << running, called >> => Ordered'
  BY DEF Ordered, CallbackOrder
<1>2. QuietStep \/ CloseStep \/ EnqueueStep => UNCHANGED << running, called >>
  BY QuietFacts, CloseFacts, EnqueueFacts
<1>3. SocketWrites \/ StopRunner \/ UNCHANGED vars \/ (\E t \in IoThreads : StartWrite(t))
         => UNCHANGED << running, called >>
  BY DEF SocketWrites, StopRunner, StartWrite, vars, historyVars
<1>. QED
  BY <1>1, <1>2, <1>3, OrderStarted, OrderCalled, StepCases

\* The whole invariant is inductive.
LEMMA InvStep == IInv /\ [Step]_vars => IInv'
  BY QueueStep, CallsStep DEF IInv

-----------------------------------------------------------------------------
(* Theorems                                                                *)

\* The specification of the program takes no other steps.
LEMMA SpecSteps == Spec => QueueSpec
  BY NextSteps, PTL DEF Spec, QueueSpec

\* The inductive invariant holds in every reachable state.
LEMMA Invariance == QueueSpec => []IInv
  BY InitInv, InvStep, PTL DEF QueueSpec

\* The variables of the queue and of its handlers keep their types.
THEOREM TypeCorrect == Spec => []TypeOK
<1>1. IInv => TypeOK
  BY DEF IInv, QueueInv
<1>. QED
  BY <1>1, Invariance, SpecSteps, PTL

\* Never more than one write is under way, it writes the front of the queue,
\* and the chain of writes never breaks off while frames are waiting.
THEOREM OneWriteAtATime == Spec => []OneWrite
<1>1. IInv => OneWrite
  BY PlacedMeansOneWrite DEF IInv, QueueInv
<1>. QED
  BY <1>1, Invariance, SpecSteps, PTL

\* Frames reach the peer in the order of the sends, without gaps.
THEOREM WireInOrder == Spec => []WireOrder
<1>1. IInv => WireOrder
  BY DEF IInv, QueueInv, WireCounted
<1>. QED
  BY <1>1, Invariance, SpecSteps, PTL

\* No callback is called once the scope has stopped.
LEMMA Silent == QueueSpec => NoCallbackAfterStop
<1>1. IInv /\ [Step]_vars => [stopped => UNCHANGED called]_vars
  <2>. SUFFICES ASSUME IInv, [Step]_vars, stopped PROVE called' = called
    OBVIOUS
  <2>1. ASSUME NEW t \in IoThreads, RunCallback(t) PROVE FALSE
    <3>1. running[t] = Idle
      BY DEF IInv, QueueInv, StoppedIdle, FreeThread
    <3>. QED
      BY <2>1, <3>1 DEF RunCallback, Idle
  <2>2. ASSUME NEW t \in IoThreads, WriteHandler(t) PROVE called' = called
    BY <2>2, WriteHandlerEffect DEF IInv, QueueInv
  <2>. QED
    BY <2>1, <2>2, StepCases, QuietFacts, CloseFacts, EnqueueFacts
    DEF StartWrite, SocketWrites, StopRunner, vars, historyVars
<1>. QED
  BY <1>1, Invariance, PTL DEF QueueSpec, NoCallbackAfterStop

\* On one io thread no callback overtakes another: the handlers of the writes
\* run one after the other, and each calls its callbacks to the end.
LEMMA ThreadsInOrder == QueueSpec => []CallbackOrder
<1>1. Init => Ordered
  BY Handlers DEF Init, Ordered, CallbackOrder
<1>2. IInv /\ Ordered /\ [Step]_vars => Ordered'
  BY OrderStep DEF IInv
<1>3. Ordered => CallbackOrder
  BY DEF Ordered
<1>. QED
  BY <1>1, <1>2, <1>3, Invariance, PTL DEF QueueSpec

\* CallbackOrder: the callbacks called by one io thread follow the order of the
\* sends, for every number of threads and callers.
THEOREM CallbacksOrdered == Spec => []CallbackOrder
  BY ThreadsInOrder, SpecSteps, PTL

\* NoCallbackAfterStop: a callback would use what the owner has destroyed.
THEOREM SilentAfterStop == Spec => NoCallbackAfterStop
  BY Silent, SpecSteps, PTL

\* A callback adds what it was told.
LEMMA ToldOneMore ==
    ASSUME TypeOK, NEW t \in IoThreads, RunCallback(t)
    PROVE  Told' = Append(Told, [id |-> Head(running[t].calls), ok |-> running[t].ok])
<1>. DEFINE T == [id : Nat, ok : BOOLEAN]
            e == Answer(t)
            f == [id |-> e.id, ok |-> e.ok]
<1>1. running[t].calls \in Seq(Nat) /\ running[t].calls # << >> /\ running[t].ok \in BOOLEAN
  BY DEF RunCallback, TypeOK
<1>2. Head(running[t].calls) \in Nat
  BY <1>1, HeadTailProperties
<1>0. called \in Seq(Outcome) /\ DOMAIN called = 1..Len(called) /\ Len(called) \in Nat
  BY LenProperties DEF TypeOK
<1>3. called \in Seq(Outcome) /\ e \in Outcome /\ f \in T /\ called' = Append(called, e)
  BY <1>2 DEF RunCallback, Answer, Outcome, TypeOK
<1>4. f = [id |-> Head(running[t].calls), ok |-> running[t].ok]
  BY DEF Answer
<1>. HIDE DEF e, f, T
<1>. SUFFICES Told' = Append(Told, f)
  BY <1>4
<1>5. /\ Told = [i \in 1..Len(called) |-> [id |-> called[i].id, ok |-> called[i].ok]]
      /\ Told \in Seq(T)
      /\ Len(Told) = Len(called)
  <2>1. Told = [i \in 1..Len(called) |-> [id |-> called[i].id, ok |-> called[i].ok]]
    BY <1>0 DEF Told
  <2>2. ASSUME NEW i \in 1..Len(called)
        PROVE  [id |-> called[i].id, ok |-> called[i].ok] \in T
    <3>1. called[i] \in Outcome
      BY <1>0, ElementOfSeq
    <3>. QED
      BY <3>1 DEF Outcome, T
  <2>. QED
    BY <1>0, <2>1, <2>2
<1>6. /\ Len(called') = Len(called) + 1
      /\ called'[Len(called) + 1] = e
      /\ \A i \in 1..Len(called) : called'[i] = called[i]
      /\ called' \in Seq(Outcome)
  BY <1>3, AppendFacts
<1>. QED
  BY <1>3, <1>5, <1>6 DEF Told, f

\* The queue implements the stream of OutStream: accepting, writing and
\* answering a frame, and the loss of the socket, are steps of it, and all
\* other steps of the code leave it as it is.
LEMMA StreamImplemented == QueueSpec => ImplementsStream
<1>1. Init => Stream!StreamInit
  <2>. SUFFICES ASSUME Init PROVE Stream!StreamInit
    OBVIOUS
  <2>1. nextId = 1 /\ Len(wire) = 0 /\ socketUp = TRUE /\ Told = << >>
    BY DEF Init, Told
  <2>. QED
    BY <2>1 DEF Stream!StreamInit
<1>2. IInv /\ [Step]_vars => [Stream!StreamNext]_(Stream!streamVars)
  <2>. SUFFICES ASSUME QueueInv, CallsTrue, CallsDistinct, [Step]_vars
                PROVE  [Stream!StreamNext]_(Stream!streamVars)
    BY DEF IInv
  <2>. USE DEF QueueInv
  <2>1. /\ Base \in Nat /\ Len(wire) \in Nat /\ Len(sendQueue) \in Nat
        /\ nextId \in Nat \ {0} /\ wire \in Seq(Frame)
    BY BaseFacts, LenProperties DEF TypeOK
  <2>2. Base + Len(sendQueue) = nextId - 1
    BY <2>1 DEF Base
  <2>3. ASSUME UNCHANGED << nextId, wire, socketUp, called >>
        PROVE  UNCHANGED Stream!streamVars
    BY <2>3 DEF Stream!streamVars, Told
  <2>4. ASSUME CloseStep PROVE Stream!Break
    BY <2>4, CloseFacts DEF CloseSocket, Stream!Break, Told
  <2>5. ASSUME EnqueueStep PROVE Stream!Accept
    <3>1. nextId' = nextId + 1
      BY <2>5, EnqueueFacts, EnqueueEffect
    <3>2. UNCHANGED << wire, socketUp, called >>
      BY <2>5, EnqueueFacts
    <3>. QED
      BY <2>1, <3>1, <3>2 DEF Stream!Accept, Told
  <2>6. ASSUME SocketWrites PROVE Stream!Transmit
    <3>1. InWriting /\ socketUp
      BY <2>6 DEF SocketWrites, Placed, InNoPlace, InPosted, InCompleted
    <3>2. Len(wire) = Base /\ sendQueue # << >>
      BY <3>1 DEF WireCounted, InWriting
    <3>3. Len(sendQueue) > 0
      BY <2>1, <3>2, FrontFrame
    <3>4. Len(wire) < nextId - 1
      BY <2>1, <2>2, <3>2, <3>3
    <3>5. Len(wire') = Len(wire) + 1
      <4>1. Head(writing) \in Frame
        BY <2>6, HeadTailProperties DEF SocketWrites, TypeOK
      <4>. QED
        BY <2>1, <2>6, <4>1, AppendFacts DEF SocketWrites
    <3>. QED
      BY <2>6, <3>1, <3>4, <3>5 DEF SocketWrites, Stream!Transmit, Told
  <2>7. ASSUME NEW t \in IoThreads, RunCallback(t)
        PROVE  \E n \in 1..nextId - 1, ok \in BOOLEAN : Stream!Answer(n, ok)
    <3>. DEFINE n == Head(running[t].calls)
                ok == running[t].ok
    <3>1. running[t].calls \in Seq(Nat) /\ running[t].calls # << >> /\ ok \in BOOLEAN
      BY <2>7 DEF RunCallback, TypeOK
    <3>2. 1 \in 1..Len(running[t].calls) /\ n = running[t].calls[1]
      BY <3>1, EmptySeq, HeadTailProperties
    <3>3. n \in 1..Base
      BY <3>2 DEF CallsTrue
    <3>4. /\ ok => n <= Len(wire)
          /\ ~ok => ~socketUp /\ n > Len(wire)
      BY <3>2 DEF CallsTrue
    <3>5. n \in 1..nextId - 1
      BY <2>1, <2>2, <3>3
    <3>6. ~Stream!Answered(n)
      <4>1. DOMAIN called = 1..Len(called)
        BY LenProperties DEF TypeOK
      <4>2. \A k \in 1..Len(called) : called[k].id # n
        BY <3>2 DEF CallsDistinct
      <4>. QED
        BY <4>1, <4>2 DEF Stream!Answered, Told
    <3>7. /\ Told' = Append(Told, [id |-> n, ok |-> ok])
          /\ UNCHANGED << nextId, wire, socketUp >>
      BY <2>7, <3>1, <3>2, ToldOneMore DEF RunCallback
    <3>8. Stream!Answer(n, ok)
      BY <3>4, <3>6, <3>7 DEF Stream!Answer
    <3>. QED
      BY <3>1, <3>5, <3>8
  <2>8. ASSUME NEW t \in IoThreads, WriteHandler(t)
        PROVE  UNCHANGED << nextId, wire, socketUp, called >>
    BY <2>8, WriteHandlerEffect
  <2>9. ASSUME QuietStep \/ StopRunner \/ UNCHANGED vars \/ \E t \in IoThreads : StartWrite(t)
        PROVE  UNCHANGED << nextId, wire, socketUp, called >>
    <3>1. CASE QuietStep
      BY <3>1, QuietFacts
    <3>2. CASE StopRunner \/ UNCHANGED vars
      BY <3>2 DEF StopRunner, vars, historyVars
    <3>3. CASE \E t \in IoThreads : StartWrite(t)
      BY <3>3 DEF StartWrite, historyVars
    <3>. QED
      BY <2>9, <3>1, <3>2, <3>3
  <2>. QED
    BY <2>3, <2>4, <2>5, <2>6, <2>7, <2>8, <2>9, StepCases DEF Stream!StreamNext
<1>. QED
  BY <1>1, <1>2, Invariance, PTL DEF QueueSpec, ImplementsStream, Stream!StreamSpec

\* ImplementsStream: each frame is answered at most once, and truly.
THEOREM Refinement == Spec => ImplementsStream
  BY StreamImplemented, SpecSteps, PTL
=============================================================================
