------------------------------ MODULE SendQueue ------------------------------
(***************************************************************************)
(* The outgoing half of a connection: send(), send_close(), close(),       *)
(* send_from_queue() and the timer of SocketServerBase::Connection in      *)
(* src/ws-app/server_ws.hpp 117-271, with the socket below it.  The queue  *)
(* of SocketClientBase::Connection (client_ws.hpp 151-273) is the same     *)
(* code.  Of the incoming half there is only what it does to the timer,    *)
(* which both halves share.                                                *)
(*                                                                         *)
(* A frame goes through four places: send_queue; the lambda posted to the  *)
(* strand, which holds its buffers; the async_write on the socket; and the *)
(* completion handler of that write, queued in the io_service.  It leaves  *)
(* send_queue only when the completion handler runs.                       *)
(*                                                                         *)
(* Each step is a critical section of send_queue_mutex, an access to       *)
(* close_sent, or a handler up to its next such access.  timer_mutex       *)
(* protects single assignments only: what set_timeout() does is part of    *)
(* the step that calls it.                                                 *)
(***************************************************************************)
EXTENDS Integers, Sequences

CONSTANTS
    Callers,        \* Threads of control which call send() or send_close().
    IoThreads,      \* Threads in io_service->run().
    IdleTimeout,    \* Whether timeout_idle is not 0.
    MaxFrames,      \* Bound: no call starts once this many were accepted.
    MaxExpired      \* Bound: handlers of the timer queued at a time.

ASSUME SendAssumption ==
    /\ IdleTimeout \in BOOLEAN
    /\ MaxFrames \in Nat
    /\ MaxExpired \in Nat

VARIABLES
    sendQueue,      \* send_queue: frames, oldest first.
    closeSent,      \* close_sent
    callerPc,       \* Per caller, where it is in send_close().
    posted,         \* Lambdas posted to the strand, each the frame it writes.
    writing,        \* Frames of the async_writes which have not completed.
    completed,      \* Completion handlers not yet run: frame and success.
    running,        \* Per io thread, the callbacks its handler has to call.
    timer,          \* "armed" or "off": the connection's steady_timer.
    expired,        \* Timer handlers queued with no error.
    socketUp,       \* FALSE once the socket was shut down or has failed.
    stopped,        \* TRUE once handler_runner->stop() took effect.
    nextId,         \* The number of the next frame, counting from 1.
    wire,           \* History: frames handed to the peer.
    called          \* History: callbacks called: frame number, thread, success.

queueVars == << sendQueue, posted, writing, completed >>
timerVars == << timer, expired >>
historyVars == << nextId, wire, called >>
vars == << sendQueue, closeSent, callerPc, posted, writing, completed,
           running, timer, expired, socketUp, stopped, nextId, wire, called >>

\* A frame is its number and its opcode: 136 closes, the others carry data
\* or a pong.
Opcode == {"data", "close"}

Idle == [kind |-> "idle", calls |-> << >>, ok |-> FALSE]

\* A write handler after its critical section: it holds a shared lock of the
\* ScopeRunner and calls the callbacks of these frames.
Calling(calls, ok) == [kind |-> "calling", calls |-> calls, ok |-> ok]

FreeThread(t) == running[t] = Idle

Init ==
    /\ sendQueue = << >>
    /\ closeSent = FALSE
    /\ callerPc = [c \in Callers |-> "idle"]
    /\ posted = << >>
    /\ writing = << >>
    /\ completed = << >>
    /\ running = [t \in IoThreads |-> Idle]
    /\ timer = "off"
    /\ expired = 0
    /\ socketUp = TRUE
    /\ stopped = FALSE
    /\ nextId = 1
    /\ wire = << >>
    /\ called = << >>

-----------------------------------------------------------------------------
(* Parts of the handlers                                                   *)

\* set_timeout(): the new timer replaces the old one, whose handler is then
\* called with an error unless it has expired already.
SetTimeout == timer' = IF IdleTimeout THEN "armed" ELSE "off"

\* cancel_timeout()
CancelTimeout == timer' = "off"

\* The writes of the frames w complete with an error.
Failed(w) == [i \in DOMAIN w |-> [frame |-> w[i], ok |-> FALSE]]

\* close(): a pending async_write completes with an error.
CloseSocket ==
    /\ socketUp' = FALSE
    /\ writing' = << >>
    /\ completed' = completed \o Failed(writing)

\* Bug: each frame starts a write, also while another one is being written.
BugEagerPut(opcode) ==
    LET q == Append(sendQueue, [id |-> nextId, opcode |-> opcode])
    IN  /\ nextId' = nextId + 1
        /\ sendQueue' = q
        /\ posted' = Append(posted, q[1])

\* send(): the frame joins the queue, and a queue which was empty posts the
\* write of it.
Put(opcode) ==
    LET q == Append(sendQueue, [id |-> nextId, opcode |-> opcode])
    IN  /\ nextId' = nextId + 1
        /\ sendQueue' = q
        /\ posted' = IF Len(q) = 1 THEN Append(posted, q[1]) ELSE posted

\* The whole critical section of send().
Enqueue(opcode) ==
    /\ Put(opcode)
    /\ IF sendQueue = << >> THEN SetTimeout ELSE UNCHANGED timer

-----------------------------------------------------------------------------
(* The callers' side                                                       *)

\* send() of a message.
CallSend(c) ==
    /\ callerPc[c] = "idle"
    /\ Enqueue("data")
    /\ UNCHANGED << closeSent, callerPc, writing, completed, running, expired,
                    socketUp, stopped, wire, called >>

\* send_close(): if(close_sent) return; and the call does nothing.
TestCloseSent(c) ==
    /\ callerPc[c] = "idle"
    /\ ~closeSent
    /\ callerPc' = [callerPc EXCEPT ![c] = "setting"]
    /\ UNCHANGED << closeSent, queueVars, running, timerVars, socketUp,
                    stopped, historyVars >>

\* close_sent = true;
SetCloseSent(c) ==
    /\ callerPc[c] = "setting"
    /\ closeSent' = TRUE
    /\ callerPc' = [callerPc EXCEPT ![c] = "sending"]
    /\ UNCHANGED << queueVars, running, timerVars, socketUp, stopped,
                    historyVars >>

\* send(std::move(send_stream), std::move(callback), 136);
SendClose(c) ==
    /\ callerPc[c] = "sending"
    /\ Enqueue("close")
    /\ callerPc' = [callerPc EXCEPT ![c] = "idle"]
    /\ UNCHANGED << closeSent, writing, completed, running, expired, socketUp,
                    stopped, wire, called >>

\* close(), called by the user or by stop().
CallClose ==
    /\ socketUp
    /\ CloseSocket
    /\ UNCHANGED << sendQueue, closeSent, callerPc, posted, running, timerVars,
                    stopped, historyVars >>

-----------------------------------------------------------------------------
(* The io threads' side                                                    *)

\* The numbers of the frames of q.
Ids(q) == [i \in DOMAIN q |-> q[i].id]

\* Bug: a handler does not ask for the scope.
BugNoScope == FALSE

\* continue_lock() returns nullptr.
ScopeRefuses == stopped

\* The lambda posted by send_from_queue() starts the write.
StartWrite(t) ==
    /\ FreeThread(t)
    /\ posted # << >>
    /\ posted' = Tail(posted)
    /\ writing' = IF ScopeRefuses THEN writing ELSE Append(writing, Head(posted))
    /\ UNCHANGED << sendQueue, closeSent, callerPc, completed, running,
                    timerVars, socketUp, stopped, historyVars >>

\* A write's handler up to the end of its critical section: set_timeout(),
\* then the scope, then send_queue_mutex.  It leaves the queue q, has the
\* callbacks of the frames `calls' to call, and posts the write of `next'.
EndWrite(t, q, calls, next) ==
    /\ FreeThread(t)
    /\ completed' = Tail(completed)
    /\ SetTimeout
    /\ IF ScopeRefuses
         THEN UNCHANGED << sendQueue, posted, running >>
         ELSE /\ sendQueue' = q
              /\ running' = [running EXCEPT ![t] = Calling(calls, Head(completed).ok)]
              /\ posted' = posted \o next
    /\ UNCHANGED << closeSent, callerPc, writing, expired, socketUp, stopped,
                    historyVars >>

WriteEnded(ok) == completed # << >> /\ Head(completed).ok = ok

Front(q) == IF q = << >> THEN << >> ELSE << Head(q) >>

\* Bug: the next write is posted before the frame is erased.
BugPostsBeforeErase(t) ==
    \/ /\ WriteEnded(TRUE)
       /\ EndWrite(t, Tail(sendQueue), Front(Ids(sendQueue)), Front(sendQueue))
    \/ /\ WriteEnded(FALSE)
       /\ EndWrite(t, << >>, Ids(sendQueue), << >>)

\* Bug: the callback of the frame that failed is called before those of the
\* whole queue, to which the frame still belongs.
BugAnswersTwice(t) ==
    \/ /\ WriteEnded(TRUE)
       /\ EndWrite(t, Tail(sendQueue), Front(Ids(sendQueue)), Front(Tail(sendQueue)))
    \/ /\ WriteEnded(FALSE)
       /\ EndWrite(t, << >>, Front(Ids(sendQueue)) \o Ids(sendQueue), << >>)

\* Bug: a failed write takes only its own frame out of the queue.
BugKeepsQueue(t) ==
    \/ /\ WriteEnded(TRUE)
       /\ EndWrite(t, Tail(sendQueue), Front(Ids(sendQueue)), Front(Tail(sendQueue)))
    \/ /\ WriteEnded(FALSE)
       /\ EndWrite(t, Tail(sendQueue), Front(Ids(sendQueue)), << >>)

\* Bug: the callbacks of the dropped frames are collected at the front.
BugReversed(t) ==
    \/ /\ WriteEnded(TRUE)
       /\ EndWrite(t, Tail(sendQueue), Front(Ids(sendQueue)), Front(Tail(sendQueue)))
    \/ /\ WriteEnded(FALSE)
       /\ EndWrite(t, << >>,
                    [i \in DOMAIN sendQueue |-> sendQueue[Len(sendQueue) + 1 - i].id],
                    << >>)

\* On success the front leaves the queue and the write of the next frame is
\* posted; on an error the whole queue is dropped.
WriteHandler(t) ==
    \/ /\ WriteEnded(TRUE)
       /\ EndWrite(t, Tail(sendQueue), Front(Ids(sendQueue)), Front(Tail(sendQueue)))
    \/ /\ WriteEnded(FALSE)
       /\ EndWrite(t, << >>, Ids(sendQueue), << >>)

\* What is left to do of the handler h: the other callbacks, or to return,
\* which releases its shared lock.
AfterCallback(h) ==
    IF Len(h.calls) = 1 THEN Idle ELSE Calling(Tail(h.calls), h.ok)

\* The next callback of the handler on thread t.
Answer(t) == [id |-> Head(running[t].calls), thread |-> t, ok |-> running[t].ok]

\* Bug: the handler keeps its shared lock after the last callback.
BugRunCallback(t) ==
    /\ running[t].calls # << >>
    /\ called' = Append(called, Answer(t))
    /\ running' = [running EXCEPT ![t].calls = Tail(@)]
    /\ UNCHANGED << closeSent, callerPc, queueVars, timerVars, socketUp,
                    stopped, nextId, wire >>

\* The handler calls the next callback, outside the mutex.
RunCallback(t) ==
    /\ running[t].calls # << >>
    /\ called' = Append(called, Answer(t))
    /\ running' = [running EXCEPT ![t] = AfterCallback(running[t])]
    /\ UNCHANGED << closeSent, callerPc, queueVars, timerVars, socketUp,
                    stopped, nextId, wire >>

\* The timer's handler, when it was not cancelled in time: close().
TimerHandler(t) ==
    /\ FreeThread(t)
    /\ expired > 0
    /\ expired' = expired - 1
    /\ CloseSocket
    /\ UNCHANGED << sendQueue, closeSent, callerPc, posted, running, timer,
                    stopped, historyVars >>

\* A handler of the read side: it cancels the timer when its read has ended,
\* also one that covers a pending write, and arms it if it reads on.
ReadSideUsesTimer ==
    /\ CancelTimeout \/ SetTimeout
    /\ UNCHANGED << closeSent, callerPc, queueVars, running, expired, socketUp,
                    stopped, historyVars >>

-----------------------------------------------------------------------------
(* The environment: asio, the peer, and the owner of the ScopeRunner       *)

\* The frame has been written.
SocketWrites ==
    /\ writing # << >>
    /\ socketUp
    /\ wire' = Append(wire, Head(writing))
    /\ writing' = Tail(writing)
    /\ completed' = Append(completed, [frame |-> Head(writing), ok |-> TRUE])
    /\ UNCHANGED << sendQueue, closeSent, callerPc, posted, running, timerVars,
                    socketUp, stopped, nextId, called >>

\* The write fails: the peer is gone or the socket was shut down.
SocketFails ==
    /\ writing # << >>
    /\ CloseSocket
    /\ UNCHANGED << sendQueue, closeSent, callerPc, posted, running, timerVars,
                    stopped, historyVars >>

TimerExpires ==
    /\ timer = "armed"
    /\ timer' = "off"
    /\ expired' = expired + 1
    /\ UNCHANGED << closeSent, callerPc, queueVars, running, socketUp, stopped,
                    historyVars >>

\* ScopeRunner::stop() waits until no handler holds a lock (ScopeGate!Close).
StopRunner ==
    /\ ~stopped
    /\ \A t \in IoThreads : FreeThread(t)
    /\ stopped' = TRUE
    /\ UNCHANGED << closeSent, callerPc, queueVars, running, timerVars,
                    socketUp, historyVars >>

-----------------------------------------------------------------------------
CallerNext(c) ==
    \/ nextId <= MaxFrames /\ (CallSend(c) \/ TestCloseSent(c))
    \/ SetCloseSent(c)
    \/ SendClose(c)

IoNext(t) ==
    \/ StartWrite(t)
    \/ WriteHandler(t)
    \/ RunCallback(t)
    \/ TimerHandler(t)

Next ==
    \/ \E c \in Callers : CallerNext(c)
    \/ \E t \in IoThreads : IoNext(t)
    \/ ReadSideUsesTimer
    \/ CallClose
    \/ SocketWrites
    \/ SocketFails
    \/ expired < MaxExpired /\ TimerExpires
    \/ StopRunner

Spec == Init /\ [][Next]_vars

\* The threads inside io_service->run() take what is queued in its order, so
\* that no handler waits for ever; a send_close() that was entered goes on; a
\* timer that stays armed expires; a write fails on a socket that was shut
\* down.  Nothing obliges the peer to read.
Fairness ==
    /\ \A c \in Callers : WF_vars(SetCloseSent(c) \/ SendClose(c))
    /\ WF_vars(\E t \in IoThreads : StartWrite(t))
    /\ WF_vars(\E t \in IoThreads : WriteHandler(t))
    /\ WF_vars(\E t \in IoThreads : TimerHandler(t))
    /\ \A t \in IoThreads : WF_vars(RunCallback(t))
    /\ WF_vars(expired < MaxExpired /\ TimerExpires)
    /\ WF_vars(~socketUp /\ SocketFails)

FairSpec == Spec /\ Fairness

-----------------------------------------------------------------------------
Frame == [id : Nat \ {0}, opcode : Opcode]
Outcome == [id : Nat, thread : IoThreads, ok : BOOLEAN]

\* Types of the variables; a handler which holds a lock of the ScopeRunner has
\* callbacks to call; without timeout_idle no timer is ever armed.
TypeOK ==
    /\ sendQueue \in Seq(Frame)
    /\ closeSent \in BOOLEAN
    /\ callerPc \in [Callers -> {"idle", "setting", "sending"}]
    /\ posted \in Seq(Frame)
    /\ writing \in Seq(Frame)
    /\ completed \in Seq([frame : Frame, ok : BOOLEAN])
    /\ running \in [IoThreads -> [kind : {"idle", "calling"},
                                  calls : Seq(Nat), ok : BOOLEAN]]
    /\ \A t \in IoThreads : running[t].kind = "calling" => running[t].calls # << >>
    /\ timer \in {"off", "armed"}
    /\ ~IdleTimeout => timer = "off"
    /\ expired \in Nat
    /\ socketUp \in BOOLEAN
    /\ stopped \in BOOLEAN
    /\ nextId \in Nat \ {0}
    /\ wire \in Seq(Frame)
    /\ called \in Seq(Outcome)

\* How many frames are between send_from_queue() and their write's handler.
InFlight == Len(posted) + Len(writing) + Len(completed)

IsFront(f) == sendQueue # << >> /\ f = sendQueue[1]

\* At most one frame is anywhere between send_from_queue() and its write's
\* handler, and it is the front of the queue, whose buffers stay alive; and
\* as long as the scope runs, a queue that is not empty is being written.
\* The handler erases begin() without looking which write has completed
\* (server_ws.hpp 180), so this is what makes it erase the right frame.
OneWrite ==
    /\ InFlight <= 1
    /\ \A i \in DOMAIN posted : IsFront(posted[i])
    /\ \A i \in DOMAIN writing : IsFront(writing[i])
    /\ \A i \in DOMAIN completed : IsFront(completed[i].frame)
    /\ ~stopped /\ sendQueue # << >> => InFlight = 1

\* Frames reach the peer in the order in which send() took the mutex, each
\* once, with none left out, over all callers and all io threads.
WireOrder == \A i \in DOMAIN wire : wire[i].id = i

\* Once stop() of the ScopeRunner has taken effect no callback of send() is
\* called, also not by a handler which was running at that time.
NoCallbackAfterStop == [][stopped => UNCHANGED called]_vars

\* server_ws.hpp 250: "Send close only once".  Two close frames on the wire
\* contradict it.
CloseOnce ==
    \A i, j \in DOMAIN wire :
        wire[i].opcode = "close" /\ wire[j].opcode = "close" => i = j

\* The callbacks which one io thread calls come in the order of the sends, also
\* when a failed write drops a queue that several callers have filled.  Callbacks
\* on different threads may overtake each other.
CallbackOrder ==
    \A i, j \in DOMAIN called :
        i < j /\ called[i].thread = called[j].thread => called[i].id < called[j].id

AnsweredIds == { called[i].id : i \in DOMAIN called }

\* A pending write has a timer running, or one whose handler is about to close
\* the socket.  The code sets one for each write (server_ws.hpp 166 and 172)
\* and the read side may cancel it.
Timed == writing # << >> => timer = "armed" \/ expired > 0

\* Each frame accepted by send() is answered, or the scope is stopped, as long
\* as writes come to an end: because the peer reads, because the socket is
\* shut down, or because the read side leaves the timers of the writes alone.
\* Otherwise a peer that reads nothing keeps the queue waiting.
EveryFrameAnswered ==
    []<>(writing = << >>) \/ <>[]Timed =>
        \A n \in 1..MaxFrames : nextId > n ~> n \in AnsweredIds \/ stopped

\* What the callbacks were told, whichever thread has called them.
Told == [i \in DOMAIN called |-> [id |-> called[i].id, ok |-> called[i].ok]]

\* The queue implements the stream of its abstract specification.
Stream == INSTANCE OutStream
              WITH accepted <- nextId - 1,
                   sent     <- Len(wire),
                   broken   <- ~socketUp,
                   answers  <- Told

ImplementsStream == Stream!StreamSpec
=============================================================================
