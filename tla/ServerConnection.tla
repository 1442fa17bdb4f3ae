-------------------------- MODULE ServerConnection --------------------------
(***************************************************************************)
(* One connection of the WebSocket server, from the accepted socket to its *)
(* last callback: the handshake, the read loop and the endings of          *)
(* src/ws-app/server_ws.hpp 538-827, composed with the connection's send   *)
(* queue and timer (SendQueue), with the callbacks of its endpoint, and    *)
(* with SocketServerBase::stop().                                          *)
(*                                                                         *)
(* The handlers of the read side form one chain: each asynchronous         *)
(* operation is started by the handler of the one before, so at most one   *)
(* of them is outstanding.  Its handlers run on the io threads, next to    *)
(* the write handlers, the timer handlers and other user threads.  A       *)
(* handler is one step up to its first access to endpoint.connections, its *)
(* first callback that may send, or its send_close(): those are steps of   *)
(* their own, between which the thread is "reading" and the handler acts   *)
(* on the queue as the caller Reader.                                      *)
(*                                                                         *)
(* The server never stops its ScopeRunner (there is no call of             *)
(* handler_runner->stop() in server_ws.hpp), so `stopped' stays FALSE and  *)
(* each continue_lock() returns a lock.                                    *)
(***************************************************************************)
EXTENDS Integers, Sequences

CONSTANTS
    Users,          \* User threads which hold the connection.
    Reader,         \* The read side, as a caller of send() and send_close().
    IoThreads,      \* Threads in io_service->run().
    IdleTimeout,    \* Whether timeout_idle is not 0.
    RequestTimeout, \* Whether timeout_request is not 0.
    InternalIo,     \* Whether start() created the io_service: stop() halts it.
    MaxMessage,     \* max_message_size
    SizeModulus,    \* 2^w, w the width of size_t.
    Lengths,        \* Lengths of the peer's frames.
    MaxFrames,      \* Bound: frames sent, those the protocol makes aside.
    MaxPeerFrames   \* Bound: frames, and empty reads, which the peer causes.

ASSUME ConnectionAssumption ==
    /\ Reader \notin Users
    /\ IdleTimeout \in BOOLEAN
    /\ RequestTimeout \in BOOLEAN
    /\ InternalIo \in BOOLEAN
    /\ SizeModulus \in Nat \ 0..7
    /\ MaxMessage \in 0..SizeModulus - 1
    /\ MaxFrames \in Nat
    /\ MaxPeerFrames \in Nat

\* RFC 6455, 5.2: the most significant bit of a length is 0.  Of lengths above
\* that the code computes 4 + length and the sums below modulo SizeModulus.
ASSUME LengthAssumption ==
    /\ Lengths \subseteq { n \in Nat \ {0} : 2 * n < SizeModulus }
    /\ 1 \in Lengths

VARIABLES
    \* The variables of SendQueue.
    sendQueue, closeSent, callerPc, posted, writing, completed, running,
    timer, expired, socketUp, stopped, nextId, wire, called,
    chain,          \* The outstanding operation of the read side, or the
                    \* handler that is running, or "ended".
    arrived,        \* How that operation has completed, if its handler has
                    \* not run yet: "none", "ok", "empty" or "error".
    frame,          \* The frame being read.
    fragment,       \* fragmented_in_message: its frames and its length, and
                    \* (history) the size of what its streambuf holds.
    inEndpoint,     \* Whether endpoint.connections has the connection.
    stopCalled,     \* Whether stop() has been called.
    received,       \* Frames and empty reads so far.
    partial,        \* History: frames of the message the peer has begun.
    messages,       \* History: messages the peer has begun to finish.
    delivered,      \* History: messages given to on_message.
    events          \* History: callbacks of the endpoint.

Q == INSTANCE SendQueue WITH Callers <- Users \union {Reader}, MaxExpired <- 1
In == INSTANCE InStream WITH offered <- messages, taken <- delivered, heard <- events

queueSide == << sendQueue, closeSent, callerPc, posted, writing, completed,
                nextId, wire, called >>
queueVars == << queueSide, running, timer, expired, socketUp, stopped >>
peerSide == << received, partial, messages >>
readSide == << chain, arrived, frame, fragment, inEndpoint, peerSide,
               delivered, events >>
vars == << queueVars, readSide, stopCalled >>

\* A frame of the peer.  A long one has its length in an extended field.  The
\* lengths stand for sizes around max_message_size, not for bytes.
DataTypes == {"text", "first", "cont", "last"}
ControlTypes == {"ping", "pong", "close"}
FrameTypes == DataTypes \union ControlTypes \union {"unmasked"}
PeerFrame == [no : Nat, type : FrameTypes, length : Lengths]
NoFrame == [no |-> 0, type |-> "pong", length |-> 1]
IsLong(f) == f.length > 1

NoFragment == [frames |-> << >>, length |-> 0, size |-> 0]

\* The thread runs a handler of the read side.
Reading == [kind |-> "reading", calls |-> << >>, ok |-> FALSE]

\* Handlers are started unless stop() has stopped the internal io_service.
IoRuns == ~(InternalIo /\ stopCalled)

\* The socket is connected; accept() or the caller of upgrade() holds it.
Init ==
    /\ Q!Init
    /\ chain = "accepted"
    /\ arrived = "none"
    /\ frame = NoFrame
    /\ fragment = NoFragment
    /\ inEndpoint = FALSE
    /\ stopCalled = FALSE
    /\ received = 0
    /\ partial = << >>
    /\ messages = << >>
    /\ delivered = << >>
    /\ events = << >>

Opened == \E i \in DOMAIN events : events[i] = "open"

\* The connection is in its endpoint or was, so that users may have it.
Entered == chain = "opening" \/ Opened

Terminal == {"close", "error", "message_size"}
Ended == \E i \in DOMAIN events : events[i] \in Terminal

-----------------------------------------------------------------------------
(* Parts of the handlers                                                   *)

\* The handler of the chain's operation starts on a free thread.
StartHandler(t, outcome) ==
    /\ IoRuns
    /\ Q!FreeThread(t)
    /\ arrived = outcome
    /\ arrived' = "none"

Callback(event) == events' = Append(events, event)

\* set_timeout(config.timeout_request)
SetRequestTimeout == timer' = IF RequestTimeout THEN "armed" ELSE "off"

\* The handler goes on in steps of its own, of which `next' is the first.
GoOn(t, next) ==
    /\ chain' = next
    /\ running' = [running EXCEPT ![t] = Reading]
    /\ Q!CancelTimeout

\* Bug: a read waits for the peer without a timeout.
BugReadMessage ==
    /\ chain' = "posted"
    /\ Q!CancelTimeout

\* read_message(), up to the lambda posted to the strand.
ReadMessage ==
    /\ chain' = "posted"
    /\ Q!SetTimeout

\* length + fragmented_in_message->length > max_message_size, of size_t.
TooBig == (frame.length + fragment.length) % SizeModulus > MaxMessage

ReadContent ==
    /\ chain' = "content"
    /\ Q!SetTimeout
    /\ UNCHANGED running

\* Bug: the limit applies to each fragment and not to the message.
BugReadMessageContent(t) ==
    IF frame.length > MaxMessage THEN GoOn(t, "refusing") ELSE ReadContent

\* read_message_content(): a message above the limit is an error for the
\* endpoint and ends the connection, without being read.
ReadMessageContent(t) ==
    IF TooBig THEN GoOn(t, "refusing") ELSE ReadContent

-----------------------------------------------------------------------------
(* The handshake                                                           *)

\* read_handshake(), called by the handler of accept().
ReadHandshake ==
    /\ chain = "accepted"
    /\ IoRuns
    /\ chain' = "request"
    /\ SetRequestTimeout
    /\ UNCHANGED << queueSide, running, expired, socketUp, stopped, arrived,
                    frame, fragment, inEndpoint, peerSide, delivered, events,
                    stopCalled >>

\* Bug: the response is written without a timeout.
BugWriteHandshake ==
    /\ chain' \in {"response", "refusal"}
    /\ Q!CancelTimeout

\* write_handshake(): the path has an endpoint.  Without a key, or when
\* on_handshake says so, the response is a refusal.
WriteHandshake ==
    /\ chain' \in {"response", "refusal"}
    /\ SetRequestTimeout

\* upgrade(): the request was read by someone else.  Without an endpoint for
\* the path nothing happens.
Upgrade ==
    /\ chain = "accepted"
    /\ WriteHandshake
    /\ UNCHANGED << queueSide, running, expired, socketUp, stopped, arrived,
                    frame, fragment, inEndpoint, peerSide, delivered, events,
                    stopCalled >>

\* The handler of async_read_until: on an error, a malformed request, or a
\* path without endpoint, the connection is dropped without a callback.
OnRequest(t) ==
    /\ chain = "request"
    /\ \/ StartHandler(t, "ok") /\ WriteHandshake
       \/ /\ StartHandler(t, "ok") \/ StartHandler(t, "error")
          /\ chain' = "ended"
          /\ Q!CancelTimeout
    /\ UNCHANGED << queueSide, running, expired, socketUp, stopped, frame,
                    fragment, inEndpoint, peerSide, delivered, events, stopCalled >>

\* The handler of the response's async_write, up to connection_open() or
\* connection_error().
OnResponse(t) ==
    /\ \/ /\ chain = "refusal"
          /\ StartHandler(t, "ok") \/ StartHandler(t, "error")
          /\ chain' = "ended"
          /\ Q!CancelTimeout
          /\ UNCHANGED running
       \/ /\ chain = "response"
          /\ \/ StartHandler(t, "ok") /\ GoOn(t, "entering")
             \/ StartHandler(t, "error") /\ GoOn(t, "failing")
    /\ UNCHANGED << queueSide, expired, socketUp, stopped, frame, fragment,
                    inEndpoint, peerSide, delivered, events, stopCalled >>

-----------------------------------------------------------------------------
(* The read loop                                                           *)

\* The lambda posted by read_message() starts reading a header.
StartRead(t) ==
    /\ IoRuns
    /\ Q!FreeThread(t)
    /\ chain = "posted"
    /\ chain' = "header"
    /\ UNCHANGED << queueVars, arrived, frame, fragment, inEndpoint, peerSide,
                    delivered, events, stopCalled >>

\* The handler of a header's two bytes.
OnHeader(t) ==
    /\ chain = "header"
    /\ \/ StartHandler(t, "error") /\ GoOn(t, "failing")
       \/ StartHandler(t, "empty") /\ ReadMessage /\ UNCHANGED running
       \/ /\ StartHandler(t, "ok")
          /\ frame.type = "unmasked"
          /\ GoOn(t, "closing")
       \/ /\ StartHandler(t, "ok")
          /\ frame.type # "unmasked"
          /\ IsLong(frame)
          /\ Q!SetTimeout
          /\ chain' = "length"
          /\ UNCHANGED running
       \/ /\ StartHandler(t, "ok")
          /\ frame.type # "unmasked"
          /\ ~IsLong(frame)
          /\ ReadMessageContent(t)
    /\ UNCHANGED << queueSide, expired, socketUp, stopped, frame, fragment,
                    inEndpoint, peerSide, delivered, events, stopCalled >>

\* The handler of an extended length of two or eight bytes.
OnLength(t) ==
    /\ chain = "length"
    /\ \/ StartHandler(t, "error") /\ GoOn(t, "failing")
       \/ StartHandler(t, "ok") /\ ReadMessageContent(t)
    /\ UNCHANGED << queueSide, expired, socketUp, stopped, frame, fragment,
                    inEndpoint, peerSide, delivered, events, stopCalled >>

\* Bug: the length of the fragments read before is lost.
BugJoined == [frames |-> Append(fragment.frames, frame.no),
              length |-> frame.length,
              size   |-> fragment.size + frame.length]

\* The fragment to which the current frame was added.
Joined == [frames |-> Append(fragment.frames, frame.no),
           length |-> (fragment.length + frame.length) % SizeModulus,
           size   |-> fragment.size + frame.length]

\* A close frame: send_close() follows, then connection_close().
OnCloseFrame(t) ==
    /\ frame.type = "close"
    /\ GoOn(t, "closing")
    /\ UNCHANGED << sendQueue, nextId, posted, fragment, delivered, events >>

\* Bug: a control frame between two fragments resets fragmented_in_message.
BugOnPing ==
    /\ frame.type = "ping"
    /\ Q!Put("data")
    /\ Callback("ping")
    /\ ReadMessage
    /\ fragment' = NoFragment
    /\ UNCHANGED << running, delivered >>

\* A ping is answered with a pong before the callback.
OnPing ==
    /\ frame.type = "ping"
    /\ Q!Put("data")
    /\ Callback("ping")
    /\ ReadMessage
    /\ UNCHANGED << running, fragment, delivered >>

OnPong ==
    /\ frame.type = "pong"
    /\ Callback("pong")
    /\ ReadMessage
    /\ UNCHANGED << sendQueue, nextId, posted, running, fragment, delivered >>

\* A fragment that is not the last one.
OnFragment ==
    /\ frame.type \in {"first", "cont"}
    /\ fragment' = Joined
    /\ ReadMessage
    /\ UNCHANGED << sendQueue, nextId, posted, running, delivered, events >>

\* A whole message: on_message runs from here to ReturnFromCallback.  The last
\* frame of a fragmented one joins fragmented_in_message.
OnMessage(t) ==
    /\ frame.type \in {"text", "last"}
    /\ GoOn(t, "callback")
    /\ fragment' = IF frame.type = "last" THEN Joined ELSE fragment
    /\ delivered' = Append(delivered,
          IF frame.type = "last" THEN fragment'.frames ELSE << frame.no >>)
    /\ Callback("message")
    /\ UNCHANGED << sendQueue, nextId, posted >>

\* The handler of the mask and the payload.
OnContent(t) ==
    /\ chain = "content"
    /\ \/ /\ StartHandler(t, "error")
          /\ GoOn(t, "failing")
          /\ UNCHANGED << sendQueue, nextId, posted, fragment, delivered, events >>
       \/ /\ StartHandler(t, "ok")
          /\ OnCloseFrame(t) \/ OnPing \/ OnPong \/ OnFragment \/ OnMessage(t)
    /\ UNCHANGED << closeSent, callerPc, writing, completed, expired, socketUp,
                    stopped, wire, called, frame, inEndpoint, peerSide, stopCalled >>

\* on_open or on_message returns: the fragment is given up (on_open finds none)
\* and the next message is read.
ReturnFromCallback(t) ==
    /\ chain = "callback"
    /\ running[t] = Reading
    /\ callerPc[Reader] = "idle"
    /\ running' = [running EXCEPT ![t] = Q!Idle]
    /\ fragment' = NoFragment
    /\ ReadMessage
    /\ UNCHANGED << queueSide, expired, socketUp, stopped, arrived, frame,
                    inEndpoint, peerSide, delivered, events, stopCalled >>

-----------------------------------------------------------------------------
(* send() and send_close() on the read side                                *)

\* on_open or on_message sends a message or begins to close.
CallbackSends ==
    /\ chain = "callback"
    /\ nextId <= MaxFrames
    /\ Q!CallSend(Reader) \/ Q!TestCloseSent(Reader)
    /\ UNCHANGED << readSide, stopCalled >>

\* send_close() of an ending: nothing to do when close_sent is set.
CloseAlreadySent ==
    /\ chain = "closing"
    /\ callerPc[Reader] = "idle"
    /\ closeSent
    /\ chain' = "closed"
    /\ UNCHANGED << queueVars, arrived, frame, fragment, inEndpoint, peerSide,
                    delivered, events, stopCalled >>

EndingTestsClose ==
    /\ chain = "closing"
    /\ Q!TestCloseSent(Reader)
    /\ UNCHANGED << readSide, stopCalled >>

ReaderSetsClose ==
    /\ Q!SetCloseSent(Reader)
    /\ UNCHANGED << readSide, stopCalled >>

ReaderSendsClose ==
    /\ Q!SendClose(Reader)
    /\ chain' = IF chain = "closing" THEN "closed" ELSE chain
    /\ UNCHANGED << arrived, frame, fragment, inEndpoint, peerSide, delivered,
                    events, stopCalled >>

-----------------------------------------------------------------------------
(* connection_open(), connection_error() and connection_close(): what they *)
(* do to endpoint.connections, under connections_mutex, and what they call *)
(* when they have unlocked it                                              *)

\* connection_open() enters the connection into its endpoint.
ConnectionOpen(t) ==
    /\ running[t] = Reading
    /\ chain = "entering"
    /\ chain' = "opening"
    /\ inEndpoint' = TRUE
    /\ UNCHANGED << queueVars, arrived, frame, fragment, peerSide, delivered,
                    events, stopCalled >>

\* on_open, which runs from here to ReturnFromCallback.
OnOpen(t) ==
    /\ running[t] = Reading
    /\ chain = "opening"
    /\ chain' = "callback"
    /\ Callback("open")
    /\ UNCHANGED << queueVars, arrived, frame, fragment, inEndpoint, peerSide,
                    delivered, stopCalled >>

\* Bug: the connection stays in its endpoint.
BugConnectionErased(t) ==
    /\ running[t] = Reading
    /\ \/ chain = "failing" /\ chain' = "failed"
       \/ chain = "refusing" /\ chain' = "refused"
       \/ chain = "closed" /\ chain' = "leaving"
    /\ UNCHANGED << queueVars, arrived, frame, fragment, inEndpoint, peerSide,
                    delivered, events, stopCalled >>

\* connection_error() and connection_close() take it out.
ConnectionErased(t) ==
    /\ running[t] = Reading
    /\ \/ chain = "failing" /\ chain' = "failed"
       \/ chain = "refusing" /\ chain' = "refused"
       \/ chain = "closed" /\ chain' = "leaving"
    /\ inEndpoint' = FALSE
    /\ UNCHANGED << queueVars, arrived, frame, fragment, peerSide, delivered,
                    events, stopCalled >>

\* on_error, after which the handler returns, and nothing is read any more; or
\* it goes on with send_close() when a message was too big.
OnError(t) ==
    /\ running[t] = Reading
    /\ \/ /\ chain = "failed"
          /\ Callback("error")
          /\ chain' = "ended"
          /\ running' = [running EXCEPT ![t] = Q!Idle]
       \/ /\ chain = "refused"
          /\ Callback("message_size")
          /\ chain' = "closing"
          /\ UNCHANGED running
    /\ UNCHANGED << queueSide, timer, expired, socketUp, stopped, arrived, frame,
                    fragment, inEndpoint, peerSide, delivered, stopCalled >>

\* Bug: the connection goes on reading after its close frame.
BugOnClose(t) ==
    /\ running[t] = Reading
    /\ chain = "leaving"
    /\ Callback("close")
    /\ ReadMessage
    /\ running' = [running EXCEPT ![t] = Q!Idle]
    /\ UNCHANGED << queueSide, expired, socketUp, stopped, arrived, frame,
                    fragment, inEndpoint, peerSide, delivered, stopCalled >>

\* on_close, after which the handler returns, and nothing is read any more.
OnClose(t) ==
    /\ running[t] = Reading
    /\ chain = "leaving"
    /\ Callback("close")
    /\ chain' = "ended"
    /\ running' = [running EXCEPT ![t] = Q!Idle]
    /\ UNCHANGED << queueSide, timer, expired, socketUp, stopped, arrived, frame,
                    fragment, inEndpoint, peerSide, delivered, stopCalled >>

-----------------------------------------------------------------------------
(* User threads, the write side, stop()                                    *)

\* A thread that got the connection from get_connections() or in on_open sends
\* or closes.
UserNext(u) ==
    /\ Entered
    /\ Q!CallerNext(u)
    /\ UNCHANGED << readSide, stopCalled >>

UserCloses ==
    /\ Entered
    /\ Users # {}
    /\ Q!CallClose
    /\ UNCHANGED << readSide, stopCalled >>

WriteSide(t) ==
    /\ \/ IoRuns /\ (Q!StartWrite(t) \/ Q!WriteHandler(t) \/ Q!TimerHandler(t))
       \/ Q!RunCallback(t)
    /\ UNCHANGED << readSide, stopCalled >>

\* stop(): closes the connections in the endpoints, and halts the io_service
\* if it is the server's own.
Stop ==
    /\ ~stopCalled
    /\ stopCalled' = TRUE
    /\ inEndpoint' = FALSE
    /\ IF inEndpoint THEN Q!CloseSocket ELSE UNCHANGED << socketUp, writing, completed >>
    /\ UNCHANGED << sendQueue, closeSent, callerPc, posted, running, timer,
                    expired, stopped, nextId, wire, called, chain, arrived, frame,
                    fragment, peerSide, delivered, events >>

-----------------------------------------------------------------------------
(* The environment: asio and a peer that follows the protocol, except that *)
(* it may forget to mask a frame                                           *)

\* The operations which wait for the peer to send, or to read the response.
Reads == {"request", "header", "length", "content"}
Responses == {"response", "refusal"}

NextFrames ==
    [no : {received + 1}, type : DataTypes, length : Lengths]
        \union [no : {received + 1}, type : ControlTypes \union {"unmasked"}, length : {1}]

Legal(f) ==
    /\ f.type \in {"text", "first"} => partial = << >>
    /\ f.type \in {"cont", "last"} => partial # << >>

\* The header of the next frame arrives; also after shutdown(), when it was
\* in the socket's buffer.
HeaderArrives ==
    /\ chain = "header"
    /\ arrived = "none"
    /\ received < MaxPeerFrames
    /\ \E f \in NextFrames :
          /\ Legal(f)
          /\ frame' = f
          /\ partial' = CASE f.type \in {"first", "cont"} -> Append(partial, f.no)
                          [] f.type = "last" -> << >>
                          [] OTHER -> partial
          /\ messages' = IF f.type \in {"text", "last"}
                           THEN Append(messages, Append(partial, f.no))
                           ELSE messages
    /\ received' = received + 1
    /\ arrived' = "ok"
    /\ UNCHANGED << queueVars, chain, fragment, inEndpoint, delivered, events, stopCalled >>

\* A read that transfers nothing and reports no error (server_ws.hpp 625).
EmptyRead ==
    /\ chain = "header"
    /\ arrived = "none"
    /\ received < MaxPeerFrames
    /\ received' = received + 1
    /\ arrived' = "empty"
    /\ UNCHANGED << queueVars, chain, frame, fragment, inEndpoint, partial, messages,
                    delivered, events, stopCalled >>

\* The rest of what is read arrives, or the response has been written.
Arrives ==
    /\ arrived = "none"
    /\ chain \in {"request", "length", "content"} \/ (chain \in Responses /\ socketUp)
    /\ arrived' = "ok"
    /\ UNCHANGED << queueVars, chain, frame, fragment, inEndpoint, peerSide,
                    delivered, events, stopCalled >>

\* The operation fails: the peer is gone, or close() has cancelled it.
Fails ==
    /\ arrived = "none"
    /\ chain \in Reads \union Responses
    /\ arrived' = "error"
    /\ UNCHANGED << queueVars, chain, frame, fragment, inEndpoint, peerSide,
                    delivered, events, stopCalled >>

SocketNext ==
    /\ Q!SocketWrites \/ Q!SocketFails \/ Q!TimerExpires
    /\ UNCHANGED << readSide, stopCalled >>

-----------------------------------------------------------------------------
ReadHandlers(t) ==
    \/ OnRequest(t)
    \/ OnResponse(t)
    \/ StartRead(t)
    \/ OnHeader(t)
    \/ OnLength(t)
    \/ OnContent(t)

\* What a handler of the read side does in steps of its own.
ReaderGoesOn(t) ==
    \/ ReturnFromCallback(t)
    \/ ConnectionOpen(t)
    \/ OnOpen(t)
    \/ ConnectionErased(t)
    \/ OnError(t)
    \/ OnClose(t)

ReaderCloses ==
    \/ CloseAlreadySent
    \/ EndingTestsClose
    \/ ReaderSetsClose
    \/ ReaderSendsClose

Next ==
    \/ ReadHandshake
    \/ Upgrade
    \/ \E t \in IoThreads :
          \/ ReadHandlers(t)
          \/ ReaderGoesOn(t)
          \/ WriteSide(t)
    \/ CallbackSends
    \/ ReaderCloses
    \/ \E u \in Users : UserNext(u)
    \/ UserCloses
    \/ Stop
    \/ HeaderArrives
    \/ EmptyRead
    \/ Arrives
    \/ Fails
    \/ SocketNext

Spec == Init /\ [][Next]_vars

\* Io threads run what is queued, user code returns from callbacks, timers
\* expire, and operations on a socket that was shut down fail.  Nothing
\* obliges the peer to send or to read.
Fairness ==
    /\ WF_vars(ReadHandshake)
    /\ \A t \in IoThreads :
          /\ WF_vars(ReadHandlers(t))
          /\ WF_vars(ReaderGoesOn(t))
          /\ WF_vars(WriteSide(t))
    /\ WF_vars(ReaderCloses)
    /\ \A u \in Users :
          WF_vars((Q!SetCloseSent(u) \/ Q!SendClose(u)) /\ UNCHANGED << readSide, stopCalled >>)
    /\ WF_vars(Q!TimerExpires /\ UNCHANGED << readSide, stopCalled >>)
    /\ WF_vars(~socketUp /\ Fails)
    /\ WF_vars(~socketUp /\ Q!SocketFails /\ UNCHANGED << readSide, stopCalled >>)

FairSpec == Spec /\ Fairness

-----------------------------------------------------------------------------
\* The steps of a handler which runs on.
OnThread == {"entering", "opening", "callback", "failing", "failed", "refusing",
             "refused", "closing", "closed", "leaving"}

Chains == Reads \union Responses \union OnThread \union {"accepted", "posted", "ended"}

\* Types of the variables; a thread is in a handler of the read side exactly
\* while the chain is in a step which runs on a thread; and the length of
\* fragmented_in_message is that of all its frames, unless it may wrap.
TypeOK ==
    /\ chain \in Chains
    /\ arrived \in {"none", "ok", "empty", "error"}
    /\ frame \in PeerFrame
    /\ fragment.frames \in Seq(Nat)
    /\ fragment.length \in 0..SizeModulus - 1
    /\ 2 * MaxMessage < SizeModulus => fragment.length = fragment.size
    /\ inEndpoint \in BOOLEAN
    /\ stopCalled \in BOOLEAN
    /\ received \in 0..MaxPeerFrames
    /\ timer \in {"off", "armed"}
    /\ \A t, v \in IoThreads : running[t] = Reading /\ running[v] = Reading => t = v
    /\ chain \in OnThread <=> \E t \in IoThreads : running[t] = Reading
    /\ callerPc[Reader] # "idle" => chain \in {"callback", "closing"}

\* The callbacks of an endpoint come in an order a user can rely on: on_open
\* first and once, unless the response could not be written and on_error is
\* the only one; nothing after on_close; nothing after on_error, except the
\* on_close which follows when a message was too big.
EventsWellFormed ==
    \A i \in DOMAIN events :
        /\ events[i] = "open" => i = 1
        /\ i > 1 => events[1] = "open"
        /\ events[i] \in {"close", "error"} => i = Len(events)
        /\ events[i] = "message_size" =>
              i = Len(events) \/ (i = Len(events) - 1 /\ events[i + 1] = "close")

\* connection_error() or connection_close() has taken the connection out.
Left == Ended \/ chain \in {"failed", "refused", "leaving"}

\* get_connections() and stop() see a connection from the moment connection_open()
\* has entered it until an ending takes it out, before the callback of either:
\* an ended connection is never left in the endpoint, where nothing would remove
\* it; and one that goes on is in it, also if it came there after stop() had
\* emptied it, or stop() has closed its socket.
Membership ==
    /\ inEndpoint => Entered /\ ~Left
    /\ Entered /\ ~Left => inEndpoint \/ (stopCalled /\ ~socketUp)

\* on_message receives the messages the peer sent, in order, each of all its
\* fragments, whatever control frames come between them; and when the next
\* header is awaited none has been left out.
MessageIntegrity ==
    /\ Len(delivered) <= Len(messages)
    /\ \A i \in DOMAIN delivered : delivered[i] = messages[i]
    /\ chain = "header" /\ arrived = "none" => delivered = messages

\* To the handlers of its endpoint a connection is an InStream: what they are
\* called with, and when, in any interleaving with sends, endings and stop().
ImplementsInStream == In!InSpec

\* max_message_size bounds what is kept for one message over all fragments, if
\* it is below half of what size_t can hold: then the code's sums do not wrap.
FragmentBounded == 2 * MaxMessage < SizeModulus => fragment.size <= MaxMessage

\* While the connection waits for its peer, a timer is running or its handler is
\* about to close the socket, although writes, sends of other threads and reads
\* take the one timer from each other; so that also a write to a peer which does
\* not read comes to an end, for as long as the connection reads.
ReadsTimed ==
    /\ socketUp /\ RequestTimeout /\ chain \in {"request"} \union Responses =>
          timer = "armed" \/ expired > 0
    /\ socketUp /\ IdleTimeout /\ chain \in {"posted", "header", "length", "content"} =>
          timer = "armed" \/ expired > 0

\* The read side, pongs included, keeps to the discipline of the send queue:
\* one async_write at a time, of the frame at the front.
WritesOneAtATime == Q!OneWrite

\* A handshake ends: the peer is given timeout_request for each half of it.
HandshakeEnds ==
    RequestTimeout =>
        (chain \in {"request", "response", "refusal"} ~>
            chain \notin {"request", "response", "refusal"} \/ ~IoRuns)

\* With timeout_idle, an opened connection gets its on_close or on_error even
\* when the peer is silent for ever.
OpenedEnds == IdleTimeout => (Opened ~> Ended \/ ~IoRuns)
=============================================================================
