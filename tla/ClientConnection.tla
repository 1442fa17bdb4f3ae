-------------------------- MODULE ClientConnection --------------------------
(***************************************************************************)
(* The WebSocket client of src/ws-app/client_ws.hpp and client_wss.hpp:    *)
(* start(), stop() and the destructor, the phases of the connection up to  *)
(* on_open, the read loop, and the endings, composed with the connection's *)
(* send queue (SendQueue) and with the header of a frame (FrameCodec).     *)
(*                                                                         *)
(* Three things differ from the server's side (ServerConnection).  The     *)
(* connection has to be made, over a proxy and TLS in client_wss.hpp.  The *)
(* response to the upgrade may come with the first bytes of the frames     *)
(* behind it: they are already in the streambuf, and num_additional_bytes  *)
(* counts them.  And an idle connection is closed with a close frame       *)
(* first.  The destructor stops the ScopeRunner, so handlers here can find *)
(* their scope gone.                                                       *)
(*                                                                         *)
(* As in ServerConnection, one chain of handlers reads, each a step; in    *)
(* on_open, on_message and send_close() its thread is "reading".           *)
(***************************************************************************)
EXTENDS FrameCodec

CONSTANTS
    Reader,         \* The read side, as a caller of send() and send_close().
    IoThreads,      \* Threads in io_service->run().
    IdleTimeout,    \* Whether timeout_idle is not 0.
    RequestTimeout, \* Whether timeout_request is not 0.
    InternalIo,     \* Whether start() creates the io_service and runs it.
    Routes,         \* "plain": client_ws; "tls" and "proxy": client_wss.
    MaxMessage,     \* max_message_size
    SizeModulus,    \* 2^w, w the width of size_t.
    Lengths,        \* Payload lengths of data frames.
    Leftovers,      \* Numbers of bytes that may come with the response.
    MaxFrames,      \* Bound: frames sent, those the protocol makes aside.
    MaxPeerFrames   \* Bound: frames, and empty reads, which the peer causes.

ASSUME ClientAssumption ==
    /\ Reader \notin IoThreads
    /\ IdleTimeout \in BOOLEAN
    /\ RequestTimeout \in BOOLEAN
    /\ InternalIo \in BOOLEAN
    /\ Routes \subseteq {"plain", "tls", "proxy"}
    /\ SizeModulus \in Nat \ {0}
    /\ MaxMessage \in 0..SizeModulus - 1
    /\ Lengths \subseteq { n \in Nat : n < SizeModulus /\ Fits(n) }
    /\ Leftovers \subseteq Nat
    /\ MaxFrames \in Nat
    /\ MaxPeerFrames \in Nat

VARIABLES
    \* The variables of SendQueue; `timer' and `expired' are the idle timer.
    sendQueue, closeSent, callerPc, posted, writing, completed, running,
    timer, expired, socketUp, stopped, nextId, wire, called,
    client,         \* "new", "started", or "stopped" after stop().
    requestTimer,   \* "armed" or "off": the timer of set_timeout(timeout_request).
    requestExpired, \* Whether a handler of it is queued with no error.
    chain,          \* The outstanding operation of the read side, or the
                    \* handler that is running, or "ended".
    arrived,        \* How that operation has completed, if its handler has
                    \* not run yet: "none", "ok", "empty" or "error".
    frame,          \* The frame being read, as the server sent it.
    length,         \* in_message->length
    buffer,         \* Bytes in the streambuf of in_message.
    additional,     \* num_additional_bytes
    fragment,       \* fragmented_in_message: its frames and its length.
    received,       \* Frames and empty reads so far.
    partial,        \* History: frames of the message the server has begun.
    messages,       \* History: messages the server has begun to finish.
    delivered,      \* History: messages given to on_message.
    events          \* History: callbacks of the client.

\* The handler of the idle timer calls send_close() on its io thread.
Q == INSTANCE SendQueue WITH Callers <- {Reader} \union IoThreads, MaxExpired <- 1
In == INSTANCE InStream WITH offered <- messages, taken <- delivered, heard <- events

queueSide == << sendQueue, closeSent, callerPc, posted, writing, completed,
                nextId, wire, called >>
idleTimer == << timer, expired >>
requestSide == << requestTimer, requestExpired >>
inMessage == << frame, length, buffer, additional >>
peerSide == << received, partial, messages >>
history == << delivered, events >>
readSide == << chain, arrived, inMessage, fragment, peerSide, history >>
vars == << queueSide, idleTimer, running, socketUp, stopped, requestSide,
           client, readSide >>

\* A frame of the server: control frames are empty.
Opcodes == [text |-> 129, first |-> 1, cont |-> 0, last |-> 128,
            ping |-> 137, pong |-> 138, close |-> 136, masked |-> 129]
DataTypes == {"text", "first", "cont", "last"}
ControlTypes == {"ping", "pong", "close", "masked"}
NoFrame == [no |-> 0, type |-> "pong", length |-> 0]

\* The header of a frame; a server that masks errs.
HeaderOf(f) ==
    Header(IF f.type = "masked" THEN "client" ELSE "server", Opcodes[f.type], f.length)

NoFragment == [frames |-> << >>, length |-> 0]

\* The thread runs a handler of the read side, or the one of the idle timer.
Reading == [kind |-> "reading", calls |-> << >>, ok |-> FALSE]
Timing == [kind |-> "timing", calls |-> << >>, ok |-> FALSE]

\* Handlers run after start(), until stop() halts an internal io_service.
IoRuns == client # "new" /\ ~(InternalIo /\ client = "stopped")

Init ==
    /\ Q!Init
    /\ client = "new"
    /\ requestTimer = "off"
    /\ requestExpired = 0
    /\ chain = "none"
    /\ arrived = "none"
    /\ frame = NoFrame
    /\ length = 0
    /\ buffer = 0
    /\ additional = 0
    /\ fragment = NoFragment
    /\ received = 0
    /\ partial = << >>
    /\ messages = << >>
    /\ delivered = << >>
    /\ events = << >>

Opened == \E i \in DOMAIN events : events[i] = "open"
Ended == \E i \in DOMAIN events : events[i] \in {"close", "error", "message_size"}

\* The operations of the chain, in order.
Connecting == {"resolving", "connecting", "proxy_request", "proxy_response",
               "tls", "upgrading", "response"}
Reads == {"header", "length", "content"}

\* The socket has a peer.  Before that shutdown() fails, and cancel() stops at
\* most the attempt at one address, after which async_connect() tries the next.
Connected ==
    /\ chain \notin {"none", "resolving"}
    /\ chain = "connecting" => arrived = "ok"

-----------------------------------------------------------------------------
(* Parts of the handlers                                                   *)

\* set_timeout(timeout_request): 0, the default, sets no timer.
SetRequestTimeout ==
    /\ requestTimer' = IF RequestTimeout THEN "armed" ELSE "off"
    /\ timer' = "off"

\* cancel_timeout()
CancelTimeout ==
    /\ requestTimer' = "off"
    /\ timer' = "off"

\* set_timeout(): the one timer is replaced.
SetTimeout ==
    /\ requestTimer' = "off"
    /\ Q!SetTimeout

\* close()
Close == IF Connected THEN Q!CloseSocket ELSE UNCHANGED << socketUp, writing, completed >>

Callback(event) == events' = Append(events, event)

\* Bug: the handlers of the read side do not ask for their scope.
BugScope == TRUE

\* continue_lock() returns a lock.
Scope == ~stopped

\* The handler of the chain's operation runs in its scope on a free thread.
StartHandler(t, outcome) ==
    /\ IoRuns
    /\ Q!FreeThread(t)
    /\ Scope
    /\ arrived = outcome
    /\ arrived' = "none"

\* Each handler: cancel_timeout(), continue_lock(), and return without a lock.
NoScope(t) ==
    /\ IoRuns
    /\ Q!FreeThread(t)
    /\ ~Scope
    /\ \/ arrived # "none" /\ CancelTimeout
       \/ chain = "posted" /\ UNCHANGED << timer, requestTimer >>
    /\ arrived' = "none"
    /\ chain' = "ended"
    /\ UNCHANGED << queueSide, running, expired, socketUp, stopped, requestExpired,
                    client, inMessage, fragment, peerSide, history >>

\* Bug: the timer of the phase that failed is left running.
BugConnectionError ==
    /\ Callback("error")
    /\ chain' = "ended"
    /\ UNCHANGED << timer, requestTimer >>

\* connection_error()
ConnectionError ==
    /\ Callback("error")
    /\ chain' = "ended"
    /\ CancelTimeout

-----------------------------------------------------------------------------
(* start(), stop() and the destructor                                      *)

\* start(), up to io_service->run(): connect() begins to resolve the host.
Start ==
    /\ client = "new"
    /\ ~stopped
    /\ client' = "started"
    /\ chain' = "resolving"
    /\ SetRequestTimeout
    /\ UNCHANGED << queueSide, running, expired, socketUp, stopped, requestExpired,
                    arrived, inMessage, fragment, peerSide, history >>

\* stop(), called by the user or by the destructor: closes the connection, and
\* halts the io_service if it is internal.
Stop ==
    /\ client # "new"
    /\ client' = "stopped"
    /\ Close
    /\ UNCHANGED << sendQueue, closeSent, callerPc, posted, running, idleTimer, stopped,
                    nextId, wire, called, requestSide, readSide >>

\* The destructor: handler_runner->stop(), which waits for the handlers that
\* hold a lock, and then Stop.
Destroy ==
    /\ ~stopped
    /\ \A t \in IoThreads : running[t] \in {Q!Idle, Timing}
    /\ stopped' = TRUE
    /\ UNCHANGED << queueSide, running, idleTimer, socketUp, requestSide, client,
                    readSide >>

-----------------------------------------------------------------------------
(* The phases of a connection.  Each has timeout_request.                  *)

unchangedByPhase == << queueSide, expired, socketUp, stopped, requestExpired, client,
                       fragment, peerSide, delivered >>

Proceed(t, phase, next) ==
    /\ chain = phase
    /\ StartHandler(t, "ok")
    /\ chain' = next
    /\ SetRequestTimeout
    /\ UNCHANGED << running, inMessage, events, unchangedByPhase >>

\* The operation has failed, or its result is not accepted.
Refuse(t, phase, outcomes) ==
    /\ chain = phase
    /\ \E o \in outcomes : StartHandler(t, o)
    /\ ConnectionError
    /\ UNCHANGED << running, inMessage, unchangedByPhase >>

OnResolved(t) ==
    \/ Proceed(t, "resolving", "connecting")
    \/ Refuse(t, "resolving", {"error"})

\* The client has one of the routes for good; only here it makes a difference.
OnConnected(t) ==
    \/ "plain" \in Routes /\ Proceed(t, "connecting", "upgrading")
    \/ "tls"   \in Routes /\ Proceed(t, "connecting", "tls")
    \/ "proxy" \in Routes /\ Proceed(t, "connecting", "proxy_request")
    \/ Refuse(t, "connecting", {"error"})

OnProxyRequest(t) ==
    \/ Proceed(t, "proxy_request", "proxy_response")
    \/ Refuse(t, "proxy_request", {"error"})

\* The proxy may answer with another status than 200, or not parse.
OnProxyResponse(t) ==
    \/ Proceed(t, "proxy_response", "tls")
    \/ Refuse(t, "proxy_response", {"ok", "error"})

\* handshake()
OnTls(t) ==
    \/ Proceed(t, "tls", "upgrading")
    \/ Refuse(t, "tls", {"error"})

\* upgrade(), which every route reaches: the request has been written.
OnUpgrade(t) ==
    \/ Proceed(t, "upgrading", "response")
    \/ Refuse(t, "upgrading", {"error"})

\* The response.  The parser leaves the bytes behind it in the streambuf.  A
\* status other than 101 or a wrong Sec-WebSocket-Accept is an error.
OnResponse(t) ==
    \/ /\ chain = "response"
       /\ StartHandler(t, "ok")
       /\ \E n \in Leftovers : buffer' = n /\ additional' = n
       /\ Callback("open")
       /\ chain' = "callback"
       /\ running' = [running EXCEPT ![t] = Reading]
       /\ CancelTimeout
       /\ UNCHANGED << frame, length, unchangedByPhase >>
    \/ Refuse(t, "response", {"ok", "error"})

Phases(t) ==
    \/ OnResolved(t)
    \/ OnConnected(t)
    \/ OnProxyRequest(t)
    \/ OnProxyResponse(t)
    \/ OnTls(t)
    \/ OnUpgrade(t)
    \/ OnResponse(t)

-----------------------------------------------------------------------------
(* The read loop                                                           *)

\* What transfer_exactly() asks for, of `size' bytes.
Missing(size) == IF additional > size THEN 0 ELSE size - additional

\* Bug: the bytes of the length are taken for bytes of the payload.
BugRest(size) == additional

\* num_additional_bytes after those `size' bytes.
Rest(size) == IF additional > size THEN additional - size ELSE 0

\* What the outstanding read needs in the streambuf.
Needed ==
    CASE chain = "header"  -> 2
      [] chain = "length"  -> ExtensionSize(CodeOf(HeaderOf(frame)[2]))
      [] chain = "content" -> length

\* The bytes needed have arrived and leave the streambuf.
Consume ==
    /\ buffer' = buffer + Missing(Needed) - Needed
    /\ additional' = Rest(Needed)

\* Bug: a header is awaited without a timeout.
BugReadMessage ==
    /\ chain' = "posted"
    /\ CancelTimeout

\* read_message(), up to the lambda posted to the strand.
ReadMessage ==
    /\ chain' = "posted"
    /\ SetTimeout

\* connection_error(message_size), and send_close() begins.
RefuseSize(t) ==
    /\ Callback("message_size")
    /\ chain' = "closing"
    /\ running' = [running EXCEPT ![t] = Reading]
    /\ CancelTimeout

\* length + fragmented_in_message->length > max_message_size, of size_t.
TooBig(n) == (n + fragment.length) % SizeModulus > MaxMessage

\* read_message_content() of a payload of n bytes.
ReadMessageContent(t, n) ==
    \/ TooBig(n) /\ RefuseSize(t)
    \/ /\ ~TooBig(n)
       /\ chain' = "content"
       /\ SetTimeout
       /\ UNCHANGED << events, running >>

unchangedByRead == << queueSide, expired, socketUp, stopped, requestExpired, client,
                      frame, peerSide >>

ReadFails(t) ==
    /\ chain \in Reads
    /\ StartHandler(t, "error")
    /\ ConnectionError
    /\ UNCHANGED << running, length, buffer, additional, fragment, delivered,
                    unchangedByRead >>

\* The lambda posted by read_message() starts reading a header.
StartRead(t) ==
    /\ chain = "posted"
    /\ IoRuns /\ Q!FreeThread(t) /\ Scope
    /\ chain' = "header"
    /\ UNCHANGED << queueSide, running, idleTimer, socketUp, stopped, requestSide,
                    client, arrived, inMessage, fragment, peerSide, history >>

\* Nothing was read and nothing is buffered.
OnEmptyRead(t) ==
    /\ chain = "header"
    /\ StartHandler(t, "empty")
    /\ additional' = 0
    /\ ReadMessage
    /\ UNCHANGED << running, length, buffer, fragment, history, unchangedByRead >>

\* The two bytes of a header: a masked frame begins an ending, a length code
\* of 126 or 127 has the length read, any other is the length.
OnHeader(t) ==
    LET second == HeaderOf(frame)[2]
        code == CodeOf(second)
    IN  /\ chain = "header"
        /\ StartHandler(t, "ok")
        /\ Consume
        /\ \/ /\ IsMasked(second)
              /\ chain' = "closing"
              /\ running' = [running EXCEPT ![t] = Reading]
              /\ CancelTimeout
              /\ UNCHANGED << length, events >>
           \/ /\ ~IsMasked(second) /\ code \in {126, 127}
              /\ chain' = "length"
              /\ SetTimeout
              /\ UNCHANGED << length, running, events >>
           \/ /\ ~IsMasked(second) /\ code \notin {126, 127}
              /\ length' = code
              /\ ReadMessageContent(t, code)
        /\ UNCHANGED << fragment, delivered, unchangedByRead >>

\* The two or eight bytes of the length.
OnLength(t) ==
    /\ chain = "length"
    /\ StartHandler(t, "ok")
    /\ Consume
    /\ length' = ReadLength(HeaderOf(frame))
    /\ ReadMessageContent(t, length')
    /\ UNCHANGED << fragment, delivered, unchangedByRead >>

\* Bug: a frame takes the place of the fragments before it.
BugJoined == [frames |-> << frame.no >>, length |-> fragment.length + length]

\* The fragment to which the current frame was added.
Joined == [frames |-> Append(fragment.frames, frame.no),
           length |-> (fragment.length + length) % SizeModulus]

Op == Opcodes[frame.type]

\* A close frame is answered with send_close(), then connection_close().
OnCloseFrame(t) ==
    /\ Op % 16 = 8
    /\ chain' = "closing"
    /\ running' = [running EXCEPT ![t] = Reading]
    /\ CancelTimeout
    /\ UNCHANGED << sendQueue, posted, nextId, fragment, history >>

\* A ping is answered with a pong before the callback.
OnPing ==
    /\ Op % 16 = 9
    /\ Q!Put("data")
    /\ Callback("ping")
    /\ ReadMessage
    /\ UNCHANGED << running, fragment, delivered >>

OnPong ==
    /\ Op % 16 = 10
    /\ Callback("pong")
    /\ ReadMessage
    /\ UNCHANGED << sendQueue, posted, nextId, running, fragment, delivered >>

\* A frame of data without the fin bit.
OnFragment ==
    /\ Op % 16 \notin 8..10
    /\ Op < 128
    /\ fragment' = Joined
    /\ ReadMessage
    /\ UNCHANGED << sendQueue, posted, nextId, running, history >>

\* The last frame of data: on_message runs from here to ReturnFromCallback.
OnMessage(t) ==
    /\ Op % 16 \notin 8..10
    /\ Op >= 128
    /\ fragment' = IF fragment = NoFragment THEN NoFragment ELSE Joined
    /\ delivered' = Append(delivered,
          IF fragment = NoFragment THEN << frame.no >> ELSE Joined.frames)
    /\ Callback("message")
    /\ chain' = "callback"
    /\ running' = [running EXCEPT ![t] = Reading]
    /\ CancelTimeout
    /\ UNCHANGED << sendQueue, posted, nextId >>

\* The handler of the payload.  Bytes behind it stay for the next message.
OnContent(t) ==
    /\ chain = "content"
    /\ StartHandler(t, "ok")
    /\ Consume
    /\ OnCloseFrame(t) \/ OnPing \/ OnPong \/ OnFragment \/ OnMessage(t)
    /\ UNCHANGED << closeSent, callerPc, writing, completed, wire, called, expired,
                    socketUp, stopped, requestExpired, client, frame, length,
                    peerSide >>

\* on_open or on_message returns, and the next message is read.
ReturnFromCallback(t) ==
    /\ chain = "callback"
    /\ running[t] = Reading
    /\ callerPc[Reader] = "idle"
    /\ running' = [running EXCEPT ![t] = Q!Idle]
    /\ fragment' = NoFragment
    /\ ReadMessage
    /\ UNCHANGED << queueSide, expired, socketUp, stopped, requestExpired, client,
                    arrived, inMessage, peerSide, history >>

\* Bug: the ending reports nothing when a callback has sent a close frame.
BugConnectionClose(t) ==
    /\ chain = "closed"
    /\ running[t] = Reading
    /\ events' = IF closeSent THEN Append(events, "close") ELSE events
    /\ ReadMessage
    /\ running' = [running EXCEPT ![t] = Q!Idle]
    /\ UNCHANGED << queueSide, expired, socketUp, stopped, requestExpired, client,
                    arrived, inMessage, fragment, peerSide, delivered >>

\* connection_close(), after which the handler returns and nothing is read.
ConnectionClose(t) ==
    /\ chain = "closed"
    /\ running[t] = Reading
    /\ Callback("close")
    /\ chain' = "ended"
    /\ running' = [running EXCEPT ![t] = Q!Idle]
    /\ UNCHANGED << queueSide, idleTimer, socketUp, stopped, requestSide, client,
                    arrived, inMessage, fragment, peerSide, delivered >>

ReadLoop(t) ==
    \/ ReadFails(t)
    \/ StartRead(t)
    \/ OnEmptyRead(t)
    \/ OnHeader(t)
    \/ OnLength(t)
    \/ OnContent(t)

Returns(t) == ReturnFromCallback(t) \/ ConnectionClose(t)

-----------------------------------------------------------------------------
(* send(), send_close() and close(); the timers                            *)

\* on_open or on_message sends a message, begins to close, or closes; an ending
\* begins to close.
ReaderCalls ==
    /\ \/ chain = "callback" /\ nextId <= MaxFrames /\ (Q!CallSend(Reader) \/ Q!TestCloseSent(Reader))
       \/ chain = "callback" /\ Q!CallClose
       \/ chain = "closing" /\ Q!TestCloseSent(Reader)
    /\ UNCHANGED << requestSide, client, readSide >>

\* send_close() of an ending: nothing to do when close_sent is set.
CloseAlreadySent ==
    /\ chain = "closing"
    /\ callerPc[Reader] = "idle"
    /\ closeSent
    /\ chain' = "closed"
    /\ UNCHANGED << queueSide, running, idleTimer, socketUp, stopped, requestSide,
                    client, arrived, inMessage, fragment, peerSide, history >>

ReaderSetsClose ==
    /\ Q!SetCloseSent(Reader)
    /\ UNCHANGED << requestSide, client, readSide >>

ReaderSendsClose ==
    /\ Q!SendClose(Reader)
    /\ chain' = IF chain = "closing" THEN "closed" ELSE chain
    /\ UNCHANGED << requestSide, client, arrived, inMessage, fragment, peerSide, history >>

WriteSide(t) ==
    /\ \/ IoRuns /\ (Q!StartWrite(t) \/ Q!WriteHandler(t))
       \/ Q!RunCallback(t)
    /\ UNCHANGED << requestSide, client, readSide >>

\* The handler of a timer of set_timeout(timeout_request), when it was not
\* cancelled in time.
OnRequestTimeout(t) ==
    /\ IoRuns
    /\ Q!FreeThread(t)
    /\ requestExpired > 0
    /\ requestExpired' = requestExpired - 1
    /\ Close
    /\ UNCHANGED << sendQueue, closeSent, callerPc, posted, running, idleTimer, stopped,
                    nextId, wire, called, requestTimer, client, readSide >>

\* The handler of an idle timer: close() if close_sent, else send_close().
OnIdleTimeout(t) ==
    /\ IoRuns
    /\ Q!FreeThread(t)
    /\ expired > 0
    /\ expired' = expired - 1
    /\ \/ closeSent /\ Close /\ UNCHANGED running
       \/ /\ ~closeSent
          /\ running' = [running EXCEPT ![t] = Timing]
          /\ UNCHANGED << socketUp, writing, completed >>
    /\ UNCHANGED << sendQueue, closeSent, callerPc, posted, timer, stopped, nextId, wire,
                    called, requestSide, client, readSide >>

\* send_close() of that handler, up to its return.
TimerCloses(t) ==
    /\ running[t] = Timing
    /\ \/ Q!TestCloseSent(t) \/ Q!SetCloseSent(t) \/ Q!SendClose(t)
       \/ /\ callerPc[t] = "idle"
          /\ closeSent
          /\ running' = [running EXCEPT ![t] = Q!Idle]
          /\ UNCHANGED << queueSide, idleTimer, socketUp, stopped >>
    /\ UNCHANGED << requestSide, client, readSide >>

-----------------------------------------------------------------------------
(* The environment: asio, the network, and a server that follows the       *)
(* protocol, except that it may mask a frame or answer with a refusal      *)

NextFrames ==
    [no : {received + 1}, type : DataTypes, length : Lengths]
        \union [no : {received + 1}, type : ControlTypes, length : {0}]

Legal(f) ==
    /\ f.type \in {"text", "first"} => partial = << >>
    /\ f.type \in {"cont", "last"} => partial # << >>

\* The bytes of the frame in the stream.
Size(f) == Len(HeaderOf(f)) + f.length

\* The header of the next frame is in the streambuf.  The last frame of all
\* covers the bytes which came with the response.
HeaderArrives ==
    /\ chain = "header"
    /\ arrived = "none"
    /\ received < MaxPeerFrames
    /\ \E f \in NextFrames :
          /\ Legal(f)
          /\ received + 1 = MaxPeerFrames => Size(f) >= buffer
          /\ frame' = f
          /\ partial' = CASE f.type \in {"first", "cont"} -> Append(partial, f.no)
                          [] f.type = "last" -> << >>
                          [] OTHER -> partial
          /\ messages' = IF f.type \in {"text", "last"}
                           THEN Append(messages, Append(partial, f.no))
                           ELSE messages
    /\ received' = received + 1
    /\ arrived' = "ok"
    /\ UNCHANGED << queueSide, running, idleTimer, socketUp, stopped, requestSide, client,
                    chain, length, buffer, additional, fragment, history >>

\* A read that transfers nothing and reports no error (client_ws.hpp 518).
EmptyRead ==
    /\ chain = "header"
    /\ arrived = "none"
    /\ buffer = 0
    /\ received < MaxPeerFrames
    /\ received' = received + 1
    /\ arrived' = "empty"
    /\ UNCHANGED << queueSide, running, idleTimer, socketUp, stopped, requestSide, client,
                    chain, inMessage, fragment, partial, messages, history >>

Completes(outcome) ==
    /\ arrived = "none"
    /\ arrived' = outcome
    /\ UNCHANGED << queueSide, running, idleTimer, requestSide, stopped, client, chain,
                    inMessage, fragment, peerSide, history, socketUp >>

\* Another operation succeeds; what it reads may have been in the streambuf
\* or in the socket's buffer before a shutdown.
Arrives ==
    /\ chain \in Connecting \union {"length", "content"}
    /\ chain \in {"proxy_request", "tls", "upgrading"} => socketUp
    /\ Completes("ok")

\* The operation fails.  A read whose bytes are all there does not.
Fails ==
    /\ chain \in Connecting \union Reads
    /\ chain \in Reads => Missing(Needed) > 0
    /\ Completes("error")

\* Bound: a second timer expires only when the handler of the first has run.
RequestTimerExpires ==
    /\ requestTimer = "armed"
    /\ requestExpired = 0
    /\ requestTimer' = "off"
    /\ requestExpired' = requestExpired + 1
    /\ UNCHANGED << queueSide, running, idleTimer, socketUp, stopped, client, readSide >>

\* Bound: as for RequestTimerExpires.
IdleTimerExpires ==
    /\ expired = 0
    /\ Q!TimerExpires
    /\ UNCHANGED << requestSide, client, readSide >>

SocketNext ==
    /\ Q!SocketWrites \/ Q!SocketFails
    /\ UNCHANGED << requestSide, client, readSide >>

-----------------------------------------------------------------------------
ReaderCloses ==
    \/ CloseAlreadySent
    \/ ReaderSetsClose
    \/ ReaderSendsClose

Handlers(t) ==
    \/ Phases(t)
    \/ ReadLoop(t)
    \/ NoScope(t)
    \/ Returns(t)

Timers(t) ==
    \/ OnRequestTimeout(t)
    \/ OnIdleTimeout(t)
    \/ TimerCloses(t)

Next ==
    \/ Start
    \/ Stop
    \/ Destroy
    \/ \E t \in IoThreads : Handlers(t) \/ WriteSide(t) \/ Timers(t)
    \/ ReaderCalls
    \/ ReaderCloses
    \/ HeaderArrives
    \/ EmptyRead
    \/ Arrives
    \/ Fails
    \/ RequestTimerExpires
    \/ IdleTimerExpires
    \/ SocketNext

Spec == Init /\ [][Next]_vars

\* Io threads run what is queued, user code returns from callbacks, timers
\* expire, the resolver and connect() answer, and operations on a socket that
\* was shut down fail.  Nothing obliges the server to send or to read.
Fairness ==
    /\ \A t \in IoThreads :
          /\ WF_vars(Phases(t) \/ ReadLoop(t) \/ NoScope(t))
          /\ WF_vars(Returns(t))
          /\ WF_vars(WriteSide(t))
          /\ WF_vars(Timers(t))
    /\ WF_vars(ReaderCloses \/ (chain = "closing" /\ ReaderCalls))
    /\ WF_vars(chain \in {"resolving", "connecting"} /\ (Arrives \/ Fails))
    /\ WF_vars(chain \in Reads /\ Missing(Needed) = 0 /\ (HeaderArrives \/ Arrives))
    /\ WF_vars(RequestTimerExpires)
    /\ WF_vars(IdleTimerExpires)
    /\ WF_vars(~socketUp /\ Fails)
    /\ WF_vars(~socketUp /\ Q!SocketFails /\ UNCHANGED << requestSide, client, readSide >>)

FairSpec == Spec /\ Fairness

-----------------------------------------------------------------------------
Chains == Connecting \union Reads
              \union {"none", "posted", "callback", "closing", "closed", "ended"}

\* Types of the variables; one thread is in a handler of the read side exactly
\* while the chain is in a step which runs on a thread; and the timer of a
\* request, which closes without a close frame, is never left running behind
\* the phases that have a timeout_request.
TypeOK ==
    /\ client \in {"new", "started", "stopped"}
    /\ chain \in Chains
    /\ arrived \in {"none", "ok", "empty", "error"}
    /\ frame \in [no : Nat, type : DataTypes \union ControlTypes, length : Lengths \union {0}]
    /\ length \in Nat
    /\ buffer \in Nat
    /\ additional \in Nat
    /\ received \in 0..MaxPeerFrames
    /\ fragment.frames \in Seq(1..MaxPeerFrames)
    /\ fragment.length \in 0..SizeModulus - 1
    /\ \A t, v \in IoThreads : running[t] = Reading /\ running[v] = Reading => t = v
    /\ chain \in {"callback", "closing", "closed"} <=>
          \E t \in IoThreads : running[t] = Reading
    /\ requestTimer = "armed" => chain \in Connecting /\ timer = "off"

\* The client stays aligned with the stream of bytes: num_additional_bytes is
\* what the streambuf holds, and the length it has read is the one that was
\* sent.  So on_message gets the messages of the server, in order, each of all
\* its fragments, and none is left out when the next header is awaited.
MessageIntegrity ==
    /\ additional = buffer
    /\ chain = "content" => length = frame.length
    /\ Len(delivered) <= Len(messages)
    /\ \A i \in DOMAIN delivered : delivered[i] = messages[i]
    /\ chain = "header" /\ arrived = "none" => delivered = messages

\* To the handlers of its user a client is an InStream, in each of the phases
\* from the resolver to the ending, and however many bytes of the first frames
\* came with the response.
ImplementsInStream == In!InSpec

\* The callbacks of a client come in an order a user can rely on: on_open
\* first and once, unless the connection could not be made and on_error is
\* the only one; nothing after on_close; nothing after on_error, except the
\* on_close which follows when a message was too big; and a chain of handlers
\* that has ended in its scope has told the user so.
CallbacksWellFormed ==
    /\ \A i \in DOMAIN events :
          /\ events[i] = "open" => i = 1
          /\ i > 1 => events[1] = "open"
          /\ events[i] \in {"close", "error"} => i = Len(events)
          /\ events[i] = "message_size" =>
                i = Len(events) \/ (i = Len(events) - 1 /\ events[i + 1] = "close")
    /\ chain = "ended" /\ ~stopped => Ended

\* Once the destructor's handler_runner->stop() has returned, no handler of
\* the connection calls into the client or the user's code, although handlers
\* and timers of the connection still run on the io_service of the user.
NoCallbackAfterDestroy == [][stopped => UNCHANGED << events, called >>]_vars

\* A client never waits for the network without a timer that will close the
\* socket, in a phase of the connection as long as timeout_request is set, in
\* the read loop as long as timeout_idle is, however sends, endings and timers
\* that expired too late to be cancelled interleave; except while a write is
\* under way, when nothing may be left to time it.
ReadsTimed ==
    /\ ~stopped /\ socketUp /\ Connected
    /\ \/ RequestTimeout /\ chain \in Connecting
       \/ IdleTimeout /\ chain \in Reads
    /\ arrived = "none"
    => \/ timer = "armed" \/ expired > 0
       \/ requestTimer = "armed" \/ requestExpired > 0
       \/ \E t \in IoThreads : running[t] = Timing
       \/ Q!InFlight > 0

\* client_ws.hpp 289: timeout_idle is the "Idle timeout" of a connection.  A
\* started client would then hear on_close or on_error in the end, in whatever
\* phase the server falls silent: a phase is closed by its timer, an open
\* connection gets a close frame and is closed when that is not answered.
ConnectionEnds == client = "started" ~> Ended \/ stopped \/ client = "stopped"
=============================================================================
