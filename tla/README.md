# Verification of wse: the Undertone WebSocket service

`wse` is a WebSocket service which turns a five-character key into a WAV file
with an inaudible audio mark. It consists of an asio-based WebSocket library
(`ws-app/*.hpp`), the Undertone core which encodes and decodes the marks
(`Core/OxyCoreLib`), and the application which connects both
(`ws-app/UndertoneMain.cpp`). This directory holds TLA+ models of it, the TLC
configurations that check them, and proofs for TLAPS.

1. [Inventory](#1-inventory): the components, their state and what can go wrong
2. [Modules](#2-modules): what models what
3. [Runs](#3-runs): what TLC checks, bounds and fairness
4. [Proofs](#4-proofs)
5. [Findings](#5-findings)
6. [What is not modelled](#6-what-is-not-modelled)
7. [Plan](#7-plan)

## 1. Inventory

### The WebSocket library

**ScopeRunner** (`utility.hpp` 443-489). One atomic counter. `continue_lock()`
takes a shared lock by a weak compare-exchange loop and is refused once the
counter is negative; `~SharedLock()` decrements it; `stop()` exchanges 0 for -1
and spins until it can. Every handler of the library starts with
`continue_lock()`. Only the destructor of the client calls `stop()` (`client_ws.hpp` 355);
nothing in the server does.
Correct means: after `stop()` has returned, no handler is inside its scope, and
none enters. Hard: the interleavings of weak exchanges whose `expected` value is
updated behind the back of the loop; two `stop()` at once; overlapping handlers
which never leave the counter at 0; `stop()` inside a handler.

**Send queue of a connection** (`server_ws.hpp` 117-271, the same code in
`client_ws.hpp` 151-273). State: `send_queue` and its mutex, `close_sent`, one
`steady_timer` and its mutex. Operations: `send()`, `send_close()`, `close()`,
`send_from_queue()` and its two handlers, `set_timeout()`. Any thread calls
`send()`; the first frame of an empty queue starts the chain of writes, each
write's handler continues it. Correct means: one `async_write` at a time, frames
on the wire in the order of the sends, one callback per frame which tells the
truth. Hard: callbacks run outside the mutex; on an error the queue is dropped
while other threads append to it; the timer is shared with the read side;
`close_sent` is tested and set without a lock.

**Server connection** (`server_ws.hpp` 50-330, 582-830). State: the phase of the
read chain, the frame being read, `fragmented_in_message`, membership in
`Endpoint::connections`, `timer`. Operations: `read_handshake`,
`write_handshake`, `connection_open`, `read_message`, `read_message_content`
with its branches on the opcode, `connection_close`, `connection_error`, the
endpoint's callbacks, and what `stop()` does to a connection. It uses the send
queue for pongs and close frames. Correct means: callbacks in a legal order, each ending
once; messages delivered whole and in order with control frames in between; no
connection left in the endpoint; a silent peer is given up. Hard: a connection
ends on many paths; `read_message` posts to the strand and the callbacks run
off it, so another thread may be in the same connection's write side; the set of
connections is changed under its mutex and the callback comes after the unlock; one
timer is cancelled and replaced by both sides.

**Server lifecycle** (`server_ws.hpp` 405-580, 832-880). State:
`start_stop_mutex`, `acceptor`, `io_service` and whether it is stopped,
`threads`, `internal_io_service`. Operations: `start()`, `stop()`,
`stop_accept()`, the accept handler, the thread pool. Correct means: a listening
server always has an accept outstanding; `start()` after `stop()` serves again;
`start()` and `stop()` return. Hard: `start()` joins under the mutex that
`stop()` needs; `stop_accept()` takes no mutex; accept handlers that were queued
before the acceptor was closed.

**Client** (`client_ws.hpp`, `client_wss.hpp`). State: the phase of the connection
(resolve, connect, the proxy's answer, TLS, upgrade, response), `num_additional_bytes`
and the `streambuf` it counts, `fragmented_in_message`, one timer that serves requests
and idleness, one connection, dropped under `connection_mutex`, and the same send queue.
Operations: `start()`, `stop()`, the destructor, `connect()`, `handshake()`, `upgrade()`,
`read_message()`, `read_message_content()`, the endings, the handlers of both timeouts.
Correct means: the reader stays aligned with the stream of bytes; callbacks in a legal
order; nothing of the client is touched after its destructor; no wait without a timer.
Hard: bytes of the first frames come with the response; an idle connection first sends a
close frame; the `io_service` may be the user's and go on without the client.

**Frame header codec** (`server_ws.hpp` 210-238, 613-703; `client_ws.hpp` 198-240,
506-596). The length of a frame stands in the second byte below 126, else in two or eight
bytes behind it; the client sets the top bit of the second byte and the server does not.
Correct means: each end reads the length that the other one wrote, and where the payload
begins. Hard: the widths change at 126 and 65536.

**TLS variants** (`server_wss.hpp`, `client_wss.hpp`), **HTTP helpers and crypto**
(`utility.hpp` 1-440, `crypto.hpp`, `status_code.hpp`): a TLS handshake in front
of the same classes, and pure functions over strings.

### The Undertone core

**Token decoder** (`Decoder.cpp`, `DecoderNonAudibleMultiToneMode.cpp`). State: a ring of
samples, a ring of analysed frames with read and write index, `mDecoding` (0: look
for the start tokens; 1-18: tokens of the message; above: finish),
`mDecodedValues`. `DecodeAudioBuffer()` takes a block of samples and returns at
the first event. Correct means: the tokens of a message are read from the frames
they were written to, whatever the sizes of the blocks; nothing of an earlier
message leaks into a later one. Hard: two rings with wrap-around, an early return
out of a loop over pending samples, an accumulated fraction of a frame.

**Token encoder** (`Encoder.cpp`, `Encoder...Mode.cpp`). State: `mReadIndex`, the sound, a
signature. A word of nine characters becomes 2 start tokens, the word, a check digit and 8
correction symbols, then a sound, which may have notes over it and is handed over in
blocks. Seven modes in six classes, copies of two programs.

**Reed-Solomon codec** (`ReedSolomon.cpp`). Tables of GF(32), built at run time; encoder;
decoder by Berlekamp's iteration, with three ways of giving up. A shortened code: 12
symbols of 23 are sent. Correct means: up to four wrong symbols are repaired, and more are
not called right.

**Token alphabet and tables** (`Globals.cpp`). Characters, indices, pairs of tones,
frequencies and loudness of each mode. Process-wide variables for the custom mode: what one
handle sets, all handles of the process have.

**Other decoder modes** (`Decoder...Mode.cpp`). Four classes like the one above; one which
searches for three modes at a time, with one write position and three read positions in
one ring; two old ones with one tone for each token, which look at the neighbours, the
last token and its reverberation. Hard: copies which differ in a few lines; a ring with
four positions; a repeated token which must not be taken for the echo of itself.

**Core API** (`OxyCoreLib_api.cpp`): C functions on a handle which dispatch to the
mode's coder and set process-wide variables of `Globals`.

**Spectral analysis and synthesis, mixer and loudness**: floating-point signal processing.

### The application

**Audio service** (`UndertoneMain.cpp`): `on_message` calls `generateAudio()` in the
io thread, which writes `<key>.wav`, silence with a mark at its end, then echoes the
message, whatever `generateAudio()` returned.

### How they interact

The application registers callbacks at an endpoint; the lifecycle's accept
handler makes a connection and hands it to the handshake; the connection's read
chain calls `on_open`, `on_message`, `on_close`, `on_error`; those call `send()`
and `send_close()`, whose frames the send queue writes on the strand. All
handlers run in the threads of one `io_service` and ask the one `ScopeRunner` of
the server before they touch anything. `on_message` calls the encoder through the
Core API. Receiver and sender of marks share nothing but the token layout and, in the
custom mode, settings which each of them has in its own process.

## 2. Modules

| module | models | state and actions |
|---|---|---|
| `ScopeGate` | what a ScopeRunner promises | a gate that is open or closed, a set of those inside |
| `ScopeRunner` | `utility.hpp` 443-489 | `count`, and per thread the `expected` of its loop; one action per exchange, including the spurious failure of a weak one |
| `ScopeRunnerProofs` | | theorems about `ScopeRunner` |
| `OutStream` | what a connection promises to senders | how many frames were accepted and sent, and the answers given |
| `InStream` | what a connection promises to listeners | the messages the peer has finished, those given to `on_message`, and the callbacks |
| `SendQueue` | the write side of a connection | see below |
| `SendQueueProofs` | | theorems about `SendQueue` |
| `ServerConnection` | the read side, composed with `SendQueue` | see below |
| `ServerConnectionProofs` | | theorems about `ServerConnection` |
| `ServerLifecycle` | `start()`, `stop()`, `stop_accept()`, accept loop | see below |
| `ServerLifecycleProofs` | | theorems about `ServerLifecycle` |
| `FrameCodec` | the header of a frame, as it is written and as it is read | operators |
| `FrameCodecProofs` | | theorem about `FrameCodec` |
| `ClientConnection` | `client_ws.hpp`, `client_wss.hpp`, composed with `SendQueue` and `FrameCodec` | see below |
| `ClientConnectionProofs` | | theorems about `ClientConnection` |
| `CallbackProofs` | | lemmas about sequences of callbacks, for both connections |
| `TokenDecoder` | `Decoder.cpp`, `DecoderNonAudibleMultiToneMode.cpp`: rings, windows, early returns | see below |
| `TokenDecoderProofs` | | theorems about `TokenDecoder` |
| `Tones` | `Globals.cpp` | the settings `g` of a process are a record |
| `ReedSolomon` | `ReedSolomon.cpp` | operators; an array is a sequence, a loop a recursive function |
| `Encoders` | `Encoder.cpp`, `Encoder...Mode.cpp` | a sound is a record of the tones of its tokens, notes, signature and number of samples |
| `Decoder` | `Decoder.cpp`, what the `Decoder...Mode.cpp` have in common, `SpectralAnalysis.cpp`, the air | a decoder is a record; a call is an operator that yields the record after it and the result |
| `MultiToneDecoders` | the decoders of audible, non-audible, compression and custom marks | likewise |
| `AllMultiToneDecoder` | `DecoderAllMultiToneMode.cpp` | likewise, with three read positions |
| `SingleToneDecoders` | `DecoderAudibleMode.cpp`, `DecoderNonAudibleMode.cpp` | likewise |
| `CoreApi` | `OxyCoreLib_api.cpp` | an object is a record with an encoder and a decoder |
| `AudioService` | `UndertoneMain.cpp`, with `CoreApi`: a service, an application and a listener | see below |

`MC...` modules give the constants of TLC's runs their model values and symmetry.

**SendQueue.** A frame is its number, in the order in which `send()` took the
mutex, and its opcode. It is in `sendQueue` from `send()` until its write's
handler; meanwhile it is in the lambda posted to the strand (`posted`), in the
`async_write` (`writing`), or in the queued handler (`completed`). Actions are
critical sections of `send_queue_mutex`, the accesses to `close_sent`, and
handlers up to their next such access: `CallSend`, `TestCloseSent` /
`SetCloseSent` / `SendClose` (the three steps of `send_close()`), `CallClose`,
`StartWrite`, `WriteHandler`, `RunCallback` (one callback, outside the mutex),
`TimerHandler`. `ReadSideUsesTimer` is all that the read side does to this half: it cancels
the timer, also when that covers a pending write, or replaces it. asio and the peer are `SocketWrites`, `SocketFails` and
`TimerExpires`; the owner of the ScopeRunner is `StopRunner`, which waits for the
handlers like `ScopeGate!Close`. `StopRunner` is where the two models meet:
that a `stop()` made of exchanges behaves like this one step is what
`ScopeRunner` shows (`ImplementsGate`).

`timer_mutex` guards single assignments, so `set_timeout()` is part of the step
that calls it. A timer whose handler is queued without an error when it is
replaced is counted in `expired`: that handler still closes the socket.

*Who times a write.* A write sets the timer (166, 172), and each read handler cancels it (620,
650, 675, 716); as long as the connection reads on, the next read sets it again, so that the
write comes to an end with the timer of the read (`ReadsTimed`, `OpenedEnds`). But after a close frame, or a
message that is too big, nothing is read any more: the timer is cancelled, the close frame queues
behind the pending write and sets none. If the peer does not read, that write then waits for
ever, and neither its callback nor those behind it are called. So `EveryFrameAnswered` has a
condition: it promises the answers if writes come to an end, or if from some time on a pending
write always has a timer (`Timed`).

**ServerConnection** instances `SendQueue` as `Q` and shares its variables: each
of its actions names the steps of `Q` it contains or leaves `Q` unchanged. The pong which
answers a ping is put into the queue as any frame that is not a close frame (`"data"`). `chain`
is the phase of the read side (which of the chained asynchronous reads is
outstanding, or which callback is running). The peer's frames come from a small
set: last or first fragments with lengths that fit or exceed what is left, ping,
pong and close. The thread that runs a handler of the read side is marked
`Reading` in `running`, so that a write handler needs another thread.

A handler which opens or ends the connection is several steps: `OnResponse` up to the entry,
`ConnectionOpen` (the entry into `endpoint.connections`, under its mutex), `OnOpen` (the callback, after the unlock); and
likewise `ConnectionErased`, then `OnClose` or `OnError`, with the steps of `send_close()` in between or
before. Between any two of them `stop()`, users and the write side may run. `Membership`
speaks of these windows, too: `stop()` sees a connection before its `on_open`, and does not see one which
an ending has taken out, before `on_close` or `on_error`; and a connection that enters after `stop()` stays in the endpoint until
its own end.

*Sizes.* `length + fragmented_in_message->length` (706) and `4 + length` (715) are sums of
`size_t`, which wrap. `TooBig` and `Joined` count modulo `SizeModulus`, and `fragment.size` (history) without.
Two things keep the sums from wrapping, and `FragmentBounded` and `SizeBounded` name both: the peer's lengths are
below half of the modulus, since RFC 6455 has the most significant bit of a length 0
(`LengthAssumption`; the code does not test it, and nothing is said of a peer that does otherwise); and
`2 * MaxMessage < SizeModulus`. The default of `max_message_size` is the greatest `size_t`, which is no limit, and
nothing is claimed for it.

`InStream` is what the read sides of both connections implement: `ImplementsInStream` maps
`messages` (what the peer has sent to its last fragment) to `offered`, `delivered` to `taken`, and
`events` to `heard`. `Offer` is the arrival of a frame that completes a message, `Take` is
`on_message`, and no other step may come between; `Refuse` is a message that is too big, after
which only the end can follow. That control frames come between fragments, and that each ending
has its one callback, is in the guards of the abstract actions. `EventsWellFormed` and
`MessageIntegrity` of `ServerConnection`, which say most of it of the variables of the connection,
are theorems and need no run of their own. `OutStream` is the same for what is sent.

**ServerLifecycle** has a thread that starts the server, a pool, and user threads
that stop it. `accepts` counts outstanding `async_accept`s, `accepted` holds the
queued accept handlers with their outcome. Handlers of a connection may call
`stop()` (`HandlersStop`), which is how `stop()` gets to run inside a thread that
`start()` waits for.

**ClientConnection** is built like `ServerConnection`: `chain` is the phase of the read
side, `arrived` the outcome of its outstanding operation, and the thread that runs a
callback or `send_close()` of the read side is marked in `running`. The phases of the
three routes (plain, TLS, TLS over a proxy) are one action each (`OnResolved` to
`OnResponse`). `additional` is `num_additional_bytes` and `buffer` what the streambuf
really holds; they are separate variables, since that they agree is to be shown. `frame`
is what the server sent; the client knows of it only what `FrameCodec` reads in its
header. The one timer of the connection is two in the model: `requestTimer` for
`timeout_request`, which closes, and `SendQueue`'s `timer` for `timeout_idle`, which sends a
close frame first (`OnIdleTimeout`, `TimerCloses`); setting one drops the other. Both
timeouts are 0 by default, which sets no timer (`client_ws.hpp` 106-109, 288, 290); the constants
`RequestTimeout` and `IdleTimeout` say whether they are set, and `ReadsTimed` claims nothing of
a wait whose timeout is 0. `Stop` may come at any time after `start()`, from the user or the destructor, and `Destroy`,
which is `handler_runner->stop()`, in any state in which no handler is inside of its scope;
after it `NoScope` is what every handler does. The sum of lengths (599) wraps as in the server.

**AudioService** composes the encoders, the decoders and the API. There are three
processes, each with its `settings`: the service, an application that makes marks in a
mode of its choice, and a listener that decodes in a mode of its choice. `OnMessage` is
`on_message` with `generateAudio()` (`GeneratedMark`), and the case that the file cannot be
opened; `PlayMark` encodes a word and plays what `GetEncodedAudioBuffer()` hands over until
there is no more; `OXY_DecodeAudioBuffer` hands the listener the next block of what is
heard, and `OXY_GetDecodedData` fetches a word. `air` says since which sample which sound is
heard, which of its tokens are drowned and what echo there is.

*The spectrum.* A tone is the bin of its frequency and a level in integers. A window holds
what the sound plays at three of its points, weighted as the window function does; a bin
of the spectrum has the sum of the levels of the tones near it, less with the distance, with a long
tail, so that of several candidate bins the one next to a tone is the loudest, as in a real
spectrum. The decoders compare sums of these levels exactly as the code compares
floating-point energies. What this abstraction leaves out is rounding, phases and
the exact shape of the window; the results of the model were compared with those of the
compiled library for all modes and scenes of the run, and agree. One thing
found this way: a custom base frequency inside the band of another mode (13000 Hz with a
separation of 3, say) makes the `COMPRESSION` listener of the library start on custom marks, so the run's
custom bands lie between the bands.

*The custom mode* works for some separations only. The encoder shifts the tones of a token by the
four bins of the inaudible mode, or by eight (`EncoderCustomMultiToneMode.cpp` 97-103); the decoder looks for
them `2 + separation` bins higher, or twice as many (`DecoderCustomMultiToneMode.cpp` 522-529). The two are
the same for a separation of 2, and two bins or less apart for 1 and 3 (the default is 1): there the decoder
still finds the tones (`ShiftsMeet`). For other separations, which `OXY_SetCustomBaseFreq` accepts, the shifts do not
meet: the decoder finds the start of a mark, whose tones are not shifted, and then reads what leaks into its bins, and
with 15 and more the doubled shift lies nearer another tone and the word is wrong.
`MarksDecoded` therefore promises a custom mark only where `ShiftsMeet`; of other marks between two
equal settings nothing is said (`LeftOpen`), and none are played.

**TokenDecoder** is sequential; its variables are those of the class. A sample is its
number, and the ring of samples holds numbers, so that one that was overwritten shows.
What a window sounds like follows from what the sender plays at its samples: the
loudest token is heard strongest, the other one second, a faint one not at all.
Each token of each message is a value of its own. An iteration of the loop of
`DecodeAudioBuffer()` is an action: `SearchStart` (`AnalyzeStartTokens()`),
`ReadToken` (`AnalyzeToken()`), `FinishWord`, or `NoWindow` when the samples run out; an
action that returns an event leaves the rest in the ring for the next call.
The slot at the write position, which the search counts before it is written, is
read with what it holds. The host calls `GetDecodedData()` when a word is complete,
as `OxyCoreLib_api.h` says.

## 3. Runs

| run | question | bounds |
|---|---|---|
| `scope_runner` | does the counter implement the gate, and does `stop()` return? | 3 handler threads of 2 scopes each, 2 stoppers |
| `send_queue` | order, exclusiveness and answers of the write side, with failures, the timer and its loss to the read side, and stop at any moment | 2 callers, 2 io threads, 3 frames, 1 expired timer queued at a time |
| `connection_two_threads` | membership and the discipline of writes when read and write side run in parallel with a user | 2 io threads, 1 user, 2 frames of the peer, 1 frame sent, sizes modulo 8 |
| `connection_one_thread` | does the read side implement `InStream`, is each of its waits timed, and do connections end, under fairness and with both timeouts? | 1 io thread, 3 frames of the peer, no frames of users, sizes modulo 8 |
| `lifecycle` | accept loop, restart, stop | 1 pool thread, 2 stopping threads, 2 sockets, 2 starts |
| `token_decoder` | are tokens read at their place, and messages found? | 2 messages of 2 start and 2 more tokens, blocks of 7 or 16 units, gap of 0 or 7, a burst of 0, 1 or 12 frames of noise from any of the first 81 frames on |
| `client` | bytes, messages, callbacks and timers of a client on every route, with `stop()` and the destructor at any moment | 1 io thread, 2 frames of the server with 1 or 256 bytes, 0, 3 or 5 bytes behind the response, 1 frame sent, both timeouts set, sizes modulo 1024 |
| `audio` | is each mark decoded, whatever was played and in whatever mode, and nothing else? | all 7 modes at both ends, 9 scenes, 3 messages, the default and three other custom settings, one signature, blocks of half a token |
| `queue_close_race`, `client_idle`, `lifecycle_join`, `lifecycle_stop_accept` | the findings of section 5 | |

**Why the bounds are enough.** The counter of a ScopeRunner is disturbed by at
most one exchange between the load and the exchange of another thread; three
threads make a loop fail and retry twice, and the proofs hold for any number. In
the send queue three frames are a front being written, one behind it, and one that
arrives while the callbacks of a dropped queue still run; two callers and two
threads overlap every pair of critical sections. In the connection three frames
hold a first fragment, a control frame in between, and a last fragment;
`MaxMessage` is three, so that a sum of fragments can
exceed it; eight is the smallest `SizeModulus` which the assumptions allow. In the lifecycle two starts are one restart, and two sockets are a
connection and the next accept. The decoder has the geometry of 44100 Hz in units of 128
samples: windows of 2048 samples every 256, tokens of 4608, a ring of 36 frames; only the
18 tokens of a message are reduced to 2, which start and end at the same slots of the ring
(a token is half a ring) as 18 do. Twelve frames of noise are two thirds of a token and
make it wrong or unrecognisable; one frame uses up the tolerance of the search. The
first message begins after half a window of silence: a mark that begins with the very
first sample is not found, since its first token is heard for too short a time. The client's
lengths are one of each width up to 16 bits (the 64 bit ones are proved); two of the longer ones exceed
`MaxMessage`; 3 and 5 bytes behind the response cut a first frame inside its header, its
length or its payload, or cover it and the beginning of the second one. In the client a second io
thread could only run a write handler beside the read side, which is what
`connection_two_threads` has for the same queue. A second expired timer only closes again what
the first one closes, so `MaxExpired` is one. In `audio` the geometry is that of the code
at 44100 Hz, nothing is scaled down. The scenes are: a plain mark; one with an echo and with repeated
tokens; notes; a short and a long melody; four tokens drowned by silence, and four by another
mark, which is what can be repaired; five, which is one too many; and two marks one after the other.
Each is played by each of the seven encoders to the listener of that mode and to the one
that finds out the mode, with and without a signature, and the plain ones to every other
listener, which must not start. Only a mark of an old mode and a listener of the new mode
in the same band, or the reverse, and custom marks whose shifts do not meet, are left out: nothing says what
should happen. The custom settings are the default (12000 Hz, separation 1), 15500 Hz with 2, 9700 Hz with
3, and 1800 Hz with 0, where the shifts do not meet. The messages are a key, one with a character that no token has, and one that is
too short. The
state of a bound that is reached is no
deadlock of the system: runs without new calls have `CHECK_DEADLOCK FALSE`, and
what must not block is stated as liveness instead.

**Fairness.** Threads in `io_service->run()` run handlers that are queued: weak
fairness for each thread's handlers. A thread inside a function of the library
goes on. A timer that is armed expires. A socket that was shut down fails its
pending operations. Nothing is assumed of the peer or of the user: frames may
never come and pending writes may never complete; the timeouts are what makes
`HandshakeEnds` and `OpenedEnds` true. `EveryFrameAnswered` cannot count on the timer, which the read side may
cancel; what it asks for instead is stated in it (*Who times a write* in section 2). In `ScopeRunner` weak
fairness covers the whole loop of `continue_lock()` (a weak exchange may fail
spuriously, but not for ever) and `stop()` needs no more since handlers are finite
there. `ClientConnection` assumes the same of its threads and timers and, in
addition, that the resolver and `connect()` answer and that a read whose bytes are all
there completes. In `ServerLifecycle` `stop()` gets strong fairness, which stands for the
mutex: a thread that waits for a mutex which is released again and again gets it
eventually.

**Mutants.** Each property of a passing run is shown to be able to fail: a
definition `Bug...` next to the operation is that operation with one mistake a
programmer could make (the write posted before the erase, a handler without
`continue_lock()`, an accept loop which stops at an error), and the property fails
when it takes the operation's place.

## 4. Proofs

Every safety invariant and action property that a run checks is a theorem, but for the
three listed at the end of this section. The theorems hold for any number of threads,
callers, frames, sockets, starts and tokens, every limit on messages, and, as far as no hypothesis
says otherwise, every geometry of the decoder's rings. They rest on the assumptions that the modules make on their constants,
which TLC evaluates in the runs:

| assumption | what it asks for besides types |
|---|---|
| `ScopeAssumption` | the workers are finitely many, and none of them calls `stop()` |
| `SendAssumption` | |
| `ConnectionAssumption` | the read side is no user (a name of its own for its calls); the limit is a `size_t` (below `SizeModulus`, which is 8 or more) |
| `LengthAssumption` | the peer's lengths are below half of `SizeModulus` (RFC 6455, 5.2); among them is 1, the length of a control frame in the model |
| `ClientAssumption` | the read side is no io thread; limit and payload lengths are a `size_t`, and these below 2^64 (`Fits`) |
| `LifecycleAssumption` | starter, pool and stoppers are different threads; a socket is no error |
| `DecoderAssumption` | a hop is at most a window, a ring has two slots or more |

Some theorems have a hypothesis of their own. `SizeBounded` has, in `FragmentBounded`, that the limit is below half of
what a `size_t` holds, and both `ReadsAreTimed` the timeouts. `CallbacksOrdered` speaks of each thread: with two io
threads the callbacks of two frames may overtake each other, and nothing in the code
prevents it. `WindowsTaken` has `BlocksFit`: the host's blocks are at most a window (2048
samples at 44100 Hz), and at most what the frames of a token take (4608). The service's blocks have 128
(`UndertoneMain.cpp` 183). Some bound is needed, since `DecodeAudioBuffer()` has no test.
`TokensStayAligned` and `WordsAreRight` have `BlocksFit`, too, and `Geometry`: the ring of frames
has an even number of slots, a token is as long as half of them, and it has room for a window and
for twice the tolerance and two hops more. So it is in the code at 44100 Hz, where a token is 18 hops of 256
(`Globals.cpp` 9), the ring has 36 slots (`Decoder.cpp` 102) and the tolerance is one frame (105):
2048 + 6 * 256 is less than 4608. The constants of `TokenDecoder.cfg` are these, and other
sampling rates, where half of the ring is not a token exactly, have no theorem.

The inductive invariants were checked with TLC on small instances before they were proved, as far as
TLC can evaluate them (`EventPhases` quantifies over an unbounded request and cannot be evaluated).

**`ScopeRunnerProofs`.** `Invariance` is `Spec => []IInv` with
`IInv == TypeOK /\ CountIsLocks /\ StopMeansStopped`. `CountIsLocks` (the counter is the
number of live locks or -1) is inductive alone, but it does not say why nobody
enters after `stop()`; `StopMeansStopped` (a `stop()` that has returned leaves a negative
counter) does, since no step makes a negative counter anything else and a lock is
taken only from a value that is not negative. `StopSafe` and `StopFinal` follow from
`IInv`; `Refinement` maps the counter's exchanges to the gate's steps, the spurious
failures and the loads to stuttering.

**`SendQueueProofs`.** The properties talk about the wire and the callbacks; what the
code maintains is where each frame is. `IInv` is `QueueInv /\ CallsTrue /\ CallsDistinct`, and
`QueueInv` has these parts:

* `Placed`: at most the front of the queue is in `posted`, `writing` or `completed`, in one of
  them only, and while the scope runs a queue that is not empty has its front there. This
  is what makes "start a write if the queue has one element" right.
* `Numbered`: the queue is an interval of consecutive frame numbers that ends with the
  last frame sent. `WireOrder` needs it, since a handler erases the front whatever it is.
* `WireCounted`: the wire ends just before the front, or with it once its write has
  succeeded; without it the next write could repeat or skip a frame.
* `StoppedIdle`: with the scope stopped no handler is inside.
* `CallsTrue`, `CallsDistinct`: a handler's callbacks still to be called are for frames that have
  left the queue, carry the error of their write, and no two handlers hold the
  same frame. The refinement needs both: an answer is given once and is true.

Each part has a lemma that a step keeps it (`PlacedStep`, `NumberedStep`, `WireStep`,
`CallsStep` and so on), whose proof has one step for each case of `StepCases`:
`QuietStep`, `CloseStep`, `EnqueueStep`, `StartWrite`, `WriteHandler`, `RunCallback`,
`SocketWrites`, `StopRunner`. These are the steps of `QueueSpec`, which is `Spec` without the
bound on the frames: the connections that contain a queue bound their own steps. Theorems:
`OneWriteAtATime`, `WireInOrder`, `SilentAfterStop`, and `Refinement` (the
queue implements `OutStream`). `CallbacksOrdered` needs that for each thread the callbacks
it has called, those which wait in its handler, and all frames of the queue, which the next handler may get, are in one
order (`Ordered`).

**`ServerConnectionProofs`.** First the queue: a thread which is in a handler of the read side is idle
for the queue (`Quiet`), and the timer, which both sides use, is left aside. Seen so, each
step of a connection is a step of `QueueSpec` or leaves the queue as it is
(`QueueImplemented`; `P` is the instance of `SendQueueProofs`). From it follow, by the theorems
about the queue, `WriteDiscipline`, `CallbacksOrdered` and `StreamImplemented`. Then the
read side, with the invariant

* `OneReader`, `ReaderCalls`: a thread is `Reading` exactly while `chain` is a step that runs on
  one, and only then the read side is inside of `send()` or `send_close()`;
* `EventPhases`: for each phase of `chain`, what has been called so far: nothing before
  `on_open`; then what `Serving` of `CallbackProofs` says, a refused size (`SizeRefused`), or
  an ending (`Over`); and where the connection is in its endpoint or was until `stop()` (`Member`),
  in the steps between a change of the set and its callback too.
  `EventsWellFormed` and `Membership` say nothing of the phase, so that they are not inductive: that
  `on_close` is the last callback needs that nothing calls another one afterwards;
* `UpToDate`, `Limited`: what was delivered and what is collected of a message are what the
  peer has sent up to the frame being read, within the limit; `Limited` also says that the length
  the code keeps is the size without a modulus, which is what the test of the next frame needs. Theorems
  `MessagesWhole`, `SizeBounded`;
* `NothingSent`, `Watched`: during the handshake nobody can send, so that no write takes its timer away;
  behind it every step that goes on to wait for the peer, and every write handler, leaves a timer, an expired one closes the socket,
  and a caller's `send()` only replaces it. Theorem `ReadsAreTimed`.

`InStreamImplemented` is the refinement of `InStream`. Its step lemma has a case for each action
of the connection, which is a step of `InStream` or leaves its three variables alone. What the
abstract guards ask for is in the invariant and not in the handlers: that the last callback is one
after which a connection goes on (`Going`) is read off `EventPhases`, for each phase, by the lemma
`LastHeard` of `CallbackProofs`; that a message is taken before the next is offered is `UpToDate`.

**`ClientConnectionProofs`.** The same (`QueueImplemented`, here with the thread whose idle timer
closes, `Timing`, idle as well, and the destructor as `StopRunner`), and
`EventPhases` for the three routes. `UpToDate` has more to say: `additional` is what
`buffer` holds beyond the frame being read, in each phase of reading it, so that the reader
looks for a header where one begins; that the length it reads there is the one sent is
`HeaderReadBack`. From both follows that a client, too, implements `InStream`
(`InStreamImplemented`). `ReadsTimed` is here a statement about two timers, and its invariant follows
each of them: `RequestCovered` (up to the response there is a request timer, or its handler,
or a handler of the phase that will fail) and `IdleCovered` (behind it an idle timer, or its
handler, or a write, whose handler sets a timer, or a thread that is about to close); `Alone`
keeps them apart. `SilentAfterDestroy`: `NoScope` is all that a handler does when the
runner has stopped.

**`ServerLifecycleProofs`.** `IInv == TypeOK /\ AcceptLoopAlive /\ ThreadsJoined /\ Phases`.
`RunningWhileOpen` is not inductive alone: it needs that the `io_service` stops only after the acceptor
was closed (`StoppedClosed`: a `stop()` closes it, and without an accept loop there is no open
acceptor to leave), and that no thread is in `run()` before there is an acceptor (`Started`).

**`FrameCodecProofs`.** `HeaderReadBack`: for every length below 2^64, either sender and
every opcode, the reader finds the length that was written, takes the frame for masked
exactly if the client sent it, and looks for what follows right behind the header. A
length is its last byte and 256 times what is above it (`Bytes`); applied twice and eight
times that gives `TwoBytesReadBack` and `EightBytesReadBack`, which need that nothing is
left above the first byte (`Fits`). `SecondByte` keeps the mask bit and the code apart, and
`Front` that the bytes of a length are what is behind the first two.

**`TokenDecoderProofs`.** Lemmas about positions in a ring come first: going on from a position
(`RingPlus`), and the distance of two positions, which is that of the numbers they stand
for as long as these are less than a ring apart (`Distance`). `TypeCorrect` needs what can be heard
(`HearsRange`). `WindowsTaken` says that the ring of samples, which is written without a
test, never overflows. That is not a fact about the ring of samples alone: what waits
there depends on how soon the next event comes, which depends on the ring of frames. The
invariant is

* `Positions`, `SlotsFilled`: a position is the number of samples read or written, modulo the
  ring, and each sample that waits is in its slot;
* `FramesCollected`: how many frames the search (`decoding = 0`) or the token being read has
  (`Fill`), where the half frames that add up over the tokens may put the read position one
  slot ahead of the write position (`Fill = -1`);
* `Backlog`: what waits is less than a window and the block just handed over, or, after an
  early return, it and the hops of the frames collected so far are within a limit
  (`Limit`). A frame moves one hop from the one to the other, so that at the next event the
  frames of a token, which take more samples than a block has, have made room for the next block.
  From this `NothingLost`: at most `Window - 1` and three blocks wait, less than the ring's
  four windows.

Then the tokens. `TokensAligned` and `WordsRight` speak of the frames that are read and of the
words that were handed out, and neither is inductive: where a token is read depends on what the
search saw many frames before, and a word on all tokens read before it. The invariant
`ReadingInv` is `RingInv` above and

* `FramesWhole`: with an even ring a token takes half of the slots exactly, so that `Fill` is never
  -1 and the frames in the ring are the last `Fill` ones (`First` to `frames - 1`, each in its `Slot`);
* `SearchHeard`: a frame in the ring of the search that shows a first start token overlaps one that
  was sent. `TokenHeard`: a frame that has most of a token (`Mostly`) and no noise shows that
  token. Both follow the writing of frames (`FrameHeard`) and survive every step that moves the read position;
* `MessageRead`: while a message is read there is one message `m` of which all values read are tokens,
  but for those which noise covered (`Sent`), and the frames from `First` on are those of
  its next token (`NextToken`), at most the tolerance of the search too early or too late
  (`Found`). `WordRead` is the same of a complete word, and `WordWaits` says that values are
  left over only while a word waits for the host, so that a message begins without any.

The steps: a frame which shows a first start token overlaps one (`StartOverlaps`), of the same message as
the others of that half of the ring (`SameMessage`). When `SearchStart` succeeds, all but a tolerated number
of the frames of the half do (`HalfCounted`), hence one near each of its ends (`Spread`), and both together
say where the message is (`StartPlaced`). Going on by half of the ring leads from a token to the next
(`FoundNext`). And of the frames a token is read from, most are `Mostly` its own (`MostlyFrames`),
so that without noise the value that is found most often is that of the token (`TokenCertain`, `TokenRight`). A
majority that is wrong needs noise on the token, which is `Disturbed`. `FramesAligned` derives `TokensAligned`,
for which less than half a token is left when a tolerance and a hop are taken from `Geometry`.

**Only model-checked**: liveness (`StopReturns`, `EveryFrameAnswered`, `HandshakeEnds`,
`OpenedEnds`, `AcceptedServed`, and the violated `AcceptLoopEnds`, `StartReturns`,
`ConnectionEnds`), since fairness and ENABLED are out of the prover's reach. Of the safety
properties: `MessagesFound`, which is the converse of the alignment (that the search does
find each start that is not disturbed, from noise or the message before it on, and ends in time for the next one) and depends on
which of several frames the search takes first, hence on the exact numbers of frames; and
`MarksDecoded` and `StartsInItsMode`, which rest on what `ReedSolomon`, `Encoders` and the
decoders compute. Induction over data is out of the prover's reach, so these are checked on the words and
the scenes of the run `audio`.

## 5. Findings

Four properties restate a comment of the code and fail on the model; each has a
run whose counterexample is a schedule of the program.

* `queue_close_race`: "Send close only once" (`server_ws.hpp` 250). `close_sent` is
  a plain `std::atomic<bool>` tested and then set; two threads, for instance a user
  and the echo of the peer's close frame, pass the test together and two close
  frames are sent.
* `client_idle`: `timeout_idle` is the "Idle timeout" (`client_ws.hpp` 289). When it
  expires the client does not close but calls `send_close()` (120), and the timer that
  would close is armed by the write this starts. Behind a write which waits for a server
  that does not read nothing is started: no timer is left and the connection never ends.
* `lifecycle_join`: `start()` is to "Wait for the rest of the threads" (452). It does so
  holding `start_stop_mutex`; a callback in one of those threads which calls
  `stop()` waits for the mutex for ever.
* `lifecycle_stop_accept`: `stop_accept()` is to "Stop accepting new connections" (478).
  An accept that had succeeded and whose handler was queued starts another
  `async_accept` on the closed acceptor, and since its error is
  `bad_descriptor` and not `operation_aborted`, each handler starts the next one.

Seen while modelling and left without a run, since no line of the repository
promises otherwise: with a user's own `io_service`, a connection still in its handshake when
`stop()` runs opens afterwards; a ping between two fragments is measured together
with them and can be refused as too big (706); a write that is pending when a close frame or a message too big has been
read has no timer left and can wait for ever (*Who times a write* in section 2); `send_close()` that is not the first
one drops its callback; frames may be sent behind a close frame.

## 6. What is not modelled

* Contents of headers and payloads, parsing, masking, hashing: pure functions over
  strings which have tests (`ws-app/tests`). The models keep lengths and opcodes.
* The data race of `stop_accept()` with `start()` on the `acceptor` pointer: it has no
  defined outcome; `stop_accept()` is modelled while the server runs.
* What a `ServerLifecycle` does when `resolve()`, `open()` or `bind()` of `start()` throws, and with a
  `thread_pool_size` of 0, when `start()` runs no `io_service` of its own. A second `start()` of a client,
  and its restart of an `io_service` that was stopped (`client_ws.hpp` 325).
* What happens inside a TLS stream, where a read and a write must not overlap. The
  handshakes of the client over TLS and over a proxy are phases of `ClientConnection`.
* Two handles in one process, which share their settings.
* Of the core: confidences, energies of received marks and the volume of the synthesis, which are
  floating-point statistics for display; phases and the clipping of samples; the transform (`fftooura`, vendored), of
  which `Decoder` has what it yields for the tones that are played; speaker modes, which
  scale the result. At sampling rates other than 44100 Hz the geometry differs; at one the constructor calls "not
  tested" the ring of frames has an odd number of slots.
* Of the application: the branch of `generateAudio()` that mixes marks into an input file
  and scales its level, the command line and the file formats.
* Mixer, loudness and `ebur128`: not used with the constants of the
  service (`UndertoneMain.cpp` 192, 204).
* Noise, and tokens of a message, that sound like start tokens (the decoder looks at the loudest tone only; in
  `token_decoder` each token has a sound of its own), and (in `token_decoder`) tones that are no pair of
  the table. The action for the latter is there (`lost`), but nothing is promised about it.

## 7. Plan

Every component that keeps state has its module. What was planned and is done: the write
side, which every other part of the library stands on; the connections of server and client
above it; the lifecycle around them; the codec of frame headers; the core, from
the alphabet to the API; and the service.

The theorems planned were, in this order: the scope runner; the send queue; the codec;
the lifecycle; the server connection, by the theorems of its queue; the client likewise; the
rings of the decoder; an abstract specification of what both connections promise to listeners
(`InStream`) and that they implement it; and that the decoder reads tokens at their place and
words right. All are done.

What is left: `MessagesFound` for every geometry in which it is true, which needs an invariant
on where the search is relative to the next start; and other sampling rates, where half of the ring is
not a token exactly and the fraction of a frame that accumulates has to be bounded.
