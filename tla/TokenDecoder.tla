----------------------------- MODULE TokenDecoder -----------------------------
(***************************************************************************)
(* The decoder of inaudible marks: Decoder.cpp and                         *)
(* DecoderNonAudibleMultiToneMode.cpp.                                     *)
(*                                                                         *)
(* The host hands over blocks of samples.  DecodeAudioBuffer() puts them   *)
(* into a ring, takes windows out of it which overlap, and looks at each:  *)
(* first for the two start tokens, then for the tokens of the message.     *)
(* Both searches work on a second ring, whose slots are frames, one for    *)
(* each window.  A call returns at the first event, and what is left in    *)
(* the ring of samples waits for the next call.                            *)
(*                                                                         *)
(* A sample is its number, and a frame is the token heard in it: which one *)
(* that is follows from what the sender plays at the samples of the window *)
(* (Hears).  The sender plays the messages 1, 2, ... and every token of    *)
(* every message is a token of its own, so that a token that is read too   *)
(* early, too late or twice shows.                                         *)
(***************************************************************************)
EXTENDS Integers, Sequences, FiniteSets

CONSTANTS
    Window,             \* mWindowSize, in samples.
    Hop,                \* mHopSize
    B,                  \* mSizeBlockCircularBuffer: the frames of two tokens.
    Tolerance,          \* mnToleranceFrames
    NumMessageTokens,   \* Globals::numMessageTokens
    Blocks,             \* Sizes of the host's blocks.
    TokenSamples,       \* Samples the sender plays of each token.
    Begins,             \* At which samples the first message may begin.
    Gaps,               \* Silent samples there may be between two messages.
    Messages,           \* Bound: how many messages are sent.
    Faint,              \* Values of faint, up to half of a window.
    Bursts,             \* How many frames a burst of noise may drown.
    LastBurst           \* Bound: the last frame at which noise may begin.

Size == 4 * Window      \* mSizeFrameCircularBuffer

ASSUME DecoderAssumption ==
    /\ Window \in Nat \ {0} /\ Hop \in 1..Window
    /\ B \in Nat \ {0, 1} /\ Tolerance \in Nat
    /\ NumMessageTokens \in Nat \ {0}
    /\ Blocks \subseteq 1..Size
    /\ TokenSamples \in Nat \ {0}
    /\ Begins \subseteq Nat /\ Gaps \subseteq Nat
    /\ Messages \in Nat /\ Faint \subseteq 1..Window \div 2
    /\ Bursts \subseteq Nat /\ LastBurst \in Nat

VARIABLES
    begin, gap, block,  \* What sender and host do in this behavior.
    burst,              \* The frames that are drowned in noise.
    faint,              \* Samples of a window a token needs to be heard.
    samples,            \* mCircularBufferFloat: slots with sample numbers.
    readFrame,          \* mReadPosInFrameCircularBuffer
    writeFrame,         \* mWritePosInFrameCircularBuffer
    analBuffer,         \* mAnalBufferFloat
    strongest,          \* mBlockEnergyRatiosTokenIdx and ...TokenIdx2
    spectrum,           \* mBlockSpecMag: the token that is heard.
    readBlock,          \* mReadPosInBlockCircularBuffer
    writeBlock,         \* mWritePosInBlockCircularBuffer
    endStart,           \* mEndStartTokenPosInBlockCircularBuffer
    accumulated,        \* mAccumulatedDecodingFrames, in halves of a frame.
    decoding,           \* mDecoding
    values,             \* mDecodedValues
    pc,                 \* "host", or "loop" inside of DecodeAudioBuffer().
    result,             \* What the last call returned.
    words,              \* What GetDecodedData() has returned so far.
    written,            \* How many samples were handed over.
    frames,             \* How many windows were analysed.
    lost                \* How many tokens were not recognised.

sender == << begin, gap, block, burst, faint >>
sampleRing == << samples, readFrame, writeFrame, analBuffer >>
frameRing == << strongest, spectrum, readBlock, writeBlock, endStart, accumulated >>
vars == << sender, sampleRing, frameRing, decoding, values, pc, result, words,
           written, frames, lost >>

-----------------------------------------------------------------------------
(***************************************************************************)
(* The sender.                                                             *)
(***************************************************************************)
Silence == 0
Garbled == -2   \* A token that nobody sent.
Unknown == -1   \* No token: two tones which are no pair of the table.
TokensSent == NumMessageTokens + 2

\* The k-th token of the m-th message; the first two are the start tokens.
Token(m, k) == (m - 1) * TokensSent + k
Place(token) == ((token - 1) % TokensSent) + 1
FirstStart(token) == token # Silence /\ Place(token) = 1
SecondStart(token) == token # Silence /\ Place(token) = 2

\* The first sample of the m-th message.
BeginOf(m) == begin + (m - 1) * (TokensSent * TokenSamples + gap)
EndOf(m) == BeginOf(m) + TokensSent * TokenSamples

Sound(n) ==
    LET after == n - begin
        m == after \div (TokensSent * TokenSamples + gap) + 1
        k == (n - BeginOf(m)) \div TokenSamples + 1
    IN IF n < begin \/ m > Messages \/ k > TokensSent
         THEN Silence
         ELSE Token(m, k)

\* What may be heard in a window: its loudest token and the next one, if they
\* are not too faint.  Nothing is recognised under noise.
Hears(window) ==
    LET sounds == {<< i, Sound(window[i]) >> : i \in DOMAIN window}
        Loudness(t) == Cardinality({x \in sounds : x[2] = t})
        Played == {t \in {x[2] : x \in sounds} : t # Silence /\ Loudness(t) >= faint}
        Loudest == {t \in Played : \A u \in Played : Loudness(t) >= Loudness(u)}
        Second(t) == IF Played = {t} THEN Silence ELSE CHOOSE u \in Played : u # t
    IN IF frames \in burst \/ Played = {}
         THEN {<< Silence, Silence >>}
         ELSE {<< t, Second(t) >> : t \in Loudest}

-----------------------------------------------------------------------------
\* getSizeFilledFrameCircularBuffer() and getSizeFilledBlockCircularBuffer()
SizeFilled(read, write, size) ==
    IF write >= read THEN write - read ELSE write + (size - read)

NoTokens == [i \in 0..B-1 |-> << Silence, Silence >>]

Init ==
    /\ begin \in Begins /\ gap \in Gaps /\ block \in Blocks /\ faint \in Faint
    /\ \E first \in 0..LastBurst, length \in Bursts : burst = first..(first + length - 1)
    /\ samples = [i \in 0..Size-1 |-> -1]
    /\ readFrame = 0 /\ writeFrame = 0
    /\ analBuffer = << >>
    /\ strongest = NoTokens
    /\ spectrum = [i \in 0..B-1 |-> Silence]
    /\ readBlock = 0 /\ writeBlock = 0 /\ endStart = 0 /\ accumulated = 0
    /\ decoding = 0 /\ values = << >>
    /\ pc = "host" /\ result = "none" /\ words = << >>
    /\ written = 0 /\ frames = 0 /\ lost = 0

\* DecodeAudioBuffer() begins: the samples of the block enter the ring.
\* The host fetches a complete word before it hands over more.
DecodeAudioBuffer ==
    /\ pc = "host"
    /\ result # "word"
    /\ written < EndOf(Messages) + 2 * Window
    /\ samples' = [i \in 0..Size-1 |->
                     LET offset == (i - writeFrame) % Size
                     IN IF offset < block THEN written + offset ELSE samples[i]]
    /\ writeFrame' = (block + writeFrame) % Size
    /\ written' = written + block
    /\ pc' = "loop"
    /\ UNCHANGED << sender, readFrame, analBuffer, frameRing, decoding, values,
                    result, words, frames, lost >>

\* Bug: the window is copied after the read position was advanced.
BugLateCopy == [i \in 0..Window-1 |-> samples[(i + readFrame + Hop) % Size]]

\* The window that an iteration of the loop looks at.
NextWindow == [i \in 0..Window-1 |-> samples[(i + readFrame) % Size]]

TakeWindow ==
    /\ pc = "loop"
    /\ SizeFilled(readFrame, writeFrame, Size) >= Window
    /\ analBuffer' = NextWindow
    /\ readFrame' = (readFrame + Hop) % Size
    /\ frames' = frames + 1
    /\ UNCHANGED << sender, samples, writeFrame, written, words >>

Return(r) == pc' = "host" /\ result' = r
GoOn == pc' = "loop" /\ UNCHANGED result

\* Bug: the write position runs out of the ring.
BugNoWrap(heard) ==
    /\ spectrum' = [spectrum EXCEPT ![writeBlock] = heard[1]]
    /\ writeBlock' = writeBlock + 1

\* doFFT(): the frame's spectrum enters the ring of frames.
WriteFrame(heard) ==
    /\ spectrum' = [spectrum EXCEPT ![writeBlock] = heard[1]]
    /\ writeBlock' = (writeBlock + 1) % B

\* Half of the ring: its first or its second token from the read position on.
FirstHalf == {(readBlock + i) % B : i \in 0..(B \div 2 - 1)}
SecondHalf == {(readBlock + i) % B : i \in (B \div 2)..(B - 1)}

\* The frames in which start tokens are heard.
FirstTokenRepetitions(ring) == Cardinality({i \in FirstHalf : FirstStart(ring[i][1])})
SecondTokenRepetitions(ring) ==
    Cardinality({i \in SecondHalf : SecondStart(ring[i][1]) \/ SecondStart(ring[i][2])})

\* Bug: every frame of the first start token has to match.
BugStrict(ring) ==
    /\ FirstTokenRepetitions(ring) >= B \div 2
    /\ SecondTokenRepetitions(ring) >= B \div 2 - 2 * Tolerance

\* Both start tokens are in the ring.  The last of its slots takes part in
\* the count, although the write position is there.
StartFound(ring) ==
    /\ FirstTokenRepetitions(ring) >= B \div 2 - Tolerance
    /\ SecondTokenRepetitions(ring) >= B \div 2 - 2 * Tolerance

\* Bug: the tokens are expected where the search for the start began.
BugBeginsAtRead == UNCHANGED readBlock /\ endStart' = readBlock /\ accumulated' = 0

\* The tokens follow in the next frames.
BeginTokens == readBlock' = writeBlock' /\ endStart' = writeBlock' /\ accumulated' = 0

\* mDecoding = 0: AnalyzeStartTokens() looks for the start of a message.
\* One frame more fills the ring to B - 1 frames at most, so that its loop
\* runs once.
SearchStart ==
    /\ decoding = 0
    /\ TakeWindow
    /\ \E heard \in Hears(NextWindow) :
          /\ WriteFrame(heard)
          /\ strongest' = [strongest EXCEPT ![writeBlock] = heard]
    /\ \/ /\ SizeFilled(readBlock, writeBlock', B) < B - 1
          /\ GoOn
          /\ UNCHANGED << readBlock, endStart, accumulated, decoding, values >>
       \/ /\ SizeFilled(readBlock, writeBlock', B) >= B - 1
          /\ StartFound(strongest')
          /\ BeginTokens
          /\ decoding' = 1
          /\ values' = values \o << "start1", "start2" >>
          /\ Return("start")
       \/ /\ SizeFilled(readBlock, writeBlock', B) >= B - 1
          /\ ~StartFound(strongest')
          /\ readBlock' = (readBlock + 1) % B
          /\ GoOn
          /\ UNCHANGED << endStart, accumulated, decoding, values >>
    /\ UNCHANGED lost

\* What AnalyzeToken() may make of half a ring: the token of most frames.
\* Noise may have any tones, so that the result is certain only if noise
\* cannot outweigh it; otherwise it is any token, or none (-1).
TokensRead(ring) ==
    LET Heard(t) == Cardinality({i \in FirstHalf : ring[i] = t})
        Tokens == {ring[i] : i \in FirstHalf} \ {Silence}
        Certain == {t \in Tokens : \A u \in (Tokens \ {t}) \union {Silence} :
                        Heard(t) > Heard(Silence) + (IF u = Silence THEN 0 ELSE Heard(u))}
        Equal == {t \in Tokens : \A u \in Tokens : Heard(t) >= Heard(u)}
    IN IF Certain # {} THEN Certain
       ELSE IF Heard(Silence) = 0 THEN Equal
       ELSE Tokens \union {Garbled, Unknown}

\* mDecoding in 1..numMessageTokens: AnalyzeToken() collects frames and reads
\* a token when half of the ring is filled.  A token which is not in the
\* table is dropped, and the next frames count as the same token.
ReadToken ==
    /\ decoding \in 1..NumMessageTokens
    /\ TakeWindow
    /\ \E heard \in Hears(NextWindow) : WriteFrame(heard)
    /\ \/ /\ SizeFilled(readBlock, writeBlock', B) < B \div 2
          /\ GoOn
          /\ UNCHANGED << readBlock, accumulated, decoding, values, lost >>
       \/ /\ SizeFilled(readBlock, writeBlock', B) >= B \div 2
          /\ accumulated' = accumulated + B
          /\ readBlock' = (endStart + (accumulated' + 1) \div 2) % B
          /\ \/ /\ Unknown \in TokensRead(spectrum')
                /\ GoOn
                /\ lost' = lost + 1
                /\ UNCHANGED << decoding, values >>
             \/ /\ \E token \in TokensRead(spectrum') \ {Unknown} :
                      values' = Append(values, token)
                /\ decoding' = decoding + 1
                /\ Return("token")
                /\ UNCHANGED lost
    /\ UNCHANGED << strongest, endStart >>

\* mDecoding is above numMessageTokens: the word is complete, and the window
\* is not analysed.
FinishWord ==
    /\ decoding > NumMessageTokens
    /\ TakeWindow
    /\ decoding' = 0
    /\ Return("word")
    /\ UNCHANGED << frameRing, values, lost >>

\* The samples do not fill a window.
NoWindow ==
    /\ pc = "loop"
    /\ SizeFilled(readFrame, writeFrame, Size) < Window
    /\ Return("none")
    /\ UNCHANGED << sender, sampleRing, frameRing, decoding, values, words,
                    written, frames, lost >>

HandOut ==
    /\ pc = "host"
    /\ result = "word"
    /\ words' = Append(words, values)
    /\ result' = "none"
    /\ UNCHANGED << sender, sampleRing, frameRing, decoding, pc, written, frames, lost >>

\* Bug: the tokens stay for the next transmission.
BugKeepsValues == HandOut /\ UNCHANGED values

\* GetDecodedData() hands the word out and forgets it.
GetDecodedData == HandOut /\ values' = << >>

Next ==
    \/ DecodeAudioBuffer
    \/ SearchStart
    \/ ReadToken
    \/ FinishWord
    \/ NoWindow
    \/ GetDecodedData

Spec == Init /\ [][Next]_vars

-----------------------------------------------------------------------------
\* The variables have their types, and positions stay inside of the rings.
TypeOK ==
    /\ samples \in [0..Size-1 -> -1..written]
    /\ {readFrame, writeFrame} \subseteq 0..Size-1
    /\ strongest \in [0..B-1 -> (0..Token(Messages, TokensSent)) \X (0..Token(Messages, TokensSent))]
    /\ spectrum \in [0..B-1 -> 0..Token(Messages, TokensSent)]
    /\ {readBlock, writeBlock, endStart} \subseteq 0..B-1
    /\ accumulated \in Nat
    /\ decoding \in 0..NumMessageTokens + 1
    /\ pc \in {"host", "loop"}
    /\ result \in {"none", "start", "token", "word"}

\* Windows are taken from the ring without a gap, an overlap or a sample that
\* was overwritten, although calls return early and leave samples behind.
WindowsInOrder ==
    frames > 0 => \A i \in 0..Window-1 : analBuffer[i] = (frames - 1) * Hop + i

\* The frames a token is read from are near the place of that token in a
\* message that was sent, less than half a token away, so that most of them are
\* the token's own.  This holds also for a message behind another one and under
\* noise, unless a token was not recognised at all.
TokensAligned ==
    decoding \in 1..NumMessageTokens /\ lost = 0 =>
        LET first == frames - SizeFilled(readBlock, writeBlock, B)
            middle == first * Hop + Window \div 2
        IN \E m \in 1..Messages :
              LET tokenBegin == BeginOf(m) + (decoding + 1) * TokenSamples
              IN /\ 2 * (tokenBegin - middle) < TokenSamples
                 /\ 2 * (middle - tokenBegin) < TokenSamples

\* Noise reaches the k-th token of the m-th message.
Disturbed(m, k) ==
    \E f \in burst :
        /\ f * Hop + Window > BeginOf(m) + (k - 1) * TokenSamples
        /\ f * Hop < BeginOf(m) + k * TokenSamples

\* Unless a token was not recognised at all, a word has the tokens of one
\* message, each in its place, and a wrong one only where there was noise: no
\* token is read twice, skipped, or left over from another message.
WordsRight ==
    lost = 0 =>
        \A i \in 1..Len(words) :
            /\ Len(words[i]) = TokensSent
            /\ \E m \in 1..Messages : \A k \in 3..TokensSent :
                  words[i][k] = Token(m, k) \/ Disturbed(m, k)

\* A message whose start tokens are not disturbed is decoded by the time its
\* last samples were analysed.
MessagesFound ==
    \A m \in 1..Messages :
        /\ lost = 0
        /\ ~Disturbed(m, 1) /\ ~Disturbed(m, 2)
        /\ pc = "host" /\ result = "none"
        /\ frames * Hop >= EndOf(m) + Window
        => \E i \in 1..Len(words) : \A k \in 3..TokensSent :
               words[i][k] = Token(m, k) \/ Disturbed(m, k)
=============================================================================
