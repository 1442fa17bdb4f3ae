------------------------------- MODULE Decoder -------------------------------
(***************************************************************************)
(* What the decoders of all modes have in common: Decoder.cpp, the parts   *)
(* of the classes Decoder...Mode which are copies of each other, and the   *)
(* air, in which a sound is heard.  What the decoders do with windows and  *)
(* rings in every order of calls is the subject of TokenDecoder; here the  *)
(* rings have the sizes of the code, and frames have spectra.              *)
(***************************************************************************)
EXTENDS Encoders

mWindowSize == 2048
mHopSize == 256
mSizeFrameCircularBuffer == 4 * mWindowSize
mSizeBlockCircularBuffer == 36      \* Frames of two tokens.
mnToleranceFrames == 1
HalfBlock == mSizeBlockCircularBuffer \div 2
-----------------------------------------------------------------------------
(***************************************************************************)
(* The air (external).  A sound begins at a sample; some of it may be      *)
(* drowned, token by token, so that other tones or none are heard; and the *)
(* room may return an echo, of so many per cent, half a token later.       *)
(***************************************************************************)
EchoDelay == samplesPerDigit \div 2

HeardAt(air, n) ==
    LET m == n - air.begin
        late == SoundAt(air.sound, m - EchoDelay)
    IN (IF m \div samplesPerDigit \in DOMAIN air.drowned
          THEN air.drowned[m \div samplesPerDigit]
          ELSE SoundAt(air.sound, m))
       \o (IF air.echo = 0 THEN << >>
           ELSE SubSeq([k \in DOMAIN late |-> << late[k][1], (late[k][2] * air.echo) \div 100 >>],
                       1, Len(late)))

\* doFFT(): the spectrum of a window, as the tones in it and their magnitudes.
\* The window function weighs three points of it.
Spectrum(air, first) ==
    LET Weighed(tones, weight) ==
            SubSeq([k \in DOMAIN tones |-> << tones[k][1], (weight * tones[k][2]) \div 10 >>],
                   1, Len(tones))
        Point(quarter) == HeardAt(air, first + quarter * (mWindowSize \div 4))
    IN Weighed(Point(1), 1) \o Weighed(Point(2), 2) \o Weighed(Point(3), 1)

\* A tone is seen in the bins next to its own as well, so that the sum of three
\* bins around a bin has some of the tones within two bins, and a trace of every
\* other tone, the less the further away it is.
Response(distance) ==
    CASE distance = 0 -> 102400
      [] distance \in {-1, 1} -> 76800
      [] distance \in {-2, 2} -> 25600
      [] distance > 2 -> mWindowSize \div 2 - distance
      [] distance < -2 -> mWindowSize \div 2 + distance

\* Globals::sum() of the bins around a bin.
ToneEnergy(frame, bin) ==
    LET sum[k \in 0..Len(frame)] ==
            IF k = 0 THEN 0 ELSE sum[k - 1] + frame[k][2] * Response(frame[k][1] - bin)
    IN sum[Len(frame)]

\* The energies of tones, of which that of the whole band, and the logarithm,
\* change neither order nor equality.
Energies(frame, bins, offset) ==
    SubSeq([i \in DOMAIN bins |-> ToneEnergy(frame, bins[i] + offset)], 1, Len(bins))

\* The two largest of them, as numbers from 0 on.
TwoLargest(energies) == << maxValueIdx(energies) - 1, secondValueIdx(energies) - 1 >>
-----------------------------------------------------------------------------
(***************************************************************************)
(* A decoder is a record.  Slot s of a ring is its element s + 1.  A mode  *)
(* that is searched for is a number from 1 on: all decoders but one have   *)
(* only mode 1.                                                            *)
(***************************************************************************)
NewDecoder(class, bins, modes, mode) ==
    LET Ring(x) == SubSeq([s \in 1..mSizeBlockCircularBuffer |-> x], 1, mSizeBlockCircularBuffer)
    IN [class |-> class,
        mFreqsBins |-> bins,        \* Of each mode.
        mDecoding |-> 0,
        mDecodingMode |-> mode,
        mDecodedValues |-> << >>,
        written |-> 0,              \* Samples that were handed over,
        read |-> 0,                 \* and where the next window begins.
        mBlockSpecMag |-> Ring(<< >>),
        attenuated |-> Ring({}),    \* Tones which DeReverbToken() made quieter.
        strongest |-> [t \in 1..modes |-> Ring(<< -1, -1 >>)],
                                    \* mBlockEnergyRatiosTokenIdx and ...Idx2
        mReadPos |-> [t \in 1..modes |-> 0],
        mWritePos |-> 0,
        mEndStartTokenPos |-> 0,
        mAccumulatedDecodingFrames |-> 0,
        correction |-> 12]          \* mConfidenceCorrection, in twelfths.

\* getSizeFilledFrameCircularBuffer(), getSizeFilledBlockCircularBuffer()
SizeFilledFrame(d) == (d.written - d.read) % mSizeFrameCircularBuffer
SizeFilledBlock(d, t) == (d.mWritePos - d.mReadPos[t]) % mSizeBlockCircularBuffer

Following(pos) == (pos + 1) % mSizeBlockCircularBuffer
Slot(d, t, i) == ((d.mReadPos[t] + i) % mSizeBlockCircularBuffer) + 1

\* A frame's spectrum enters the ring.
KeepSpectrum(d, frame) ==
    [d EXCEPT !.mBlockSpecMag[d.mWritePos + 1] = frame, !.attenuated[d.mWritePos + 1] = {}]
KeepStrongest(d, t, energies) ==
    [d EXCEPT !.strongest[t][d.mWritePos + 1] = TwoLargest(energies)]
Advance(d) == [d EXCEPT !.mWritePos = Following(@)]

\* In how many frames of the first or of the second token of the ring, from the
\* read position on, a tone is the strongest one, or the second one.
Repetitions(d, t, half, tone, place) ==
    Cardinality({i \in half : d.strongest[t][Slot(d, t, i)][place] = tone})
FirstHalf == 0..HalfBlock - 1
SecondHalf == HalfBlock..mSizeBlockCircularBuffer - 1

\* The search for the start tokens goes on when a frame was added.  found says
\* whether the ring has them, which matters only when it is filled.
SearchOn(d, t, found) ==
    CASE SizeFilledBlock(d, t) < mSizeBlockCircularBuffer - 1 -> [found |-> FALSE, d |-> d]
      [] SizeFilledBlock(d, t) >= mSizeBlockCircularBuffer - 1 /\ found ->
            [found |-> TRUE,
             d |-> [d EXCEPT !.mReadPos[t] = d.mWritePos, !.mEndStartTokenPos = d.mWritePos,
                             !.mAccumulatedDecodingFrames = 0]]
      [] OTHER -> [found |-> FALSE, d |-> [d EXCEPT !.mReadPos[t] = Following(@)]]

\* A token is read when half of the ring is filled, and then the next one is
\* expected half a ring later.
TokenFilled(d, t) == SizeFilledBlock(d, t) >= HalfBlock
TokenRead(d, t, token) ==
    LET frames == d.mAccumulatedDecodingFrames + HalfBlock
    IN [token |-> token,
        d |-> [d EXCEPT !.mAccumulatedDecodingFrames = frames,
                        !.mReadPos[t] = (d.mEndStartTokenPos + frames) % mSizeBlockCircularBuffer]]
NoToken(d) == [token |-> -1, d |-> d]

\* DecodeAudioBuffer(): size samples enter the ring, and windows are analysed
\* until there is something to report, or no window is left.  Search and Token
\* are the AnalyzeStartTokens() and AnalyzeToken() of the class.  A search
\* finds mode number found - 1, and the mode becomes the decoder's if it
\* decodes several.
StartFound == -2
WordComplete == -3
Decode(decoder, air, size, Search(_, _), Token(_, _)) ==
    LET Event(d, r) == [d |-> d, result |-> r]
        Analyze(d, frame) ==
            CASE d.mDecoding = 0 ->
                    LET s == Search(d, frame)
                    IN IF s.found
                         THEN Event([s.d EXCEPT !.mDecoding = 1,
                                                !.mDecodedValues = @ \o frontDoorTokens], StartFound)
                         ELSE Event(s.d, -1)
              [] d.mDecoding \in 1..numMessageTokens ->
                    LET s == Token(d, frame)
                    IN IF s.token >= 0
                         THEN Event([s.d EXCEPT !.mDecoding = @ + 1,
                                                !.mDecodedValues = Append(@, s.token)], s.token)
                         ELSE Event(s.d, -1)
              [] OTHER -> Event([d EXCEPT !.mDecoding = 0], WordComplete)
        \* After so many windows.
        loop[n \in 0..mSizeFrameCircularBuffer \div mHopSize] ==
            IF n = 0
              THEN Event([decoder EXCEPT !.written = @ + size], -1)
              ELSE LET last == loop[n - 1]
                   IN IF last.result # -1 \/ SizeFilledFrame(last.d) < mWindowSize
                        THEN last
                        ELSE Analyze([last.d EXCEPT !.read = @ + mHopSize],
                                     Spectrum(air, last.d.read))
    IN loop[mSizeFrameCircularBuffer \div mHopSize]

\* GetDecodedData(): the word of the repaired tokens, if its check token is
\* right.  Its length is returned, and negative if it is not.
WordOf(d, repaired) ==
    LET user == SubSeq(repaired, numFrontDoorTokens + 1, numFrontDoorTokens + numWordTokens)
        messageOk == FoldLeft(+, 0, user) % numTokensAll = repaired[numFrontDoorTokens + numWordTokens + 1]
    IN [result |-> IF messageOk THEN numWordTokens ELSE -numWordTokens,
        word |-> SubSeq([n \in DOMAIN user |-> getCharFromIdx(user[n])], 1, numWordTokens),
        d |-> [d EXCEPT !.mDecodedValues = << >>]]
WordReceived(d) == WordOf(d, RS!Repaired(d.mDecodedValues))

\* How many of the tokens that are no correction needed none.
Unrepaired(d, repaired) ==
    Cardinality({n \in DOMAIN repaired : repaired[n] = d.mDecodedValues[n]})
===============================================================================
