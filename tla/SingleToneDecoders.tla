-------------------------- MODULE SingleToneDecoders --------------------------
(***************************************************************************)
(* The old decoders, of marks with one tone for each token:                *)
(* DecoderAudibleMode.cpp and DecoderNonAudibleMode.cpp.  All tokens have  *)
(* their tones in the same place, and a token of before may still be heard *)
(* when the next one is played.  So these decoders listen less closely to  *)
(* the tones they heard last, and to those which only fade away.           *)
(***************************************************************************)
EXTENDS Decoder

nToleranceFrames == 2       \* 10 per cent of the frames of a token
nFramesReverb == 9          \* 50 per cent
reverbFrames == 2           \* 10 per cent

\* Frames of the second start token may have the first one as their strongest.
StartTokensHeard(d) ==
    LET second(place) == Repetitions(d, 1, SecondHalf, frontDoorTokens[2], place)
    IN /\ Repetitions(d, 1, FirstHalf, frontDoorTokens[1], 1) >= HalfBlock - nToleranceFrames
       /\ \/ second(1) >= HalfBlock - (nToleranceFrames + nFramesReverb)
          \/ second(1) + second(2) >= HalfBlock - nToleranceFrames

\* ComputeBlockMagSpecSumsCurrentToken() and ...LastToken(): the sum of a tone
\* in the frames of this token, or in those of the last one, which come next in
\* the ring.  The caller gives the number of bins of the whole band where a bin
\* is expected, so that the tones from that bin on have no sum.
Sum(d, frames, i, width) ==
    LET bins == d.mFreqsBins[1]
        nbins == bins[Len(bins)] - bins[1] + 1
        Magnitude(s) ==
            ToneEnergy(d.mBlockSpecMag[s], bins[i]) \div (IF i \in d.attenuated[s] THEN 20000 ELSE 1000)
    IN IF bins[i] - width >= nbins THEN 0
       ELSE MapThenSumSet(LAMBDA n : Magnitude(Slot(d, 1, n)), frames)

\* A tone that is clearly weaker than before and becomes weaker still is an
\* echo of the token before.
Reverb(d, i, width) ==
    LET first == 0..1
        last == HalfBlock - 2..HalfBlock - 1
    IN /\ 1000 * (Sum(d, FirstHalf, i, width) \div HalfBlock)
             < 794 * (Sum(d, SecondHalf, i, width) \div HalfBlock)
       /\ Sum(d, first, i, width) > Sum(d, last, i, width)

Attenuated(d, width) ==
    LET echoes == {i \in 1..numTokensAll : Reverb(d, i, width)}
        current == {Slot(d, 1, n) : n \in FirstHalf}
    IN [d EXCEPT !.attenuated =
           SubSeq([s \in DOMAIN @ |-> IF s \in current THEN d.attenuated[s] \union echoes ELSE @[s]],
                  1, mSizeBlockCircularBuffer)]

\* The strongest tone of each frame of a token.  The three tokens that were
\* read last count less, the more so the later they were read.
StrongestTone(d) ==
    LET bins == d.mFreqsBins[1]
        values == d.mDecodedValues
        Less(i, back, tenths) ==
            IF Len(values) >= back /\ values[Len(values) + 1 - back] = i - 1 THEN tenths ELSE 10
        weight == SubSeq([i \in DOMAIN bins |-> (Less(i, 1, 2) * Less(i, 2, 4) * Less(i, 3, 7)) \div 10],
                         1, Len(bins))
        Energy(s, i) ==
            ((ToneEnergy(d.mBlockSpecMag[s], bins[i]) \div 100) * weight[i])
                \div (IF i \in d.attenuated[s] THEN 20 ELSE 1)
    IN SubSeq([n \in 1..HalfBlock |->
                  LET s == Slot(d, 1, n - 1)
                  IN maxValueIdx(SubSeq([i \in DOMAIN bins |-> Energy(s, i)], 1, Len(bins))) - 1],
              1, HalfBlock)

\* The token of most frames, without the first ones, which are left in the ring.
TokenHeard(d, tones) ==
    LET kept == [d EXCEPT !.strongest[1] =
                    SubSeq([s \in DOMAIN @ |->
                        IF \E n \in FirstHalf : Slot(d, 1, n) = s
                          THEN << tones[(CHOOSE n \in FirstHalf : Slot(d, 1, n) = s) + 1], @[s][2] >>
                          ELSE @[s]], 1, mSizeBlockCircularBuffer)]
        repetitions == [token \in 1..numTokensAll |->
                           Cardinality({n \in reverbFrames + 1..HalfBlock : tones[n] = token - 1})]
    IN TokenRead(kept, 1, maxValueIdx(repetitions) - 1)
-----------------------------------------------------------------------------
(***************************************************************************)
(* DecoderAudibleMode.cpp.                                                 *)
(***************************************************************************)
DecoderAudible ==
    NewDecoder("audible old", << [i \in 1..numTokensAll |-> getFreqFromIdxAudible(i - 1)] >>, 1,
               DECODING_MODE_AUDIBLE)

ComputeStatsStartTokensAudible(d, frame) == Energies(frame, d.mFreqsBins[1], 0)

DeReverbTokenAudible(d) == Attenuated(d, 2)

ComputeStatsAudible(d) == StrongestTone(d)

AnalyzeStartTokensAudible(d, frame) ==
    LET e == Advance(KeepStrongest(KeepSpectrum(d, frame), 1, ComputeStatsStartTokensAudible(d, frame)))
    IN SearchOn(e, 1, StartTokensHeard(e))

AnalyzeTokenAudible(d, frame) ==
    LET e == Advance(KeepSpectrum(d, frame))
        clear == DeReverbTokenAudible(e)
    IN IF TokenFilled(e, 1) THEN TokenHeard(clear, ComputeStatsAudible(clear)) ELSE NoToken(e)

DecodeAudioBufferAudible(d, air, size) ==
    Decode(d, air, size, AnalyzeStartTokensAudible, AnalyzeTokenAudible)

GetDecodedDataAudible(d) == WordReceived(d)
-----------------------------------------------------------------------------
(***************************************************************************)
(* DecoderNonAudibleMode.cpp.                                              *)
(***************************************************************************)
DecoderNonAudible ==
    NewDecoder("nonaudible old", << [i \in 1..numTokensAll |-> getFreqFromIdxNonAudible(i - 1)] >>, 1,
               DECODING_MODE_NONAUDIBLE)

ComputeStatsStartTokensNonAudible(d, frame) == Energies(frame, d.mFreqsBins[1], 0)

DeReverbTokenNonAudible(d) == Attenuated(d, 1)

ComputeStatsNonAudible(d) == StrongestTone(d)

AnalyzeStartTokensNonAudible(d, frame) ==
    LET e == Advance(KeepStrongest(KeepSpectrum(d, frame), 1, ComputeStatsStartTokensNonAudible(d, frame)))
    IN SearchOn(e, 1, StartTokensHeard(e))

AnalyzeTokenNonAudible(d, frame) ==
    LET e == Advance(KeepSpectrum(d, frame))
        clear == DeReverbTokenNonAudible(e)
    IN IF TokenFilled(e, 1) THEN TokenHeard(clear, ComputeStatsNonAudible(clear)) ELSE NoToken(e)

DecodeAudioBufferNonAudible(d, air, size) ==
    Decode(d, air, size, AnalyzeStartTokensNonAudible, AnalyzeTokenNonAudible)

GetDecodedDataNonAudible(d) == WordReceived(d)
===============================================================================
