-------------------------- MODULE MultiToneDecoders --------------------------
(***************************************************************************)
(* The decoders of marks with two tones for each token, one for each mode: *)
(* DecoderAudibleMultiToneMode.cpp and its three copies.  Where a copy has *)
(* functions of Globals.cpp of its own, so has its section here.           *)
(***************************************************************************)
EXTENDS Decoder

\* Bug: the frames of the first token alone are counted.
BugStartTokens(d, t, tone1, tone2) ==
    Repetitions(d, t, FirstHalf, tone1, 1) >= HalfBlock - mnToleranceFrames

\* The start tokens have only the first of their two tones.  The second may be
\* heard behind something else, such as the echo of the first.
StartTokens(d, t, tone1, tone2) ==
    /\ Repetitions(d, t, FirstHalf, tone1, 1) >= HalfBlock - mnToleranceFrames
    /\ Repetitions(d, t, SecondHalf, tone2, 1) + Repetitions(d, t, SecondHalf, tone2, 2)
          >= HalfBlock - 2 * mnToleranceFrames

\* The two strongest tones of each frame of a token, whose tones are shifted as
\* the encoder did it for this token.
StrongestTones(d, t, offset) ==
    LET bins == d.mFreqsBins[t]
        shift == (d.mDecoding % 3) * offset
    IN SubSeq([i \in 1..HalfBlock |->
                  TwoLargest(Energies(d.mBlockSpecMag[Slot(d, t, i - 1)], bins, shift))],
              1, HalfBlock)

\* The tones that are among the two strongest most often.
MostRepeated(pairs) ==
    TwoLargest([n \in 1..numTonesAll |->
                   Cardinality({i \in DOMAIN pairs : pairs[i][1] = n - 1})
                 + Cardinality({i \in DOMAIN pairs : pairs[i][2] = n - 1})])

\* A word is handed out together with how much of it was right.
HandOutWord(d, repaired) ==
    [WordOf(d, repaired) EXCEPT !.d.correction = Unrepaired(d, repaired)]
HandOut(d) == HandOutWord(d, RS!Repaired(d.mDecodedValues))
-----------------------------------------------------------------------------
(***************************************************************************)
(* DecoderAudibleMultiToneMode.cpp.                                        *)
(***************************************************************************)
DecoderAudibleMultiTone ==
    NewDecoder("audible", << [i \in 1..numTonesAll |-> getToneFromIdxAudibleMultiTone(i - 1)] >>, 1,
               DECODING_MODE_AUDIBLE)

ComputeStatsStartTokensAudibleMultiTone(d, frame) == Energies(frame, d.mFreqsBins[1], 0)

ComputeStatsAudibleMultiTone(d) == StrongestTones(d, 1, nBinsOffsetForAudibleMultiTone)

AnalyzeStartTokensAudibleMultiTone(d, frame) ==
    LET Tone(n) == getIdxsFromIdxAudibleMultiTone(frontDoorTokens[n])[1]
        e == Advance(KeepStrongest(KeepSpectrum(d, frame), 1,
                                   ComputeStatsStartTokensAudibleMultiTone(d, frame)))
    IN SearchOn(e, 1, StartTokens(e, 1, Tone(1), Tone(2)))

AnalyzeTokenAudibleMultiTone(d, frame) ==
    LET e == Advance(KeepSpectrum(d, frame))
        max == MostRepeated(ComputeStatsAudibleMultiTone(e))
    IN IF TokenFilled(e, 1)
         THEN TokenRead(e, 1, getIdxTokenFromIdxsTonesAudibleMultiTone(max[1], max[2]))
         ELSE NoToken(e)

DecodeAudioBufferAudibleMultiTone(d, air, size) ==
    Decode(d, air, size, AnalyzeStartTokensAudibleMultiTone, AnalyzeTokenAudibleMultiTone)

GetDecodedDataAudibleMultiTone(d) == HandOut(d)
-----------------------------------------------------------------------------
(***************************************************************************)
(* DecoderNonAudibleMultiToneMode.cpp.                                     *)
(***************************************************************************)
DecoderNonAudibleMultiTone ==
    NewDecoder("nonaudible", << [i \in 1..numTonesAll |-> getToneFromIdxNonAudibleMultiTone(i - 1)] >>, 1,
               DECODING_MODE_NONAUDIBLE)

ComputeStatsStartTokensNonAudibleMultiTone(d, frame) == Energies(frame, d.mFreqsBins[1], 0)

ComputeStatsNonAudibleMultiTone(d) == StrongestTones(d, 1, nBinsOffsetForNonAudibleMultiTone)

AnalyzeStartTokensNonAudibleMultiTone(d, frame) ==
    LET Tone(n) == getIdxsFromIdxNonAudibleMultiTone(frontDoorTokens[n])[1]
        e == Advance(KeepStrongest(KeepSpectrum(d, frame), 1,
                                   ComputeStatsStartTokensNonAudibleMultiTone(d, frame)))
    IN SearchOn(e, 1, StartTokens(e, 1, Tone(1), Tone(2)))

AnalyzeTokenNonAudibleMultiTone(d, frame) ==
    LET e == Advance(KeepSpectrum(d, frame))
        max == MostRepeated(ComputeStatsNonAudibleMultiTone(e))
    IN IF TokenFilled(e, 1)
         THEN TokenRead(e, 1, getIdxTokenFromIdxsTonesNonAudibleMultiTone(max[1], max[2]))
         ELSE NoToken(e)

DecodeAudioBufferNonAudibleMultiTone(d, air, size) ==
    Decode(d, air, size, AnalyzeStartTokensNonAudibleMultiTone, AnalyzeTokenNonAudibleMultiTone)

GetDecodedDataNonAudibleMultiTone(d) == HandOut(d)
-----------------------------------------------------------------------------
(***************************************************************************)
(* DecoderCompressionMultiToneMode.cpp.                                    *)
(***************************************************************************)
DecoderCompressionMultiTone ==
    NewDecoder("compression", << [i \in 1..numTonesAll |-> getToneFromIdxCompressionMultiTone(i - 1)] >>, 1,
               DECODING_MODE_COMPRESSION)

ComputeStatsStartTokensCompressionMultiTone(d, frame) == Energies(frame, d.mFreqsBins[1], 0)

ComputeStatsCompressionMultiTone(d) == StrongestTones(d, 1, nBinsOffsetForCompressionMultiTone)

AnalyzeStartTokensCompressionMultiTone(d, frame) ==
    LET Tone(n) == getIdxsFromIdxCompressionMultiTone(frontDoorTokens[n])[1]
        e == Advance(KeepStrongest(KeepSpectrum(d, frame), 1,
                                   ComputeStatsStartTokensCompressionMultiTone(d, frame)))
    IN SearchOn(e, 1, StartTokens(e, 1, Tone(1), Tone(2)))

AnalyzeTokenCompressionMultiTone(d, frame) ==
    LET e == Advance(KeepSpectrum(d, frame))
        max == MostRepeated(ComputeStatsCompressionMultiTone(e))
    IN IF TokenFilled(e, 1)
         THEN TokenRead(e, 1, getIdxTokenFromIdxsTonesCompressionMultiTone(max[1], max[2]))
         ELSE NoToken(e)

DecodeAudioBufferCompressionMultiTone(d, air, size) ==
    Decode(d, air, size, AnalyzeStartTokensCompressionMultiTone, AnalyzeTokenCompressionMultiTone)

GetDecodedDataCompressionMultiTone(d) == HandOut(d)
-----------------------------------------------------------------------------
(***************************************************************************)
(* DecoderCustomMultiToneMode.cpp.  The tones are those of the settings    *)
(* when the decoder was made; their offset is that of the settings of now. *)
(***************************************************************************)
DecoderCustomMultiTone(g) ==
    NewDecoder("custom", << [i \in 1..numTonesAll |-> getToneFromIdxCustomMultiTone(g, i - 1)] >>, 1,
               DECODING_MODE_CUSTOM)

ComputeStatsStartTokensCustomMultiTone(d, frame) == Energies(frame, d.mFreqsBins[1], 0)

ComputeStatsCustomMultiTone(d, g) == StrongestTones(d, 1, g.offset)

AnalyzeStartTokensCustomMultiTone(d, frame) ==
    LET Tone(n) == getIdxsFromIdxCustomMultiTone(frontDoorTokens[n])[1]
        e == Advance(KeepStrongest(KeepSpectrum(d, frame), 1,
                                   ComputeStatsStartTokensCustomMultiTone(d, frame)))
    IN SearchOn(e, 1, StartTokens(e, 1, Tone(1), Tone(2)))

AnalyzeTokenCustomMultiTone(d, frame, g) ==
    LET e == Advance(KeepSpectrum(d, frame))
        max == MostRepeated(ComputeStatsCustomMultiTone(e, g))
    IN IF TokenFilled(e, 1)
         THEN TokenRead(e, 1, getIdxTokenFromIdxsTonesCustomMultiTone(max[1], max[2]))
         ELSE NoToken(e)

DecodeAudioBufferCustomMultiTone(d, air, size, g) ==
    LET Token(e, frame) == AnalyzeTokenCustomMultiTone(e, frame, g)
    IN Decode(d, air, size, AnalyzeStartTokensCustomMultiTone, Token)

GetDecodedDataCustomMultiTone(d) == HandOut(d)
===============================================================================
