------------------------- MODULE AllMultiToneDecoder -------------------------
(***************************************************************************)
(* The decoder that finds out the mode: DecoderAllMultiToneMode.cpp.  It   *)
(* searches for the start tokens of three modes at a time, each with a     *)
(* read position of its own but all with one write position, and reads the *)
(* message in the mode of which it found them.                             *)
(***************************************************************************)
EXTENDS MultiToneDecoders

NUM_SIMULTANEOUS_DECODING_MODES == 3

\* A mode of the code, from 0 on, has the number of its place here.
Number(mode) == mode + 1

getIdxsFromIdx(mode, idx) ==
    CASE mode = DECODING_MODE_AUDIBLE -> getIdxsFromIdxAudibleMultiTone(idx)
      [] mode = DECODING_MODE_NONAUDIBLE -> getIdxsFromIdxNonAudibleMultiTone(idx)
      [] mode = DECODING_MODE_COMPRESSION -> getIdxsFromIdxCompressionMultiTone(idx)

DecoderAllMultiTone ==
    LET Tone(mode, i) ==
            CASE mode = DECODING_MODE_AUDIBLE -> getToneFromIdxAudibleMultiTone(i)
              [] mode = DECODING_MODE_NONAUDIBLE -> getToneFromIdxNonAudibleMultiTone(i)
              [] mode = DECODING_MODE_COMPRESSION -> getToneFromIdxCompressionMultiTone(i)
    IN NewDecoder("all", [t \in 1..NUM_SIMULTANEOUS_DECODING_MODES |->
                             [i \in 1..numTonesAll |-> Tone(t - 1, i - 1)]],
                  NUM_SIMULTANEOUS_DECODING_MODES, -1)

ComputeStatsStartTokensAll(d, frame, mode) == Energies(frame, d.mFreqsBins[Number(mode)], 0)

\* Bug: one offset for all modes, as the custom encoder has it.
BugComputeStatsAll(d, mode) == StrongestTones(d, Number(mode), nBinsOffsetForNonAudibleMultiTone)

ComputeStatsAll(d, mode) ==
    StrongestTones(d, Number(mode),
                   CASE mode = DECODING_MODE_NONAUDIBLE -> nBinsOffsetForNonAudibleMultiTone
                     [] mode = DECODING_MODE_AUDIBLE -> nBinsOffsetForAudibleMultiTone
                     [] mode = DECODING_MODE_COMPRESSION -> nBinsOffsetForCompressionMultiTone)

\* One mode after the other.  The write position moves on within the first of
\* them, so that the others keep their tones one slot further than the first,
\* and a mode behind the one that is found is not looked at.
AnalyzeStartTokensAll(d, frame) ==
    LET Tone(mode, n) == getIdxsFromIdx(mode, frontDoorTokens[n])[1]
        Mode(e, mode) ==
            LET t == Number(mode)
                kept == KeepStrongest(e, t, ComputeStatsStartTokensAll(e, frame, mode))
                f == IF mode = 0 THEN Advance(kept) ELSE kept
            IN SearchOn(f, t, StartTokens(f, t, Tone(mode, 1), Tone(mode, 2)))
        after[mode \in -1..NUM_SIMULTANEOUS_DECODING_MODES - 1] ==
            IF mode = -1
              THEN [found |-> FALSE, d |-> KeepSpectrum(d, frame)]
              ELSE LET before == after[mode - 1]
                       now == Mode(before.d, mode)
                   IN IF before.found THEN before
                      ELSE IF now.found THEN [now EXCEPT !.d = [now.d EXCEPT !.mDecodingMode = mode]]
                      ELSE now
    IN after[NUM_SIMULTANEOUS_DECODING_MODES - 1]

AnalyzeTokenAll(d, frame) ==
    LET mode == d.mDecodingMode
        e == Advance(KeepSpectrum(d, frame))
        max == MostRepeated(ComputeStatsAll(e, mode))
        token ==
            CASE mode = DECODING_MODE_NONAUDIBLE ->
                    getIdxTokenFromIdxsTonesNonAudibleMultiTone(max[1], max[2])
              [] mode = DECODING_MODE_AUDIBLE ->
                    getIdxTokenFromIdxsTonesAudibleMultiTone(max[1], max[2])
              [] mode = DECODING_MODE_COMPRESSION ->
                    getIdxTokenFromIdxsTonesCompressionMultiTone(max[1], max[2])
    IN IF TokenFilled(e, Number(mode)) THEN TokenRead(e, Number(mode), token) ELSE NoToken(e)

DecodeAudioBufferAll(d, air, size) ==
    Decode(d, air, size, AnalyzeStartTokensAll, AnalyzeTokenAll)

GetDecodedDataAll(d) == HandOut(d)
===============================================================================
