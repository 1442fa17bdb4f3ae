-------------------------------- MODULE Tones --------------------------------
(***************************************************************************)
(* The alphabet of the marks and its sound: Globals.cpp.                   *)
(*                                                                         *)
(* A token is one of 32 characters.  The modes with one tone give each of  *)
(* them a tone of its own; the others play two of nine tones together.     *)
(* A frequency is the bin of the spectrum it falls into, at 44100 Hz and   *)
(* windows of 2048 samples, and a loudness is in per cent.                 *)
(*                                                                         *)
(* What a user may change is one set of settings for the whole process: g  *)
(* is a record [base, separation, offset] of freqBaseForCustomMultiTone,   *)
(* oxysSeparationForCustomMultiTone and nBinsOffsetForCustomMultiTone (of  *)
(* which freqOffsetForCustomMultiTone is the frequency).                   *)
(***************************************************************************)
EXTENDS Integers, Sequences, SequencesExt

numTokensAll == 32
numTonesAll == 9
numFrontDoorTokens == 2
numWordTokens == 9
numCorrectionTokens == 8
numMessageTokens == numWordTokens + 1 + numCorrectionTokens
numTotalTokens == numFrontDoorTokens + numMessageTokens
tokenAmplitude == 700       \* In thousandths.
DECODING_MODE_AUDIBLE == 0
DECODING_MODE_NONAUDIBLE == 1
DECODING_MODE_COMPRESSION == 2
DECODING_MODE_CUSTOM == 3
Tokens == 0..numTokensAll - 1
AllTones == 0..numTonesAll - 1

\* The characters as numbers: a character that is none of them is Other.
Other == 99
Characters == Tokens \union {Other}
getIdxFromChar(c) == IF c \in Tokens THEN c ELSE 0
getCharFromIdx(idx) == IF idx \in Tokens THEN idx ELSE 0
frontDoorTokens == << 1, 19 >>      \* '1' and 'j'

\* (int)(hz / binToHz + .5)
Bin(hz) == (2 * hz * 2048 + 44100) \div 88200

nBinsOffsetForAudibleMultiTone == 12
nBinsOffsetForNonAudibleMultiTone == 4
nBinsOffsetForCompressionMultiTone == 3
DefaultSettings == [base |-> 12000, separation |-> 1, offset |-> 3]

\* Only the offset of the custom mode depends on what was set.
init(g) == [g EXCEPT !.offset = 2 + g.separation]
-----------------------------------------------------------------------------
(***************************************************************************)
(* Tokens of one tone.                                                     *)
(***************************************************************************)
getFreqFromIdxAudible(idx) == Bin(3300) + idx * Bin(210)
getFreqFromIdxNonAudible(idx) == Bin(16800) + idx * Bin(155)

Loudness == << 50, 51, 52, 54, 55, 56, 57, 59, 60, 61, 63, 64, 65, 67, 68, 70, 72,
               73, 75, 77, 78, 80, 82, 84, 86, 87, 89, 91, 94, 96, 98, 100 >>
getLoudnessFromIdx(idx) == Loudness[idx + 1]

\* The notes of the melody, from 440 Hz up in half tones.
Notes == << 20, 22, 23, 24, 26, 27, 29, 31, 32, 34, 36, 39, 41, 43, 46, 49, 51,
            55, 58, 61, 65, 69, 73, 77, 82, 87, 92, 97, 103, 109, 116, 122 >>
getMusicalNoteFromIdx(idx) == Notes[idx + 1]
-----------------------------------------------------------------------------
(***************************************************************************)
(* Tokens of two tones.  All modes have the same table: the pairs of tones *)
(* in order.  The last four pairs have no token.                           *)
(***************************************************************************)
Pairs == FlattenSeq([a \in 1..numTonesAll - 1 |->
                        [b \in 1..numTonesAll - a |-> << a - 1, a + b - 1 >>]])

PairOf == SubSeq(Pairs, 1, numTokensAll)
Pair(idx) == PairOf[idx + 1]
TokenOf(p) ==
    IF \E idx \in Tokens : Pair(idx) \in {p, << p[2], p[1] >>}
      THEN CHOOSE idx \in Tokens : Pair(idx) \in {p, << p[2], p[1] >>}
      ELSE -1

getIdxsFromIdxAudibleMultiTone(idx) == Pair(idx)
getIdxsFromIdxNonAudibleMultiTone(idx) == Pair(idx)
getIdxsFromIdxCompressionMultiTone(idx) == Pair(idx)
getIdxsFromIdxCustomMultiTone(idx) == Pair(idx)

getIdxTokenFromIdxsTonesAudibleMultiTone(idx1, idx2) == TokenOf(<< idx1, idx2 >>)
getIdxTokenFromIdxsTonesNonAudibleMultiTone(idx1, idx2) == TokenOf(<< idx1, idx2 >>)
getIdxTokenFromIdxsTonesCompressionMultiTone(idx1, idx2) == TokenOf(<< idx1, idx2 >>)
getIdxTokenFromIdxsTonesCustomMultiTone(idx1, idx2) == TokenOf(<< idx1, idx2 >>)

\* Two tones lie three offsets apart, so that the offset which is added to
\* every token's tones never makes one tone of another.
getToneFromIdxAudibleMultiTone(idx) == Bin(3300) + idx * Bin(750)
getToneFromIdxNonAudibleMultiTone(idx) ==
    Bin(17800) + idx * 3 * nBinsOffsetForNonAudibleMultiTone
getToneFromIdxCompressionMultiTone(idx) ==
    Bin(14000) + idx * 3 * nBinsOffsetForCompressionMultiTone
getToneFromIdxCustomMultiTone(g, idx) == Bin(g.base) + idx * 3 * g.offset

getFreqsFromIdxAudibleMultiTone(idx) ==
    [n \in 1..2 |-> getToneFromIdxAudibleMultiTone(getIdxsFromIdxAudibleMultiTone(idx)[n])]
getFreqsFromIdxNonAudibleMultiTone(idx) ==
    [n \in 1..2 |-> getToneFromIdxNonAudibleMultiTone(getIdxsFromIdxNonAudibleMultiTone(idx)[n])]
getFreqsFromIdxCompressionMultiTone(idx) ==
    [n \in 1..2 |-> getToneFromIdxCompressionMultiTone(getIdxsFromIdxCompressionMultiTone(idx)[n])]
getFreqsFromIdxCustomMultiTone(g, idx) ==
    [n \in 1..2 |-> getToneFromIdxCustomMultiTone(g, getIdxsFromIdxCustomMultiTone(idx)[n])]

\* From 85 per cent for the lowest tone to 100 for the highest.
LinearLoudness(pair) == [n \in 1..2 |-> 85 + (15 * pair[n]) \div (numTonesAll - 1)]

getLoudnessAudibleMultiToneFromIdx(idx) == << 100, 100 >>
getLoudnessNonAudibleMultiToneFromIdx(idx) ==
    LinearLoudness(getIdxsFromIdxNonAudibleMultiTone(idx))
getLoudnessCompressionMultiToneFromIdx(idx) ==
    LinearLoudness(getIdxsFromIdxCompressionMultiTone(idx))
getLoudnessCustomMultiToneFromIdx(idx) ==
    LinearLoudness(getIdxsFromIdxCustomMultiTone(idx))
-----------------------------------------------------------------------------
(***************************************************************************)
(* The largest value of an array and the largest of the others: the first  *)
(* of them where several are equal.                                        *)
(***************************************************************************)
FirstLargest(f, S) == CHOOSE i \in S : \A j \in S : f[j] < f[i] \/ (f[j] = f[i] /\ i <= j)

maxValueIdx(f) == FirstLargest(f, DOMAIN f)
secondValueIdx(f) == FirstLargest(f, DOMAIN f \ {maxValueIdx(f)})
===============================================================================
