------------------------------- MODULE Encoders -------------------------------
(***************************************************************************)
(* The encoders: Encoder.cpp and the six Encoder...Mode.cpp, all of which  *)
(* are copies of two programs, one for tokens of one tone and one for      *)
(* tokens of two.                                                          *)
(*                                                                         *)
(* A sound is a record:                                                    *)
(*    tokens     for each token the tones that are played together, each   *)
(*               << bin, level >>: the frequency as a bin of the spectrum, *)
(*               and its amplitude in units of 1 / 100000                  *)
(*    tail, gap  samples at the end of a token that fade out, and that are *)
(*               silent                                                    *)
(*    notes      what is played over the tokens, one << bin, drift, level  *)
(*               >> for each token: its frequency moves by drift bins      *)
(*    damped     how many tokens the notes make quieter                    *)
(*    signature  what the user added: [tone, samples], or samples = 0      *)
(*    samples    mNumSamplesEncodedString                                  *)
(* The amplitudes are those of the samples; that a sum of them may leave   *)
(* [-1, 1] and phases are left out.                                        *)
(***************************************************************************)
EXTENDS Tones

RS == INSTANCE ReedSolomon

samplesPerDigit == 4608     \* 44100 Hz times durToken.
samplesForFadeBegin == 345  \* And times durFade.

NoSignature == [tone |-> << 0, 0 >>, samples |-> 0]

\* The tokens of a word of numWordTokens characters: the start tokens, the
\* word, the sum of it, and the symbols that correct them.
Digits(word) ==
    LET user == [n \in 1..numWordTokens |-> getIdxFromChar(word[n])]
        checkDigit == FoldLeft(+, 0, user) % numTokensAll
    IN RS!Encode(frontDoorTokens \o user \o << checkDigit >>)

\* One tone for each token.
SingleTone(digits, freqs, loudness) ==
    [tokens |-> SubSeq([i \in 1..Len(digits) |->
                           << << freqs[i], loudness[i] * tokenAmplitude >> >>], 1, Len(digits)),
     tail |-> 2304, gap |-> 460, notes |-> << >>, damped |-> 0,
     signature |-> NoSignature, samples |-> Len(digits) * samplesPerDigit]

\* Two tones for each token, but only the first of them for a start token,
\* which is louder.  The tones of three tokens in a row have different offsets.
MultiTone(digits, freqs, loudness, offset) ==
    LET Factor(i) == CASE i = 0 -> tokenAmplitude
                       [] i = 1 -> tokenAmplitude - 25
                       [] OTHER -> tokenAmplitude - 50
        Shift(i) == IF i > 1 THEN ((i - 1) % 3) * offset ELSE 0
        Tone(i, n) == << freqs[i + 1][n] + Shift(i), loudness[i + 1][n] * Factor(i) >>
        Half(tone) == << tone[1], tone[2] \div 2 >>
        Token(i) == IF i < 2 THEN << Tone(i, 1) >> ELSE << Half(Tone(i, 1)), Half(Tone(i, 2)) >>
    IN [tokens |-> SubSeq([i \in 1..Len(digits) |-> Token(i - 1)], 1, Len(digits)),
        tail |-> 460, gap |-> 230, notes |-> << >>, damped |-> 0,
        signature |-> NoSignature, samples |-> Len(digits) * samplesPerDigit]

\* type 1: a note for every token, whose frequency drifts to somewhere else.
\* (volume is in thousandths, as synthVolume gives it.)
Robot(sound, random, volume) ==
    [sound EXCEPT !.notes =
        [i \in 1..Len(sound.tokens) |->
            << getMusicalNoteFromIdx(random[i].note), random[i].drift,
               (tokenAmplitude * volume) \div 10 >>]]

\* type 2: the notes of a melody.  It may be longer than the tokens, which are
\* quieter while it lasts.
Melody(sound, melody) ==
    [sound EXCEPT !.notes =
        [i \in 1..Len(melody) |->
            << getMusicalNoteFromIdx(getIdxFromChar(melody[i])), 0, 25 * tokenAmplitude >>],
                  !.damped = Len(melody),
                  !.samples = IF Len(melody) * samplesPerDigit > @
                                THEN Len(melody) * samplesPerDigit ELSE @]

\* What was set by SetAudioSignature() is added from the beginning on.
Signed(sound, signature) ==
    [sound EXCEPT !.signature =
        [signature EXCEPT !.samples = IF @ > sound.samples THEN sound.samples ELSE @]]
-----------------------------------------------------------------------------
(***************************************************************************)
(* The encoders of the modes.                                              *)
(***************************************************************************)
Each(digits, Value(_)) == SubSeq([i \in 1..Len(digits) |-> Value(digits[i])], 1, Len(digits))

EncodeAudible(word) ==
    LET digits == Digits(word)
    IN SingleTone(digits, Each(digits, getFreqFromIdxAudible), Each(digits, getLoudnessFromIdx))
RobotAudible(sound, random, volume) == Robot(sound, random, volume)
MelodyAudible(sound, melody) == Melody(sound, melody)

EncodeNonAudible(word) ==
    LET digits == Digits(word)
    IN SingleTone(digits, Each(digits, getFreqFromIdxNonAudible), Each(digits, getLoudnessFromIdx))
RobotNonAudible(sound, random, volume) == Robot(sound, random, volume)
MelodyNonAudible(sound, melody) == Melody(sound, melody)

EncodeAudibleMultiTone(word) ==
    LET digits == Digits(word)
    IN MultiTone(digits, Each(digits, getFreqsFromIdxAudibleMultiTone),
                 Each(digits, getLoudnessAudibleMultiToneFromIdx),
                 nBinsOffsetForAudibleMultiTone)
RobotAudibleMultiTone(sound, random, volume) == Robot(sound, random, volume)
MelodyAudibleMultiTone(sound, melody) == Melody(sound, melody)
SignedAudibleMultiTone(sound, signature) == Signed(sound, signature)

EncodeNonAudibleMultiTone(word) ==
    LET digits == Digits(word)
    IN MultiTone(digits, Each(digits, getFreqsFromIdxNonAudibleMultiTone),
                 Each(digits, getLoudnessNonAudibleMultiToneFromIdx),
                 nBinsOffsetForNonAudibleMultiTone)
RobotNonAudibleMultiTone(sound, random, volume) == Robot(sound, random, volume)
MelodyNonAudibleMultiTone(sound, melody) == Melody(sound, melody)
SignedNonAudibleMultiTone(sound, signature) == Signed(sound, signature)

EncodeCompressionMultiTone(word) ==
    LET digits == Digits(word)
    IN MultiTone(digits, Each(digits, getFreqsFromIdxCompressionMultiTone),
                 Each(digits, getLoudnessCompressionMultiToneFromIdx),
                 nBinsOffsetForCompressionMultiTone)
RobotCompressionMultiTone(sound, random, volume) == Robot(sound, random, volume)
MelodyCompressionMultiTone(sound, melody) == Melody(sound, melody)
SignedCompressionMultiTone(sound, signature) == Signed(sound, signature)

\* The tones are those of the custom mode, g being the settings of now; the
\* offset of the tokens is that of the inaudible one.
EncodeCustomMultiTone(word, g) ==
    LET digits == Digits(word)
        Freqs(idx) == getFreqsFromIdxCustomMultiTone(g, idx)
    IN MultiTone(digits, Each(digits, Freqs),
                 Each(digits, getLoudnessCustomMultiToneFromIdx),
                 nBinsOffsetForNonAudibleMultiTone)
RobotCustomMultiTone(sound, random, volume) == Robot(sound, random, volume)
MelodyCustomMultiTone(sound, melody) == Melody(sound, melody)
SignedCustomMultiTone(sound, signature) == Signed(sound, signature)
-----------------------------------------------------------------------------
\* How much of its amplitude a token has at its sample t, in thousandths.  The
\* first token fades out in half of the time and has no gap.
Fade(sound, i, t) ==
    LET tail == IF i = 0 THEN sound.tail \div 2 ELSE sound.tail
        gap == IF i = 0 THEN 0 ELSE sound.gap
    IN CASE t < samplesForFadeBegin -> (1000 * t) \div samplesForFadeBegin
         [] t >= samplesPerDigit - gap -> 0
         [] t \in samplesPerDigit - (tail + gap) + 1..samplesPerDigit - gap - 1 ->
               (1000 * (samplesPerDigit - gap - t)) \div tail
         [] OTHER -> 1000

\* The tones of a sound at its sample n, now in units of 1 / 1000.
SoundAt(sound, n) ==
    LET i == n \div samplesPerDigit
        t == n % samplesPerDigit
        fade == Fade(sound, i, t)
        share == IF i < sound.damped THEN 75 ELSE 100
        Faded(tone) == << tone[1], (share * (((tone[2] \div 100) * fade) \div 1000)) \div 100 >>
        tones == IF i < Len(sound.tokens) /\ fade > 0
                   THEN LET token == sound.tokens[i + 1]
                        IN SubSeq([k \in DOMAIN token |-> Faded(token[k])], 1, Len(token))
                   ELSE << >>
        note == IF i < Len(sound.notes)
                  THEN LET x == sound.notes[i + 1]
                       IN << << x[1] + (2 * x[2] * t) \div samplesPerDigit, x[3] \div 100 >> >>
                  ELSE << >>
        signature == IF n < sound.signature.samples THEN << sound.signature.tone >> ELSE << >>
    IN IF n \in 0..sound.samples - 1 THEN tones \o note \o signature ELSE << >>
===============================================================================
