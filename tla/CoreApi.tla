-------------------------------- MODULE CoreApi --------------------------------
(***************************************************************************)
(* The interface of the library, OxyCoreLib_api.cpp, as operators that     *)
(* take an object and the settings g of its process and yield the object   *)
(* (and the settings) of after the call.  An object has one encoder and    *)
(* one decoder, which OXY_Configure() makes; an object without them is not *)
(* to be used for anything else.                                           *)
(***************************************************************************)
EXTENDS AllMultiToneDecoder, SingleToneDecoders

OXY_MODES == {"AUDIBLEOLD", "NONAUDIBLEOLD", "AUDIBLE", "NONAUDIBLE", "COMPRESSION", "ALL",
              "CUSTOM"}

NoDecoder == [class |-> "none", mDecodingMode |-> -1]
NoSound == [tokens |-> << >>, tail |-> 0, gap |-> 0, notes |-> << >>, damped |-> 0,
            signature |-> NoSignature, samples |-> 0]
NoEncoder == [class |-> "none", mAudioSignature |-> NoSignature, encoded |-> NoSound,
              mReadIndex |-> 0]

\* OXY_Create(): a COxyCore.
Create == [mEncoder |-> NoEncoder, mDecoder |-> NoDecoder]

NewEncoder(class) == [NoEncoder EXCEPT !.class = class]

\* Both constructors call Globals::init(), and then the decoder reads the tones.
Configured(o, mode, g) ==
    LET now == init(g)
    IN [o |-> [mEncoder |-> NewEncoder(IF mode = "ALL" THEN "NONAUDIBLE" ELSE mode),
               mDecoder |-> CASE mode = "AUDIBLEOLD" -> DecoderAudible
                              [] mode = "NONAUDIBLEOLD" -> DecoderNonAudible
                              [] mode = "AUDIBLE" -> DecoderAudibleMultiTone
                              [] mode = "NONAUDIBLE" -> DecoderNonAudibleMultiTone
                              [] mode = "COMPRESSION" -> DecoderCompressionMultiTone
                              [] mode = "ALL" -> DecoderAllMultiTone
                              [] mode = "CUSTOM" -> DecoderCustomMultiTone(now)],
        g |-> now]

\* A mode that there is not leaves the object with neither.
Configure(o, mode, g) ==
    IF mode \in OXY_MODES THEN Configured(o, mode, g) ELSE [o |-> Create, g |-> g]

\* An object of the custom mode is made anew.  For any other one, and before
\* the object is configured, only the settings change, the offset not yet.
SetCustomBaseFreq(o, base, separation, g) ==
    LET changed == [g EXCEPT !.base = base, !.separation = separation]
    IN IF o.mDecoder.mDecodingMode = DECODING_MODE_CUSTOM
         THEN Configured(o, "CUSTOM", changed)
         ELSE [o |-> o, g |-> changed]

\* No more of a signature is kept than a mark is long; none ends it.
SetAudioSignature(o, signature) ==
    [o EXCEPT !.mEncoder.mAudioSignature =
        [signature EXCEPT !.samples =
            IF @ > numTotalTokens * samplesPerDigit THEN numTotalTokens * samplesPerDigit ELSE @]]

\* The encoder of the class: a word as a sound; then the type adds random notes
\* or a melody to it; and then there is the signature, but not in the old ones.
EncodedOf(class, word, g) ==
    CASE class = "AUDIBLEOLD" -> EncodeAudible(word)
      [] class = "NONAUDIBLEOLD" -> EncodeNonAudible(word)
      [] class = "AUDIBLE" -> EncodeAudibleMultiTone(word)
      [] class = "NONAUDIBLE" -> EncodeNonAudibleMultiTone(word)
      [] class = "COMPRESSION" -> EncodeCompressionMultiTone(word)
      [] class = "CUSTOM" -> EncodeCustomMultiTone(word, g)

synthVolume == 1000     \* Of the notes: 0 dB.
NotesOf(class, sound, random) ==
    CASE class = "AUDIBLEOLD" -> RobotAudible(sound, random, synthVolume)
      [] class = "NONAUDIBLEOLD" -> RobotNonAudible(sound, random, synthVolume)
      [] class = "AUDIBLE" -> RobotAudibleMultiTone(sound, random, synthVolume)
      [] class = "NONAUDIBLE" -> RobotNonAudibleMultiTone(sound, random, synthVolume)
      [] class = "COMPRESSION" -> RobotCompressionMultiTone(sound, random, synthVolume)
      [] class = "CUSTOM" -> RobotCustomMultiTone(sound, random, synthVolume)

MelodyOf(class, sound, melody) ==
    CASE class = "AUDIBLEOLD" -> MelodyAudible(sound, melody)
      [] class = "NONAUDIBLEOLD" -> MelodyNonAudible(sound, melody)
      [] class = "AUDIBLE" -> MelodyAudibleMultiTone(sound, melody)
      [] class = "NONAUDIBLE" -> MelodyNonAudibleMultiTone(sound, melody)
      [] class = "COMPRESSION" -> MelodyCompressionMultiTone(sound, melody)
      [] class = "CUSTOM" -> MelodyCustomMultiTone(sound, melody)

TypedOf(class, sound, type, random, melody) ==
    CASE type = 1 -> NotesOf(class, sound, random)
      [] type = 2 -> MelodyOf(class, sound, melody)
      [] OTHER -> sound

SignedOf(class, sound, signature) ==
    CASE class = "AUDIBLE" -> SignedAudibleMultiTone(sound, signature)
      [] class = "NONAUDIBLE" -> SignedNonAudibleMultiTone(sound, signature)
      [] class = "COMPRESSION" -> SignedCompressionMultiTone(sound, signature)
      [] class = "CUSTOM" -> SignedCustomMultiTone(sound, signature)
      [] OTHER -> sound

EncodeDataToAudioBuffer(o, g, word, type, random, melody) ==
    LET e == o.mEncoder
    IN [o EXCEPT !.mEncoder.mReadIndex = 0,
                 !.mEncoder.encoded =
                     SignedOf(e.class, TypedOf(e.class, EncodedOf(e.class, word, g), type, random, melody),
                            e.mAudioSignature)]

\* The next samples of the sound, [from, samples]; none when it has been read.
GetEncodedAudioBuffer(o, bufferSize) ==
    LET e == o.mEncoder
        left == e.encoded.samples - e.mReadIndex
        samples == IF left < bufferSize THEN left ELSE bufferSize
    IN [from |-> e.mReadIndex, samples |-> samples,
        o |-> [o EXCEPT !.mEncoder = [e EXCEPT !.mReadIndex = @ + samples]]]

ResetEncodedAudioBuffer(o) == [o EXCEPT !.mEncoder = [@ EXCEPT !.mReadIndex = 0]]

DecodeAudioBuffer(o, g, air, size) ==
    LET d == o.mDecoder
    IN CASE d.class = "audible old" -> DecodeAudioBufferAudible(d, air, size)
         [] d.class = "nonaudible old" -> DecodeAudioBufferNonAudible(d, air, size)
         [] d.class = "audible" -> DecodeAudioBufferAudibleMultiTone(d, air, size)
         [] d.class = "nonaudible" -> DecodeAudioBufferNonAudibleMultiTone(d, air, size)
         [] d.class = "compression" -> DecodeAudioBufferCompressionMultiTone(d, air, size)
         [] d.class = "all" -> DecodeAudioBufferAll(d, air, size)
         [] d.class = "custom" -> DecodeAudioBufferCustomMultiTone(d, air, size, g)

GetDecodedData(o) ==
    LET d == o.mDecoder
    IN CASE d.class = "audible old" -> GetDecodedDataAudible(d)
         [] d.class = "nonaudible old" -> GetDecodedDataNonAudible(d)
         [] d.class = "audible" -> GetDecodedDataAudibleMultiTone(d)
         [] d.class = "nonaudible" -> GetDecodedDataNonAudibleMultiTone(d)
         [] d.class = "compression" -> GetDecodedDataCompressionMultiTone(d)
         [] d.class = "all" -> GetDecodedDataAll(d)
         [] d.class = "custom" -> GetDecodedDataCustomMultiTone(d)
===============================================================================
