----------------------------- MODULE AudioService -----------------------------
(***************************************************************************)
(* Marks from where they are made to where they are heard: UndertoneMain   *)
(* and the library together.                                               *)
(*                                                                         *)
(* The service answers a message that is a key by a file with a mark, and  *)
(* an application may make marks with the library itself, in every mode.   *)
(* A listener, in a process of its own, hears the mark in the air and has  *)
(* it decoded.  The processes have different settings, which are global    *)
(* variables of the library.                                               *)
(***************************************************************************)
EXTENDS CoreApi

CONSTANTS
    SenderModes,        \* The modes which the application
    ListenerModes,      \* and the listener may configure.
    Custom,             \* What they may set, as [base, separation].
    Signatures,         \* What the application may add to its marks.
    Scenes,             \* The marks an application may play, and what may
                        \* happen to them in the air:
                        \*   word, type   what is encoded
                        \*   random, melody  its notes, for the types 1 and 2
                        \*   lead         samples of silence before it
                        \*   drowned, by  tokens that are drowned, by silence or
                        \*                by a mark with the word by
                        \*   echo         in per cent
                        \*   marks        how often it is played
    Messages,           \* Messages that clients send to the service.
    Block               \* Samples the listener hands over in a call.

Processes == {"sender", "service", "listener"}
Plain(scene) == scene.type = 0 /\ scene.drowned = {} /\ scene.echo = 0 /\ scene.marks = 1

ASSUME AudioAssumption ==
    /\ SenderModes \cup ListenerModes \subseteq OXY_MODES
    /\ \A scene \in Scenes :
          /\ scene.word \in [1..numWordTokens -> Characters]
          /\ scene.type \in 0..2
          /\ scene.drowned \subseteq 0..numTotalTokens - 1
    /\ Block \in 1..samplesPerDigit

VARIABLES
    settings,       \* Of each process: the variables of Globals.
    object,         \* The object of the application and of the listener.
    air,            \* The sound that is heard.
    played,         \* The marks so far, as [word, scene, class, due]:
                    \* the class of the encoder, and whether it must be decoded.
    result,         \* What the listener's last DecodeAudioBuffer() returned.
    handed,         \* What GetDecodedData() has handed out, as [result, word].
    replies         \* The messages which the service has sent back.

vars == << settings, object, air, played, result, handed, replies >>

Undisturbed == [i \in {} |-> << >>]

Init ==
    /\ settings = [p \in Processes |-> DefaultSettings]
    /\ object = [p \in {"sender", "listener"} |-> Create]
    /\ air = [begin |-> 0, sound |-> NoSound, drowned |-> Undisturbed, echo |-> 0]
    /\ played = << >>
    /\ result = -1
    /\ handed = << >>
    /\ replies = << >>

Listener == object["listener"].mDecoder
-----------------------------------------------------------------------------
(***************************************************************************)
(* The host programs set up their objects, once and before they use them;  *)
(* who sets a frequency uses the custom mode (bounds).                     *)
(***************************************************************************)
OXY_Configure(p, mode) ==
    /\ played = << >>
    /\ object[p] = Create
    /\ settings[p] # DefaultSettings => mode = "CUSTOM"
    /\ LET c == Configure(object[p], mode, settings[p])
       IN /\ object' = [object EXCEPT ![p] = c.o]
          /\ settings' = [settings EXCEPT ![p] = c.g]
    /\ UNCHANGED << air, played, result, handed, replies >>

OXY_SetCustomBaseFreq(p, base, separation) ==
    /\ played = << >>
    /\ settings[p] = DefaultSettings
    /\ object[p].mDecoder.mDecodingMode \in {-1, DECODING_MODE_CUSTOM}
    /\ LET c == SetCustomBaseFreq(object[p], base, separation, settings[p])
       IN /\ object' = [object EXCEPT ![p] = c.o]
          /\ settings' = [settings EXCEPT ![p] = c.g]
    /\ UNCHANGED << air, played, result, handed, replies >>

OXY_SetAudioSignature(signature) ==
    /\ played = << >>
    /\ object["sender"].mEncoder.class # "none"
    /\ object["sender"].mEncoder.mAudioSignature = NoSignature
    /\ object' = [object EXCEPT !["sender"] = SetAudioSignature(@, signature)]
    /\ UNCHANGED << settings, air, played, result, handed, replies >>
-----------------------------------------------------------------------------
(***************************************************************************)
(* Marks are made and played.                                              *)
(***************************************************************************)
\* The last sound, and silence for another token and two windows, were handed
\* over to the listener and analysed.
End == air.begin + air.sound.samples + samplesPerDigit + 2 * mWindowSize
HeardOut == Listener.class = "none" \/ (Listener.written >= End /\ result = -1)
Now == IF Listener.class = "none" THEN 0 ELSE Listener.written

\* The custom encoder shifts the tones of a token by the bins of the inaudible
\* mode, or by twice as many, and the decoder looks for them by its own offset.
\* The tones are seen as long as the two are not more than two bins apart.
ShiftsMeet(g) == 2 * (g.offset - nBinsOffsetForNonAudibleMultiTone) \in -2..2

SameSettings(class) ==
    Listener.class = "custom" /\ class = "CUSTOM" /\ settings["sender"] = settings["listener"]

\* The listener decodes what an encoder of this class plays.  In the custom
\* mode both have to have the same settings, and the shifts have to meet.
Matches(class) ==
    \/ Listener.class = "audible old" /\ class = "AUDIBLEOLD"
    \/ Listener.class = "nonaudible old" /\ class = "NONAUDIBLEOLD"
    \/ Listener.class \in {"audible", "all"} /\ class = "AUDIBLE"
    \/ Listener.class \in {"nonaudible", "all"} /\ class = "NONAUDIBLE"
    \/ Listener.class \in {"compression", "all"} /\ class = "COMPRESSION"
    \/ SameSettings(class) /\ ShiftsMeet(settings["listener"])

\* What a listener makes of these marks is left open.  The old modes use the
\* bands of the new ones, with other tones; and where the shifts do not meet,
\* a decoder finds the start of a mark and then reads what leaks into its bins.
LeftOpen(class) ==
    \/ SameSettings(class) /\ ~ShiftsMeet(settings["listener"])
    \/ Listener.class \in {"audible", "all"} /\ class = "AUDIBLEOLD"
    \/ Listener.class \in {"nonaudible", "all"} /\ class = "NONAUDIBLEOLD"
    \/ Listener.class = "audible old" /\ class = "AUDIBLE"
    \/ Listener.class = "nonaudible old" /\ class = "NONAUDIBLE"

\* A mark has to be decoded if its start tokens are heard, and no more of its
\* tokens are drowned than can be corrected.
Due(class, drowned) ==
    Matches(class) /\ drowned \cap {0, 1} = {} /\ Cardinality(drowned) <= RS!tt

\* GetEncodedAudioBuffer() until there is no more (bound: a token at a time).
AllSamples(o) ==
    LET calls == (o.mEncoder.encoded.samples \div samplesPerDigit) + 1
        after[n \in 0..calls] ==
            IF n = 0 THEN o ELSE GetEncodedAudioBuffer(after[n - 1], samplesPerDigit).o
    IN [o.mEncoder.encoded EXCEPT !.samples = after[calls].mEncoder.mReadIndex]
EncodedSound(o, g, scene, word) ==
    AllSamples(EncodeDataToAudioBuffer(o, g, word, scene.type, scene.random, scene.melody))

\* What is heard instead of the tokens which are drowned.
DrownedBy(scene, other) ==
    LET Tones(token) ==
            SubSeq([k \in DOMAIN token |-> << token[k][1], token[k][2] \div 100 >>], 1, Len(token))
    IN [i \in scene.drowned |-> IF scene.by = << >> THEN << >> ELSE Tones(other.tokens[i + 1])]

\* The application makes a mark and plays it, when the last one is over.
PlayMark(scene) ==
    LET class == object["sender"].mEncoder.class
        Sound(word) == EncodedSound(object["sender"], settings["sender"], scene, word)
    IN /\ class # "none" /\ Listener.class # "none" /\ replies = << >>
       /\ \A m \in DOMAIN played : played[m].scene = scene
       /\ Len(played) < scene.marks
       /\ Matches(class) \/ (Plain(scene) /\ ~LeftOpen(class))
       /\ played # << >> => HeardOut
       /\ air' = [begin |-> Now + scene.lead, sound |-> Sound(scene.word),
                  drowned |-> DrownedBy(scene, Sound(scene.by)), echo |-> scene.echo]
       /\ played' = Append(played, [word |-> scene.word, scene |-> scene,
                                    class |-> class, due |-> Due(class, scene.drowned)])
       /\ object' = [object EXCEPT !["sender"] = ResetEncodedAudioBuffer(@)]
       /\ UNCHANGED << settings, result, handed, replies >>
-----------------------------------------------------------------------------
(***************************************************************************)
(* The service.                                                            *)
(***************************************************************************)
\* charToVal(): -1 for a character that no token has.
charToVal(c) == IF c \in Tokens THEN c ELSE -1

\* fromDecToBase() with the base 32, filled up with zeros to four characters.
Timestamp(seconds) ==
    << (seconds \div 32768) % 32, (seconds \div 1024) % 32, (seconds \div 32) % 32, seconds % 32 >>

sampleRate == 44100
bufferSize == 128
startTime == 5              \* Seconds, where the mark of the file ends.

\* Silence is written in blocks until the mark fits in front of startTime.  (A
\* mark is durToken * 20 = 2.09 seconds long.)
SilenceBefore ==
    LET enough == (sampleRate * (100 * startTime - 209)) \div 100
    IN ((enough + bufferSize - 1) \div bufferSize) * bufferSize

ValidKey(keyStr) == Len(keyStr) = 5 /\ \A i \in DOMAIN keyStr : charToVal(keyStr[i]) # -1

\* generateAudio(): the object of the library is made, used and destroyed.
\* A file which cannot be opened ends it.  The duration of the file leaves room
\* for one mark.
GeneratedMark(keyStr, g) ==
    LET c == Configure(Create, "NONAUDIBLE", g)
        word == keyStr \o Timestamp(startTime)
        scene == [type |-> 0, random |-> << >>, melody |-> << >>]
    IN [word |-> word, g |-> c.g, begin |-> SilenceBefore,
        sound |-> EncodedSound(c.o, c.g, scene, word)]

\* on_message: the file, and then the message is sent back in any case.  The
\* listener plays the file from its beginning (bound: one message in a
\* behavior, and no application that plays marks).
OnMessage(message, opened) ==
    /\ played = << >> /\ replies = << >>
    /\ object["sender"] = Create /\ settings["sender"] = DefaultSettings
    /\ ~LeftOpen("NONAUDIBLE")
    /\ replies' = Append(replies, message)
    /\ \/ /\ ValidKey(message) /\ opened
          /\ \E mark \in {GeneratedMark(message, settings["service"])} :
                /\ settings' = [settings EXCEPT !["service"] = mark.g]
                /\ air' = [begin |-> Now + mark.begin, sound |-> mark.sound,
                           drowned |-> Undisturbed, echo |-> 0]
                /\ played' = << [word |-> SubSeq(message, 1, 5)
                                          \o Timestamp((2 * (mark.begin + mark.sound.samples) + sampleRate)
                                                          \div (2 * sampleRate)),
                                 scene |-> message, class |-> "NONAUDIBLE",
                                 due |-> Matches("NONAUDIBLE")] >>
       \/ /\ ~(ValidKey(message) /\ opened)
          /\ settings' = IF ValidKey(message)
                           THEN [settings EXCEPT !["service"] = init(@)] ELSE settings
          /\ UNCHANGED << air, played >>
    /\ UNCHANGED << object, result, handed >>
-----------------------------------------------------------------------------
(***************************************************************************)
(* The listener hands over what it hears, block after block, and fetches a *)
(* word that is complete.                                                  *)
(***************************************************************************)
OXY_DecodeAudioBuffer ==
    /\ played # << >> /\ Listener.class # "none"
    /\ result # WordComplete /\ ~HeardOut
    /\ \E r \in {DecodeAudioBuffer(object["listener"], settings["listener"], air, Block)} :
          /\ object' = [object EXCEPT !["listener"].mDecoder = r.d]
          /\ result' = r.result
    /\ UNCHANGED << settings, air, played, handed, replies >>

OXY_GetDecodedData ==
    /\ result = WordComplete
    /\ \E r \in {GetDecodedData(object["listener"])} :
          /\ handed' = Append(handed, [result |-> r.result, word |-> r.word])
          /\ object' = [object EXCEPT !["listener"].mDecoder = r.d]
    /\ result' = 0
    /\ UNCHANGED << settings, air, played, replies >>

Next ==
    \/ \E mode \in SenderModes : OXY_Configure("sender", mode)
    \/ \E mode \in ListenerModes : OXY_Configure("listener", mode)
    \/ \E p \in {"sender", "listener"}, x \in Custom :
          OXY_SetCustomBaseFreq(p, x.base, x.separation)
    \/ \E signature \in Signatures : OXY_SetAudioSignature(signature)
    \/ \E scene \in Scenes : PlayMark(scene)
    \/ \E message \in Messages, opened \in BOOLEAN : OnMessage(message, opened)
    \/ OXY_DecodeAudioBuffer
    \/ OXY_GetDecodedData

Spec == Init /\ [][Next]_vars
-----------------------------------------------------------------------------
\* When a mark was heard to its end, the listener has been handed out every word
\* that was due, once and in the order of the marks, and no other word as a
\* right one: in each mode, in the custom one as far as ShiftsMeet, whatever the
\* notes, the signature, echoes and tokens that were drowned.  The word of the
\* service's mark is the key together with the second at which it ends.
MarksDecoded ==
    played # << >> /\ Listener.class # "none" /\ HeardOut =>
        LET due == SelectSeq(played, LAMBDA x : x.due)
            right == SelectSeq(handed, LAMBDA x : x.result > 0)
        IN /\ Len(right) = Len(due)
           /\ \A n \in DOMAIN due : right[n].word = due[n].word

\* A decoder which reads tokens, or which has a word to hand out, has found the
\* start of a mark that is meant for it, and OXY_GetDecodedMode() names the
\* mode of this mark: no mark of another mode and no silence starts a message.
StartsInItsMode ==
    Listener.class # "none" /\ (Listener.mDecoding > 0 \/ handed # << >>) =>
        /\ played # << >>
        /\ LET class == played[Len(played)].class
           IN /\ Matches(class)
              /\ Listener.mDecodingMode =
                    CASE class \in {"AUDIBLEOLD", "AUDIBLE"} -> DECODING_MODE_AUDIBLE
                      [] class \in {"NONAUDIBLEOLD", "NONAUDIBLE"} -> DECODING_MODE_NONAUDIBLE
                      [] class = "COMPRESSION" -> DECODING_MODE_COMPRESSION
                      [] class = "CUSTOM" -> DECODING_MODE_CUSTOM
===============================================================================
