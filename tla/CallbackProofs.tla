---------------------------- MODULE CallbackProofs ----------------------------
(***************************************************************************)
(* Sequences of the callbacks of one connection, as ServerConnection and   *)
(* ClientConnection have them, and which of them are well-formed.  Both    *)
(* sides call on_open, then what a message or a control frame causes, then *)
(* at most one ending: on_close, on_error, or on_error for a message above *)
(* the limit with the on_close of the ending behind it.                    *)
(***************************************************************************)
EXTENDS Integers, Sequences, SequenceTheorems, TLAPS

\* What a connection that goes on may have called.
Benign == {"message", "ping", "pong"}

Event == {"open", "message", "ping", "pong", "message_size", "close", "error"}

\* The connection is open and nothing has ended it.
Serving(s) ==
    /\ s \in Seq(Event)
    /\ s # << >>
    /\ s[1] = "open"
    /\ \A i \in 2..Len(s) : s[i] \in Benign

\* A message above the limit was reported.
SizeRefused(s) ==
    /\ s \in Seq(Event)
    /\ Len(s) > 1
    /\ s[1] = "open"
    /\ \A i \in 2..Len(s) - 1 : s[i] \in Benign
    /\ s[Len(s)] = "message_size"

\* The last callback has been called.
Over(s) ==
    \/ s = << "error" >>
    \/ \E r : Serving(r) /\ s \in { Append(r, "error"), Append(r, "close") }
    \/ \E r : SizeRefused(r) /\ s = Append(r, "close")

\* The order which the connections promise (EventsWellFormed of the server,
\* CallbacksWellFormed of the client).
WellFormed(s) ==
    \A i \in DOMAIN s :
        /\ s[i] = "open" => i = 1
        /\ i > 1 => s[1] = "open"
        /\ s[i] \in {"close", "error"} => i = Len(s)
        /\ s[i] = "message_size" => i = Len(s) \/ (i = Len(s) - 1 /\ s[i + 1] = "close")

\* The callbacks which say that a connection has ended.
Endings == {"close", "error", "message_size"}

HasEnded(s) == \E i \in DOMAIN s : s[i] \in Endings
HasOpened(s) == \E i \in DOMAIN s : s[i] = "open"

-----------------------------------------------------------------------------
LEMMA FirstServes == Serving(<< "open" >>)
<1>1. "open" \in Event
  BY DEF Event
<1> QED
  BY <1>1 DEF Serving

LEMMA ServesOn ==
    ASSUME NEW s, Serving(s), NEW e \in Benign
    PROVE  Serving(Append(s, e))
<1>1. e \in Event
  BY DEF Benign, Event
<1>2. Len(s) \in Nat \ {0}
  BY EmptySeq, LenProperties DEF Serving
<1> QED
  BY <1>1, <1>2, AppendProperties DEF Serving

LEMMA RefusesSize ==
    ASSUME NEW s, Serving(s)
    PROVE  SizeRefused(Append(s, "message_size"))
<1>2. "message_size" \in Event
  BY DEF Event
<1>1. Len(s) \in Nat \ {0}
  BY EmptySeq, LenProperties DEF Serving
<1> QED
  BY <1>1, <1>2, AppendProperties DEF Serving, SizeRefused

LEMMA ServingFacts ==
    ASSUME NEW s, Serving(s)
    PROVE  WellFormed(s) /\ HasOpened(s) /\ ~HasEnded(s)
<1>1. DOMAIN s = 1..Len(s) /\ Len(s) \in Nat \ {0}
  BY EmptySeq, LenProperties DEF Serving
<1>2. \A i \in DOMAIN s : s[i] \in {"open"} \union Benign /\ (s[i] = "open" => i = 1)
  BY <1>1 DEF Serving, Benign
<1> QED
  BY <1>1, <1>2 DEF Serving, WellFormed, HasOpened, HasEnded, Endings, Benign

\* The last callback tells whether a connection goes on (Going of InStream).
LEMMA LastHeard ==
    ASSUME NEW s, Serving(s) \/ SizeRefused(s)
    PROVE  /\ s # << >>
           /\ Serving(s) => s[Len(s)] \in {"open", "message", "ping", "pong"}
           /\ SizeRefused(s) => s[Len(s)] = "message_size"
<1>1. /\ s # << >>
      /\ Len(s) \in Nat \ {0}
  BY EmptySeq, LenProperties DEF Serving, SizeRefused
<1>2. CASE Len(s) = 1
  BY <1>1, <1>2 DEF Serving, SizeRefused
<1>3. CASE Len(s) # 1
  BY <1>1, <1>3 DEF Serving, SizeRefused, Benign
<1> QED
  BY <1>1, <1>2, <1>3

LEMMA RefusedFacts ==
    ASSUME NEW s, SizeRefused(s)
    PROVE  WellFormed(s) /\ HasEnded(s)
<1>1. DOMAIN s = 1..Len(s) /\ Len(s) \in Nat \ {0, 1}
  BY LenProperties DEF SizeRefused
<1>2. \A i \in DOMAIN s :
        /\ s[i] \in {"open", "message_size"} \union Benign
        /\ s[i] = "open" => i = 1
        /\ s[i] = "message_size" => i = Len(s)
  BY <1>1 DEF SizeRefused, Benign
<1> QED
  BY <1>1, <1>2 DEF SizeRefused, WellFormed, HasEnded, Endings, Benign

\* The last callback ends a sequence that was well-formed.
LEMMA LastFacts ==
    ASSUME NEW r, NEW e \in {"close", "error"},
           Serving(r) \/ (SizeRefused(r) /\ e = "close")
    PROVE  WellFormed(Append(r, e)) /\ HasEnded(Append(r, e))
<1>. DEFINE s == Append(r, e)
<1>1. r \in Seq(Event) /\ e \in Event /\ r[1] = "open"
  BY DEF Serving, SizeRefused, Event
<1>2. Len(r) \in Nat \ {0} /\ DOMAIN r = 1..Len(r)
  BY EmptySeq, LenProperties DEF Serving, SizeRefused
<1>3. /\ DOMAIN s = 1..Len(r) + 1
      /\ Len(s) = Len(r) + 1
      /\ s[Len(r) + 1] = e
      /\ \A i \in 1..Len(r) : s[i] = r[i]
  BY <1>1, <1>2, AppendProperties
<1>. HIDE DEF s
<1>4. HasEnded(s)
  BY <1>2, <1>3 DEF HasEnded, Endings
<1>5. ASSUME NEW i \in 1..Len(r)
      PROVE  /\ r[i] = "open" => i = 1
             /\ r[i] \notin {"close", "error"}
             /\ r[i] = "message_size" => i = Len(r) /\ e = "close"
  <2>1. CASE i = 1
    BY <1>1, <2>1
  <2>2. CASE i # 1 /\ Serving(r)
    <3>1. r[i] \in Benign
      BY <1>2, <2>2 DEF Serving
    <3> QED
      BY <3>1 DEF Benign
  <2>3. CASE i # 1 /\ ~Serving(r)
    <3>1. SizeRefused(r) /\ e = "close"
      BY <2>3
    <3>2. r[i] \in Benign \/ (i = Len(r) /\ r[i] = "message_size")
      <4>1. PICK n \in Nat \ {0} : n = Len(r)
        BY <1>2
      <4>2. i \in 1..n
        BY <4>1
      <4>3. i = n \/ i \in 2..n - 1
        BY <2>3, <4>2
      <4> QED
        BY <3>1, <4>1, <4>3 DEF SizeRefused
    <3> QED
      BY <3>1, <3>2 DEF Benign
  <2> QED
    BY <2>1, <2>2, <2>3
<1>6. s[1] = "open"
  BY <1>1, <1>2, <1>3
<1>7. ASSUME NEW i \in DOMAIN s
      PROVE  /\ s[i] = "open" => i = 1
             /\ s[i] \in {"close", "error"} => i = Len(s)
             /\ s[i] = "message_size" => i = Len(s) - 1 /\ s[i + 1] = "close"
  <2>1. CASE i \in 1..Len(r)
    <3>1. s[i] = r[i]
      BY <1>3, <2>1
    <3>2. i = Len(r) => i = Len(s) - 1 /\ s[i + 1] = e
      BY <1>2, <1>3
    <3>3. r[i] = "open" => i = 1
      BY <1>5, <2>1
    <3>4. r[i] \notin {"close", "error"}
      BY <1>5, <2>1
    <3>5. r[i] = "message_size" => i = Len(r) /\ e = "close"
      BY <1>5, <2>1
    <3> QED
      BY <3>1, <3>2, <3>3, <3>4, <3>5
  <2>2. CASE i \notin 1..Len(r)
    <3>1. i = Len(s) /\ s[i] = e
      BY <1>2, <1>3, <2>2
    <3> QED
      BY <3>1
  <2> QED
    BY <2>1, <2>2
<1>8. WellFormed(s)
  BY <1>6, <1>7 DEF WellFormed
<1> QED
  BY <1>4, <1>8 DEF s

LEMMA OverFacts ==
    ASSUME NEW s, Over(s)
    PROVE  WellFormed(s) /\ HasEnded(s)
<1>1. CASE s = << "error" >>
  BY <1>1 DEF WellFormed, HasEnded, Endings
<1>2. CASE s # << "error" >>
  BY <1>2, LastFacts DEF Over
<1> QED
  BY <1>1, <1>2
=============================================================================
