-------------------------- MODULE TokenDecoderProofs --------------------------
(***************************************************************************)
(* Proofs about TokenDecoder for every geometry of its two rings, every    *)
(* length of tokens and messages, and every sender.                        *)
(***************************************************************************)
EXTENDS TokenDecoder, FiniteSetTheorems, TLAPS

-----------------------------------------------------------------------------
(* Positions in rings                                                      *)

LEMMA Remainder ==
    ASSUME NEW a \in Int, NEW n \in Nat \ {0}
    PROVE  a % n \in 0..n-1 /\ \E q \in Int : a = (n * q) + (a % n)
<1>1. a \div n \in Int /\ a % n \in 0..n-1 /\ a = (n * (a \div n)) + (a % n)
  OBVIOUS
<1> QED
  BY <1>1

LEMMA RemainderOf ==
    ASSUME NEW n \in Nat \ {0}, NEW q \in Int, NEW r \in 0..n-1, NEW a \in Int, a = (n * q) + r
    PROVE  a % n = r
  OBVIOUS

LEMMA Multiples ==
    ASSUME NEW n \in Nat \ {0}, NEW p \in Int, NEW q \in Int, NEW r \in 0..n-1, NEW s \in 0..n-1,
           (n * p) + r = (n * q) + s
    PROVE  r = s
<1>1. ((n * p) + r) % n = r /\ ((n * q) + s) % n = s
  BY RemainderOf
<1> QED
  BY <1>1

\* Going on from a position of a ring.
LEMMA RingPlus ==
    ASSUME NEW n \in Nat \ {0}, NEW a \in Int, NEW b \in Int
    PROVE  /\ ((a % n) + b) % n = (a + b) % n
           /\ (b + (a % n)) % n = (a + b) % n
<1>1. PICK p \in Int : a = (n * p) + (a % n)
  BY Remainder
<1>. DEFINE r == a % n
            s == (r + b) % n
<1>2. r \in 0..n-1
  BY Remainder
<1>3. r + b \in Int
  BY <1>2
<1>. HIDE DEF r
<1>4. PICK q \in Int : r + b = (n * q) + s
  BY <1>3, Remainder
<1>5. s \in 0..n-1
  BY <1>3, Remainder
<1>6. a = (n * p) + r
  BY <1>1 DEF r
<1>. HIDE DEF s
<1>7. a + b = (n * p) + (n * q) + s
  BY <1>2, <1>4, <1>5, <1>6
<1>8. a + b = (n * (p + q)) + s /\ p + q \in Int /\ a + b \in Int
  <2>1. (n * p) + (n * q) = n * (p + q)
    OBVIOUS
  <2> QED
    BY <1>7, <2>1
<1>9. (a + b) % n = s
  <2>. DEFINE c == a + b
              k == p + q
  <2>1. c \in Int /\ k \in Int /\ c = (n * k) + s
    BY <1>8
  <2>. HIDE DEF c, k
  <2>2. c % n = s
    BY <1>5, <2>1, RemainderOf
  <2> QED
    BY <2>2 DEF c
<1>10. r + b = b + r
  BY <1>2
<1> QED
  BY <1>9, <1>10 DEF s, r

LEMMA RingTurn ==
    ASSUME NEW n \in Nat \ {0}, NEW a \in Int
    PROVE  (a + n) % n = a % n
<1>1. PICK q \in Int : a = (n * q) + (a % n)
  BY Remainder
<1>. DEFINE r == a % n
            b == a + n
            k == q + 1
<1>2. r \in 0..n-1 /\ a = (n * q) + r
  BY <1>1, Remainder
<1>. HIDE DEF r
<1>3. k \in Int /\ b \in Int /\ b = (n * k) + r
  BY <1>2
<1>. HIDE DEF b, k
<1>4. b % n = r
  BY <1>2, <1>3, RemainderOf
<1> QED
  BY <1>4 DEF b, r

LEMMA RingSmall ==
    ASSUME NEW n \in Nat \ {0}, NEW a \in 0..n-1
    PROVE  a % n = a
<1>1. a = (n * 0) + a
  OBVIOUS
<1> QED
  BY <1>1, RemainderOf

\* The distance of two positions is that of the numbers, if it fits in the ring.
LEMMA Distance ==
    ASSUME NEW n \in Nat \ {0}, NEW a \in Int, NEW b \in Int, b - a \in 0..n-1
    PROVE  SizeFilled(a % n, b % n, n) = b - a
<1>. DEFINE r == a % n
            s == b % n
<1>1. r \in 0..n-1 /\ s \in 0..n-1
  BY Remainder
<1>2. PICK p \in Int : a = (n * p) + r
  BY Remainder
<1>3. PICK q \in Int : b = (n * q) + s
  BY Remainder
<1>. HIDE DEF r, s
<1>4. b - a = (n * (q - p)) + (s - r)
  BY <1>1, <1>2, <1>3
<1>5. b - a = (n * 0) + (b - a)
  OBVIOUS
<1>6. CASE s >= r
  <2>1. s - r \in 0..n-1
    BY <1>1, <1>6
  <2>2. s - r = b - a
    BY <1>4, <1>5, <2>1, Multiples
  <2> QED
    BY <1>6, <2>2 DEF r, s, SizeFilled
<1>7. CASE s < r
  <2>1. (s - r) + n \in 0..n-1
    BY <1>1, <1>7
  <2>2. b - a = (n * ((q - p) - 1)) + ((s - r) + n)
    BY <1>1, <1>4
  <2>3. (s - r) + n = b - a
    BY <1>5, <2>1, <2>2, Multiples
  <2>4. s + (n - r) = (s - r) + n
    BY <1>1
  <2> QED
    BY <1>1, <1>7, <2>3, <2>4 DEF r, s, SizeFilled
<1> QED
  BY <1>1, <1>6, <1>7

\* A position which is ahead by less than the whole ring.
LEMMA Ahead ==
    ASSUME NEW n \in Nat \ {0}, NEW r \in 0..n-1, NEW d \in 0..n-1
    PROVE  SizeFilled(r, (r + d) % n, n) = d
<1>1. r % n = r
  BY RingSmall
<1>. DEFINE b == r + d
<1>2. b \in Int /\ b - r = d /\ b - r \in 0..n-1 /\ r \in Int
  OBVIOUS
<1>. HIDE DEF b
<1>3. SizeFilled(r % n, b % n, n) = d
  BY <1>2, Distance
<1> QED
  BY <1>1, <1>3 DEF b

\* Where a position is, from its distance.
LEMMA Behind ==
    ASSUME NEW n \in Nat \ {0}, NEW r \in 0..n-1, NEW w \in 0..n-1
    PROVE  /\ SizeFilled(r, w, n) \in 0..n-1
           /\ w = (r + SizeFilled(r, w, n)) % n
<1>. DEFINE d == SizeFilled(r, w, n)
<1>1. CASE w >= r
  <2>1. d = w - r
    BY <1>1 DEF SizeFilled
  <2> QED
    BY <1>1, <2>1, RingSmall
<1>2. CASE w < r
  <2>1. d = w + (n - r)
    BY <1>2 DEF SizeFilled
  <2>2. r + d = (n * 1) + w
    BY <2>1
  <2>3. d \in 0..n-1
    BY <1>2, <2>1
  <2>4. (r + d) % n = w
    BY <2>2, <2>3, RemainderOf
  <2> QED
    BY <2>3, <2>4
<1> QED
  BY <1>1, <1>2

-----------------------------------------------------------------------------
(* The inductive invariant                                                 *)

\* How many samples the windows have left behind, and how many are waiting.
Read == frames * Hop
Pending == written - Read

\* How far writeBlock is ahead of readBlock, or -1 if it is behind it by one.
FillOf(r, w) == IF SizeFilled(r, w, B) = B - 1 THEN -1 ELSE SizeFilled(r, w, B)
Fill == FillOf(readBlock, writeBlock)

SenderTypes ==
    /\ begin \in Begins /\ gap \in Gaps /\ block \in Blocks /\ faint \in Faint
    /\ written \in Nat /\ frames \in Nat

\* The positions in the ring of samples are those of what was read and written.
Positions ==
    /\ readFrame = Read % Size
    /\ writeFrame = written % Size

\* A sample that is waiting is in its slot.
SlotsFilled == \A n \in Read..written-1 : samples[n % Size] = n

\* How many frames the search for the start and for a token have collected.
FramesCollected ==
    /\ decoding = 0 => Fill \in -1..B-2
    /\ decoding \in 1..NumMessageTokens =>
          /\ Fill \in -1..(B \div 2 - 1)
          /\ readBlock = (endStart + (accumulated + 1) \div 2) % B
    /\ decoding = NumMessageTokens + 1 => Fill \in -1..0

\* What may wait.  A call which finds no event leaves less than a window.  One
\* which returns at an event leaves up to a block more, and the calls that
\* follow analyse what waits before the next event, one Hop for each frame.
Extra == IF pc = "loop" THEN block ELSE 0
Limit == IF decoding = 0 THEN (Window - 1) + (2 * block) - Hop ELSE (Window - 1) + block

Backlog ==
    /\ Pending >= 0
    /\ \/ Pending <= (Window - 1) + Extra
       \/ Pending + (Fill * Hop) <= Limit + Extra

\* The host's blocks are no longer than a window, nor than the Hops of the
\* frames of one token.
BlocksFit == \A b \in Blocks : b <= Window /\ b <= (B \div 2) * Hop

-----------------------------------------------------------------------------
(* The ring of frames                                                      *)

LEMMA FillRange ==
    ASSUME NEW r \in 0..B-1, NEW w \in 0..B-1
    PROVE  FillOf(r, w) \in -1..B-2
<1>1. SizeFilled(r, w, B) \in 0..B-1
  BY DecoderAssumption, Behind
<1> QED
  BY <1>1, DecoderAssumption DEF FillOf

LEMMA FrameWritten ==
    ASSUME NEW r \in 0..B-1, NEW w \in 0..B-1
    PROVE  /\ (w + 1) % B \in 0..B-1
           /\ SizeFilled(r, (w + 1) % B, B) = FillOf(r, w) + 1
<1>. DEFINE d == SizeFilled(r, w, B)
<1>1. d \in 0..B-1 /\ w = (r + d) % B
  BY DecoderAssumption, Behind
<1>. HIDE DEF d
<1>. DEFINE c == r + d
<1>2. c \in Int /\ (c % B) = w
  BY <1>1
<1>3. (w + 1) % B = (c + 1) % B
  <2>1. B \in Nat \ {0} /\ c \in Int /\ 1 \in Int
    BY <1>2, DecoderAssumption
  <2>. HIDE DEF c
  <2>2. ((c % B) + 1) % B = (c + 1) % B
    BY <2>1, RingPlus
  <2> QED
    BY <1>2, <2>2
<1>4. CASE d = B - 1
  <2>1. c + 1 = (B * 1) + r
    BY <1>4, DecoderAssumption
  <2>. DEFINE e == c + 1
  <2>2. e \in Int /\ e = (B * 1) + r
    BY <1>2, <2>1
  <2>. HIDE DEF e
  <2>3. e % B = r
    BY <2>2, DecoderAssumption, RemainderOf
  <2>4. (w + 1) % B = r
    BY <1>3, <2>3 DEF e
  <2>5. SizeFilled(r, r, B) = 0
    BY DEF SizeFilled
  <2>6. FillOf(r, w) = -1
    BY <1>4 DEF FillOf, d
  <2> QED
    BY <2>4, <2>5, <2>6, DecoderAssumption
<1>5. CASE d # B - 1
  <2>. DEFINE e == d + 1
  <2>1. e \in 0..B-1 /\ c + 1 = r + e
    BY <1>1, <1>5, DecoderAssumption
  <2>. HIDE DEF e
  <2>2. SizeFilled(r, (r + e) % B, B) = e
    BY <2>1, DecoderAssumption, Ahead
  <2>3. (r + e) % B \in 0..B-1
    BY <2>1, DecoderAssumption
  <2>4. FillOf(r, w) = d
    BY <1>5 DEF FillOf, d
  <2>5. (w + 1) % B = (r + e) % B
    BY <1>3, <2>1
  <2> QED
    BY <2>2, <2>3, <2>4, <2>5, <1>1 DEF e
<1> QED
  BY <1>4, <1>5

\* A frame at the read position is left behind when the ring is full.
LEMMA FrameLeft ==
    ASSUME NEW r \in 0..B-1, NEW w \in 0..B-1, SizeFilled(r, w, B) = B - 1
    PROVE  /\ (r + 1) % B \in 0..B-1
           /\ FillOf((r + 1) % B, w) = B - 2
<1>1. w = (r + (B - 1)) % B
  BY DecoderAssumption, Behind
<1>. DEFINE s == (r + 1) % B
            d == B - 2
            t == r + 1
<1>2. t \in Int /\ d \in 0..B-1 /\ t + d = r + (B - 1)
  BY DecoderAssumption
<1>3. s \in 0..B-1
  BY DecoderAssumption
<1>4. ((t % B) + d) % B = (t + d) % B
  <2>1. B \in Nat \ {0} /\ t \in Int /\ d \in Int
    BY <1>2, DecoderAssumption
  <2>. HIDE DEF t, d
  <2> QED
    BY <2>1, RingPlus
<1>5. w = (s + d) % B
  BY <1>1, <1>2, <1>4
<1>. HIDE DEF s
<1>6. SizeFilled(s, (s + d) % B, B) = d
  <2>. HIDE DEF d
  <2> QED
    BY <1>2, <1>3, DecoderAssumption, Ahead
<1>7. FillOf(s, w) = d
  BY <1>5, <1>6, DecoderAssumption DEF FillOf
<1> QED
  BY <1>3, <1>7 DEF s

\* The read position goes on by the frames of a token: to the write position,
\* or one beyond it if the half frames add up.
LEMMA TokenLeft ==
    ASSUME NEW e \in 0..B-1, NEW a \in Nat, NEW r \in 0..B-1, NEW w \in 0..B-1,
           r = (e + ((a + 1) \div 2)) % B, w = (r + (B \div 2)) % B,
           NEW s, s = (e + (((a + B) + 1) \div 2)) % B
    PROVE  s \in 0..B-1 /\ FillOf(s, w) \in -1..0
<1>. DEFINE h == e + ((a + 1) \div 2)
            k == e + (((a + B) + 1) \div 2)
            j == B \div 2
<1>1. /\ h \in Int /\ j \in Int /\ k \in Int
      /\ k = h + j \/ k = (h + j) + 1
  BY DecoderAssumption
<1>2. ((h % B) + j) % B = (h + j) % B
  <2>. HIDE DEF h, j
  <2> QED
    BY <1>1, DecoderAssumption, RingPlus
<1>3. w = (h + j) % B /\ s = k % B
  BY <1>2
<1>. HIDE DEF h, j, k
<1>4. s \in 0..B-1
  BY <1>1, <1>3, DecoderAssumption
<1>5. CASE k = h + j
  <2>1. SizeFilled(s, w, B) = 0
    BY <1>3, <1>5 DEF SizeFilled
  <2> QED
    BY <1>4, <2>1, DecoderAssumption DEF FillOf
<1>6. CASE k = (h + j) + 1
  <2>. DEFINE g == h + j
              b == B - 1
              m == k + b
  <2>1. /\ g \in Int /\ b \in 0..B-1 /\ b \in Int /\ k \in Int /\ m \in Int
        /\ m = g + B /\ g + B = B + g
    BY <1>1, <1>6, DecoderAssumption
  <2>2. m % B = g % B
    <3>1. B \in Nat \ {0} /\ g \in Int /\ m = g + B
      BY <2>1, DecoderAssumption
    <3>. HIDE DEF m, g
    <3> QED
      BY <3>1, RingTurn
  <2>3. ((k % B) + b) % B = (k + b) % B
    <3>. HIDE DEF b
    <3> QED
      BY <2>1, DecoderAssumption, RingPlus
  <2>4. w = (s + b) % B
    BY <1>3, <2>2, <2>3
  <2>. HIDE DEF b
  <2>5. SizeFilled(s, (s + b) % B, B) = b
    BY <1>4, <2>1, DecoderAssumption, Ahead
  <2>6. FillOf(s, w) = -1
    BY <2>4, <2>5 DEF FillOf, b
  <2> QED
    BY <1>4, <2>6
<1> QED
  BY <1>1, <1>5, <1>6

-----------------------------------------------------------------------------
(* What is heard                                                           *)

LastToken == Token(Messages, TokensSent)

LEMMA Monotone ==
    ASSUME NEW x \in Nat, NEW y \in Nat, NEW t \in Nat, x <= y
    PROVE  x * t <= y * t /\ x * t \in Nat
<1>1. y * t = (x * t) + ((y - x) * t) /\ (y - x) * t \in Nat
  OBVIOUS
<1> QED
  BY <1>1

LEMMA TokenRange ==
    ASSUME NEW m \in 1..Messages, NEW k \in 1..TokensSent
    PROVE  Token(m, k) \in 0..LastToken
<1>. DEFINE x == m - 1
            y == Messages - 1
            t == TokensSent
<1>1. x \in Nat /\ y \in Nat /\ t \in Nat /\ x <= y /\ k \in 1..t
  BY DecoderAssumption DEF TokensSent
<1>2. Token(m, k) = (x * t) + k /\ LastToken = (y * t) + t
  BY DEF Token, LastToken
<1>. HIDE DEF x, y, t
<1>3. x * t <= y * t /\ x * t \in Nat /\ y * t \in Nat
  BY <1>1, Monotone
<1>. DEFINE u == x * t
            v == y * t
<1>4. u <= v /\ u \in Nat /\ v \in Nat /\ Token(m, k) = u + k /\ LastToken = v + t
  BY <1>2, <1>3
<1>. HIDE DEF u, v
<1> QED
  BY <1>1, <1>4

LEMMA SilenceRange == Silence \in 0..LastToken
<1>1. CASE Messages = 0
  <2>1. LastToken = ((0 - 1) * TokensSent) + TokensSent
    BY <1>1 DEF LastToken, Token
  <2>2. LastToken = 0
    BY <2>1, DecoderAssumption DEF TokensSent
  <2> QED
    BY <2>2 DEF Silence
<1>2. CASE Messages # 0
  <2>1. 1 \in 1..Messages /\ 1 \in 1..TokensSent
    BY <1>2, DecoderAssumption DEF TokensSent
  <2>2. Token(1, 1) \in 0..LastToken
    BY <2>1, TokenRange
  <2>3. Token(1, 1) = 1
    BY DecoderAssumption DEF Token, TokensSent
  <2>4. LastToken \in Int
    BY DecoderAssumption DEF LastToken, Token, TokensSent
  <2> QED
    BY <2>2, <2>3, <2>4 DEF Silence
<1> QED
  BY <1>1, <1>2

LEMMA SoundRange ==
    ASSUME begin \in Nat, gap \in Nat, NEW n \in Int
    PROVE  Sound(n) \in 0..LastToken
<1>. DEFINE p == (TokensSent * TokenSamples) + gap
            after == n - begin
            d == after \div p
            m == d + 1
            o == n - BeginOf(m)
            k == (o \div TokenSamples) + 1
<1>1. Sound(n) = IF n < begin \/ m > Messages \/ k > TokensSent THEN Silence ELSE Token(m, k)
  BY DEF Sound
<1>2. CASE n < begin \/ m > Messages \/ k > TokensSent
  BY <1>1, <1>2, SilenceRange
<1>3. CASE ~(n < begin \/ m > Messages \/ k > TokensSent)
  <2>1. TokensSent \in Nat \ {0} /\ TokenSamples \in Nat \ {0}
    BY DecoderAssumption DEF TokensSent
  <2>2. TokensSent * TokenSamples \in Nat \ {0}
    BY <2>1
  <2>3. p \in Nat \ {0}
    BY <2>2
  <2>4. after \in Nat
    BY <1>3
  <2>5. o = after - (d * p)
    <3>1. o = n - (begin + (((d + 1) - 1) * p))
      BY DEF BeginOf
    <3>. HIDE DEF p
    <3>2. d \in Int
      BY <2>3, <2>4
    <3>. HIDE DEF d
    <3>3. (d + 1) - 1 = d
      BY <3>2
    <3>4. o = n - (begin + (d * p))
      BY <3>1, <3>3
    <3>. DEFINE x == d * p
    <3>5. x \in Int
      BY <2>3, <3>2
    <3>. HIDE DEF x, o
    <3> QED
      BY <3>4, <3>5 DEF x
  <2>. HIDE DEF p
  <2>6. d \in Nat /\ after - (d * p) \in Nat
    <3>1. \A a \in Nat, b \in Nat \ {0} : a \div b \in Nat /\ a - ((a \div b) * b) \in Nat
      OBVIOUS
    <3>. HIDE DEF after
    <3> QED
      BY <2>3, <2>4, <3>1
  <2>7. o \in Nat
    BY <2>5, <2>6
  <2>. HIDE DEF o, d
  <2>8. m \in 1..Messages
    BY <1>3, <2>6, DecoderAssumption
  <2>9. o \div TokenSamples \in Nat
    BY <2>1, <2>7
  <2>10. k \in 1..TokensSent
    BY <1>3, <2>1, <2>9
  <2>11. Token(m, k) \in 0..LastToken
    <3>. HIDE DEF m, k
    <3> QED
      BY <2>8, <2>10, TokenRange
  <2> QED
    BY <1>1, <1>3, <2>11
<1> QED
  BY <1>2, <1>3

LEMMA HearsRange ==
    ASSUME begin \in Nat, gap \in Nat,
           NEW window, \A i \in DOMAIN window : window[i] \in Int
    PROVE  Hears(window) \subseteq (0..LastToken) \X (0..LastToken)
<1>. DEFINE sounds == {<< i, Sound(window[i]) >> : i \in DOMAIN window}
            Loudness(t) == Cardinality({x \in sounds : x[2] = t})
            Played == {t \in {x[2] : x \in sounds} : t # Silence /\ Loudness(t) >= faint}
            Loudest == {t \in Played : \A u \in Played : Loudness(t) >= Loudness(u)}
            Second(t) == IF Played = {t} THEN Silence ELSE CHOOSE u \in Played : u # t
<1>1. Hears(window) = IF frames \in burst \/ Played = {} THEN {<< Silence, Silence >>}
                      ELSE {<< t, Second(t) >> : t \in Loudest}
  BY DEF Hears
<1>2. Played \subseteq 0..LastToken
  <2>1. \A i \in DOMAIN window : Sound(window[i]) \in 0..LastToken
    BY SoundRange
  <2>2. \A x \in sounds : x[2] \in 0..LastToken
    BY <2>1
  <2>. HIDE DEF sounds
  <2> QED
    BY <2>2
<1>3. Loudest \subseteq Played
  OBVIOUS
<1>. HIDE DEF Played, Loudest
<1>4. \A t \in Loudest : Second(t) \in 0..LastToken
  BY <1>2, <1>3, SilenceRange
<1>. HIDE DEF Second
<1> QED
  BY <1>1, <1>2, <1>3, <1>4, SilenceRange

-----------------------------------------------------------------------------
(* Types                                                                   *)

Typed == SenderTypes /\ TypeOK

LEMMA Sizes ==
    /\ Size \in Nat \ {0} /\ Window \in Nat \ {0} /\ Hop \in Nat \ {0} /\ B \in Nat \ {0, 1}
    /\ Window <= Size /\ Hop <= Window /\ Size = 4 * Window
  BY DecoderAssumption DEF Size

LEMMA TypesInit ==
    ASSUME Init PROVE Typed
<1>1. SenderTypes
  BY DEF Init, SenderTypes
<1>2. samples \in [0..Size-1 -> -1..written]
  BY DEF Init
<1>3. {readFrame, writeFrame} \subseteq 0..Size-1
  BY Sizes DEF Init
<1>4. strongest \in [0..B-1 -> (0..LastToken) \X (0..LastToken)]
  BY SilenceRange DEF Init, NoTokens
<1>5. spectrum \in [0..B-1 -> 0..LastToken]
  BY SilenceRange DEF Init
<1>6. {readBlock, writeBlock, endStart} \subseteq 0..B-1 /\ accumulated \in Nat
  BY DecoderAssumption DEF Init
<1>7. decoding \in 0..NumMessageTokens + 1
  BY DecoderAssumption DEF Init
<1>8. pc \in {"host", "loop"} /\ result \in {"none", "start", "token", "word"}
  BY DEF Init
<1> QED
  BY <1>1, <1>2, <1>3, <1>4, <1>5, <1>6, <1>7, <1>8 DEF Typed, TypeOK, LastToken

\* What an iteration of the loop does to the types.
LEMMA WindowTaken ==
    ASSUME Typed, TakeWindow
    PROVE  /\ SenderTypes'
           /\ samples' \in [0..Size-1 -> -1..written']
           /\ {readFrame', writeFrame'} \subseteq 0..Size-1
           /\ Hears(NextWindow) \subseteq (0..LastToken) \X (0..LastToken)
<1>1. SenderTypes'
  BY DEF Typed, SenderTypes, TakeWindow, sender
<1>2. samples' \in [0..Size-1 -> -1..written']
  BY DEF Typed, TypeOK, TakeWindow
<1>3. {readFrame', writeFrame'} \subseteq 0..Size-1
  <2>1. readFrame \in 0..Size-1 /\ writeFrame \in 0..Size-1
    BY DEF Typed, TypeOK
  <2>2. readFrame' = (readFrame + Hop) % Size /\ writeFrame' = writeFrame
    BY DEF TakeWindow
  <2> QED
    BY <2>1, <2>2, Sizes
<1>4. \A i \in DOMAIN NextWindow : NextWindow[i] \in Int
  <2>1. DOMAIN NextWindow = 0..Window-1
    BY DEF NextWindow
  <2>2. ASSUME NEW i \in 0..Window-1 PROVE NextWindow[i] \in Int
    <3>1. readFrame \in 0..Size-1
      BY DEF Typed, TypeOK
    <3>2. (i + readFrame) % Size \in 0..Size-1
      BY <3>1, Sizes
    <3>3. NextWindow[i] = samples[(i + readFrame) % Size]
      BY DEF NextWindow
    <3>4. written \in Nat
      BY DEF Typed, SenderTypes
    <3> QED
      BY <3>2, <3>3, <3>4 DEF Typed, TypeOK
  <2> QED
    BY <2>1, <2>2
<1>5. begin \in Nat /\ gap \in Nat
  BY DecoderAssumption DEF Typed, SenderTypes
<1>. DEFINE window == NextWindow
<1>6. \A i \in DOMAIN window : window[i] \in Int
  BY <1>4
<1>. HIDE DEF window
<1>7. Hears(window) \subseteq (0..LastToken) \X (0..LastToken)
  BY <1>5, <1>6, HearsRange
<1> QED
  BY <1>1, <1>2, <1>3, <1>7 DEF window

\* What the proofs about a step need of the positions and the machine.
Ranges ==
    /\ readFrame \in 0..Size-1 /\ writeFrame \in 0..Size-1
    /\ readBlock \in 0..B-1 /\ writeBlock \in 0..B-1 /\ endStart \in 0..B-1
    /\ accumulated \in Nat /\ decoding \in 0..NumMessageTokens + 1
    /\ pc \in {"host", "loop"} /\ result \in {"none", "start", "token", "word"}

LEMMA TypeOKParts ==
    TypeOK <=> /\ Ranges
               /\ samples \in [0..Size-1 -> -1..written]
               /\ strongest \in [0..B-1 -> (0..LastToken) \X (0..LastToken)]
               /\ spectrum \in [0..B-1 -> 0..LastToken]
  BY DEF TypeOK, Ranges, LastToken

LEMMA TypeOKPartsNext ==
    TypeOK' <=> /\ Ranges'
                /\ samples' \in [0..Size-1 -> -1..written']
                /\ strongest' \in [0..B-1 -> (0..LastToken) \X (0..LastToken)]
                /\ spectrum' \in [0..B-1 -> 0..LastToken]
  BY DEF TypeOK, Ranges, LastToken

LEMMA Numbers ==
    ASSUME Typed
    PROVE  /\ written \in Nat /\ frames \in Nat /\ block \in Nat \ {0} /\ block <= Size
           /\ B \in Nat \ {0, 1} /\ NumMessageTokens \in Nat \ {0}
           /\ begin \in Nat /\ gap \in Nat /\ Hop \in Nat \ {0}
<1>1. block \in 1..Size
  BY DecoderAssumption DEF Typed, SenderTypes
<1> QED
  BY <1>1, Sizes, DecoderAssumption DEF Typed, SenderTypes

\* The outline of the three actions of the loop, without what they compute.
SearchOutline ==
    /\ decoding = 0
    /\ \/ /\ SizeFilled(readBlock, writeBlock', B) < B - 1
          /\ UNCHANGED << readBlock, endStart, accumulated, decoding >>
          /\ pc' = "loop" /\ result' = result
       \/ /\ SizeFilled(readBlock, writeBlock', B) >= B - 1
          /\ readBlock' = writeBlock' /\ endStart' = writeBlock' /\ accumulated' = 0
          /\ decoding' = 1
          /\ pc' = "host" /\ result' = "start"
       \/ /\ SizeFilled(readBlock, writeBlock', B) >= B - 1
          /\ readBlock' = (readBlock + 1) % B
          /\ UNCHANGED << endStart, accumulated, decoding >>
          /\ pc' = "loop" /\ result' = result

ReadOutline ==
    /\ decoding \in 1..NumMessageTokens
    /\ UNCHANGED << strongest, endStart >>
    /\ \/ /\ SizeFilled(readBlock, writeBlock', B) < B \div 2
          /\ UNCHANGED << readBlock, accumulated, decoding >>
          /\ pc' = "loop" /\ result' = result
       \/ /\ SizeFilled(readBlock, writeBlock', B) >= B \div 2
          /\ accumulated' = accumulated + B
          /\ readBlock' = (endStart + ((accumulated' + 1) \div 2)) % B
          /\ \/ decoding' = decoding /\ pc' = "loop" /\ result' = result
             \/ decoding' = decoding + 1 /\ pc' = "host" /\ result' = "token"

FinishOutline ==
    /\ decoding > NumMessageTokens
    /\ decoding' = 0 /\ pc' = "host" /\ result' = "word"
    /\ UNCHANGED << strongest, spectrum, readBlock, writeBlock, endStart, accumulated >>

LEMMA SearchSteps ==
    ASSUME SearchStart
    PROVE  /\ TakeWindow /\ SearchOutline
           /\ \E heard \in Hears(NextWindow) :
                 WriteFrame(heard) /\ strongest' = [strongest EXCEPT ![writeBlock] = heard]
<1>1. SearchOutline
  BY DEF SearchStart, SearchOutline, Return, GoOn, BeginTokens
<1> QED
  BY <1>1 DEF SearchStart

LEMMA ReadSteps ==
    ASSUME ReadToken
    PROVE  TakeWindow /\ ReadOutline /\ \E heard \in Hears(NextWindow) : WriteFrame(heard)
<1>1. ReadOutline
  BY DEF ReadToken, ReadOutline, Return, GoOn
<1> QED
  BY <1>1 DEF ReadToken

LEMMA FinishSteps ==
    ASSUME FinishWord
    PROVE  TakeWindow /\ FinishOutline
  BY DEF FinishWord, FinishOutline, Return, frameRing

LEMMA FramesTyped ==
    ASSUME Typed, NEW heard \in (0..LastToken) \X (0..LastToken), WriteFrame(heard)
    PROVE  spectrum' \in [0..B-1 -> 0..LastToken] /\ writeBlock' \in 0..B-1
<1>1. writeBlock' = (writeBlock + 1) % B /\ spectrum' = [spectrum EXCEPT ![writeBlock] = heard[1]]
  BY DEF WriteFrame
<1>2. writeBlock \in 0..B-1 /\ spectrum \in [0..B-1 -> 0..LastToken]
  BY TypeOKParts DEF Typed, Ranges
<1>3. heard[1] \in 0..LastToken
  OBVIOUS
<1>4. spectrum' \in [0..B-1 -> 0..LastToken]
  BY <1>1, <1>2, <1>3
<1>5. writeBlock' \in 0..B-1
  BY <1>1, <1>2, Numbers
<1> QED
  BY <1>4, <1>5

LEMMA TypesStep ==
    ASSUME Typed, [Next]_vars PROVE Typed'
<1>a. /\ Ranges /\ samples \in [0..Size-1 -> -1..written]
      /\ strongest \in [0..B-1 -> (0..LastToken) \X (0..LastToken)]
      /\ spectrum \in [0..B-1 -> 0..LastToken]
  BY TypeOKParts DEF Typed
<1>b. SUFFICES /\ SenderTypes' /\ Ranges' /\ samples' \in [0..Size-1 -> -1..written']
               /\ strongest' \in [0..B-1 -> (0..LastToken) \X (0..LastToken)]
               /\ spectrum' \in [0..B-1 -> 0..LastToken]
  BY TypeOKPartsNext DEF Typed
<1>1. CASE DecodeAudioBuffer
  <2>1. SenderTypes'
    BY <1>1, Numbers DEF Typed, DecodeAudioBuffer, SenderTypes, sender
  <2>2. samples' \in [0..Size-1 -> -1..written']
    <3>. DEFINE fresh(i) == IF (i - writeFrame) % Size < block
                              THEN written + ((i - writeFrame) % Size) ELSE samples[i]
    <3>1. ASSUME NEW i \in 0..Size-1 PROVE fresh(i) \in -1..(written + block)
      <4>. DEFINE offset == (i - writeFrame) % Size
      <4>1. offset \in 0..Size-1
        <5>1. i - writeFrame \in Int /\ Size \in Nat \ {0}
          BY <1>a, Sizes DEF Ranges
        <5> QED
          BY <5>1, Remainder
      <4>2. samples[i] \in -1..written
        BY <1>a
      <4>. HIDE DEF offset
      <4>3. (IF offset < block THEN written + offset ELSE samples[i]) \in -1..(written + block)
        BY <4>1, <4>2, Numbers, Sizes
      <4> QED
        BY <4>3 DEF offset
    <3>2. samples' = [i \in 0..Size-1 |-> fresh(i)] /\ written' = written + block
      BY <1>1 DEF DecodeAudioBuffer
    <3>. HIDE DEF fresh
    <3> QED
      BY <3>1, <3>2
  <2>3. readFrame' = readFrame /\ writeFrame' = (block + writeFrame) % Size
    BY <1>1 DEF DecodeAudioBuffer
  <2>4. writeFrame' \in 0..Size-1
    <3>1. block + writeFrame \in Int /\ Size \in Nat \ {0}
      BY <1>a, Numbers, Sizes DEF Ranges
    <3> QED
      BY <2>3, <3>1, Remainder
  <2>5. /\ UNCHANGED << strongest, spectrum, readBlock, writeBlock, endStart, accumulated >>
        /\ UNCHANGED << decoding, result >> /\ pc' = "loop"
    BY <1>1 DEF DecodeAudioBuffer, frameRing
  <2>6. Ranges'
    BY <1>a, <2>3, <2>4, <2>5 DEF Ranges
  <2> QED
    BY <1>a, <2>1, <2>2, <2>5, <2>6
<1>2. CASE SearchStart
  <2>1. TakeWindow /\ SearchOutline
    BY <1>2, SearchSteps
  <2>2. PICK heard \in Hears(NextWindow) :
           WriteFrame(heard) /\ strongest' = [strongest EXCEPT ![writeBlock] = heard]
    BY <1>2, SearchSteps
  <2>3. heard \in (0..LastToken) \X (0..LastToken)
    BY <2>1, <2>2, WindowTaken
  <2>4. spectrum' \in [0..B-1 -> 0..LastToken] /\ writeBlock' \in 0..B-1
    BY <2>2, <2>3, FramesTyped
  <2>5. strongest' \in [0..B-1 -> (0..LastToken) \X (0..LastToken)]
    BY <1>a, <2>2, <2>3 DEF Ranges
  <2>6. SenderTypes' /\ samples' \in [0..Size-1 -> -1..written']
        /\ readFrame' \in 0..Size-1 /\ writeFrame' \in 0..Size-1
    BY <2>1, WindowTaken
  <2>7. (readBlock + 1) % B \in 0..B-1
    <3>1. readBlock + 1 \in Int /\ B \in Nat \ {0}
      BY <1>a, Numbers DEF Ranges
    <3> QED
      BY <3>1, Remainder
  <2>8. readBlock' \in 0..B-1 /\ endStart' \in 0..B-1 /\ accumulated' \in Nat
    <3>1. /\ readBlock' = readBlock \/ readBlock' = writeBlock' \/ readBlock' = (readBlock + 1) % B
          /\ endStart' = endStart \/ endStart' = writeBlock'
          /\ accumulated' = accumulated \/ accumulated' = 0
      BY <2>1 DEF SearchOutline
    <3>2. readBlock \in 0..B-1 /\ endStart \in 0..B-1 /\ accumulated \in Nat
      BY <1>a DEF Ranges
    <3>3. readBlock' \in 0..B-1
      BY <2>4, <2>7, <3>1, <3>2
    <3> QED
      BY <2>4, <3>1, <3>2, <3>3
  <2>9. decoding' \in 0..NumMessageTokens + 1
    <3>1. decoding = 0 /\ (decoding' = decoding \/ decoding' = 1)
      BY <2>1 DEF SearchOutline
    <3> QED
      BY <3>1, Numbers
  <2>10. pc' \in {"host", "loop"} /\ result' \in {"none", "start", "token", "word"}
    BY <1>a, <2>1 DEF Ranges, SearchOutline
  <2> QED
    BY <2>4, <2>5, <2>6, <2>8, <2>9, <2>10 DEF Ranges
<1>3. CASE ReadToken
  <2>1. TakeWindow /\ ReadOutline
    BY <1>3, ReadSteps
  <2>2. PICK heard \in Hears(NextWindow) : WriteFrame(heard)
    BY <1>3, ReadSteps
  <2>3. heard \in (0..LastToken) \X (0..LastToken)
    BY <2>1, <2>2, WindowTaken
  <2>4. spectrum' \in [0..B-1 -> 0..LastToken] /\ writeBlock' \in 0..B-1
    BY <2>2, <2>3, FramesTyped
  <2>5. SenderTypes' /\ samples' \in [0..Size-1 -> -1..written']
        /\ readFrame' \in 0..Size-1 /\ writeFrame' \in 0..Size-1
    BY <2>1, WindowTaken
  <2>6. accumulated' \in Nat
    <3>1. accumulated' = accumulated \/ accumulated' = accumulated + B
      BY <2>1 DEF ReadOutline
    <3>2. accumulated \in Nat /\ B \in Nat
      BY <1>a, Numbers DEF Ranges
    <3>3. accumulated + B \in Nat
      BY <3>2
    <3> QED
      BY <3>1, <3>2, <3>3
  <2>7. readBlock' \in 0..B-1
    <3>1. endStart + ((accumulated' + 1) \div 2) \in Int
      BY <1>a, <2>6 DEF Ranges
    <3>2. (endStart + ((accumulated' + 1) \div 2)) % B \in 0..B-1
      BY <3>1, Numbers, Remainder
    <3> QED
      BY <1>a, <2>1, <3>2 DEF Ranges, ReadOutline
  <2>8. decoding' \in 0..NumMessageTokens + 1
    <3>1. decoding \in 1..NumMessageTokens /\ (decoding' = decoding \/ decoding' = decoding + 1)
      BY <2>1 DEF ReadOutline
    <3> QED
      BY <3>1, Numbers
  <2>9. pc' \in {"host", "loop"} /\ result' \in {"none", "start", "token", "word"}
        /\ UNCHANGED << strongest, endStart >>
    BY <1>a, <2>1 DEF Ranges, ReadOutline
  <2> QED
    BY <1>a, <2>4, <2>5, <2>6, <2>7, <2>8, <2>9 DEF Ranges
<1>4. CASE FinishWord
  <2>1. TakeWindow /\ FinishOutline
    BY <1>4, FinishSteps
  <2>2. SenderTypes' /\ samples' \in [0..Size-1 -> -1..written']
        /\ readFrame' \in 0..Size-1 /\ writeFrame' \in 0..Size-1
    BY <2>1, WindowTaken
  <2>3. Ranges'
    BY <1>a, <2>1, <2>2, Numbers DEF Ranges, FinishOutline
  <2> QED
    BY <1>a, <2>1, <2>2, <2>3 DEF FinishOutline
<1>5. CASE NoWindow
  BY <1>5, <1>a DEF Typed, NoWindow, Return, Ranges, SenderTypes, sender, sampleRing, frameRing
<1>6. CASE GetDecodedData
  BY <1>6, <1>a DEF Typed, GetDecodedData, HandOut, Ranges, SenderTypes, sender, sampleRing,
                    frameRing
<1>7. CASE UNCHANGED vars
  BY <1>7, <1>a DEF Typed, vars, Ranges, SenderTypes, sender, sampleRing, frameRing
<1> QED
  BY <1>1, <1>2, <1>3, <1>4, <1>5, <1>6, <1>7 DEF Next

\* Whatever the host hands over and whatever is heard, the four positions stay
\* inside of their rings, the tokens that are noted were sent or are silence,
\* and the decoder stays in one of its states.
THEOREM TypeCorrect == Spec => []TypeOK
<1>1. Init => Typed
  BY TypesInit
<1>2. Typed /\ [Next]_vars => Typed'
  BY TypesStep
<1>3. Typed => TypeOK
  BY DEF Typed
<1> QED
  BY <1>1, <1>2, <1>3, PTL DEF Spec

-----------------------------------------------------------------------------
(* The frames of a step                                                    *)

LEMMA FillTyped ==
    ASSUME Ranges PROVE Fill \in -1..B-2
  BY FillRange DEF Ranges, Fill

\* One frame more is between the two positions.
LEMMA FrameAdded ==
    ASSUME Typed, TakeWindow, \E heard \in Hears(NextWindow) : WriteFrame(heard)
    PROVE  /\ writeBlock' \in 0..B-1
           /\ SizeFilled(readBlock, writeBlock', B) = Fill + 1
<1>1. readBlock \in 0..B-1 /\ writeBlock \in 0..B-1
  BY TypeOKParts DEF Typed, Ranges
<1>2. writeBlock' = (writeBlock + 1) % B
  BY DEF WriteFrame
<1> QED
  BY <1>1, <1>2, FrameWritten DEF Fill

LEMMA SearchFrames ==
    ASSUME Typed, FramesCollected, SearchStart
    PROVE  /\ FramesCollected' /\ decoding = 0
           /\ \/ Fill' = Fill + 1 /\ decoding' = 0 /\ pc' = "loop"
              \/ Fill = B - 2 /\ Fill' = 0 /\ decoding' = 1 /\ pc' = "host"
              \/ Fill = B - 2 /\ Fill' = Fill /\ decoding' = 0 /\ pc' = "loop"
<1>1. /\ Ranges /\ SearchOutline /\ writeBlock' \in 0..B-1
      /\ SizeFilled(readBlock, writeBlock', B) = Fill + 1
  BY SearchSteps, FrameAdded, TypeOKParts DEF Typed
<1>2. Fill \in -1..B-2 /\ Fill' = FillOf(readBlock', writeBlock')
  BY <1>1, FillTyped DEF Fill
<1>3. readBlock \in 0..B-1 /\ B \in Nat \ {0, 1} /\ NumMessageTokens \in Nat \ {0}
  BY <1>1, Numbers DEF Ranges
<1>4. CASE /\ SizeFilled(readBlock, writeBlock', B) < B - 1
           /\ UNCHANGED << readBlock, endStart, accumulated, decoding >>
           /\ pc' = "loop" /\ decoding = 0
  <2>1. Fill' = Fill + 1
    BY <1>1, <1>2, <1>3, <1>4 DEF FillOf
  <2>2. Fill' \in -1..B-2
    BY <1>1, <1>2, <1>3, <1>4, <2>1
  <2> QED
    BY <1>3, <1>4, <2>1, <2>2 DEF FramesCollected
<1>5. CASE /\ SizeFilled(readBlock, writeBlock', B) >= B - 1
           /\ readBlock' = writeBlock' /\ endStart' = writeBlock' /\ accumulated' = 0
           /\ decoding' = 1 /\ pc' = "host" /\ decoding = 0
  <2>1. Fill = B - 2
    BY <1>1, <1>2, <1>3, <1>5
  <2>2. SizeFilled(readBlock', writeBlock', B) = 0
    <3>1. \A x \in 0..B-1 : SizeFilled(x, x, B) = 0
      BY DEF SizeFilled
    <3> QED
      BY <1>1, <1>5, <3>1
  <2>3. Fill' = 0
    BY <1>2, <1>3, <2>2 DEF FillOf
  <2>4. readBlock' = (endStart' + ((accumulated' + 1) \div 2)) % B
    <3>1. readBlock' = readBlock' % B
      BY <1>1, <1>3, <1>5, RingSmall
    <3>2. accumulated' + 1 = 1 /\ 1 \div 2 = 0
      BY <1>5
    <3>3. endStart' + 0 = readBlock'
      <4>1. endStart' = readBlock' /\ readBlock' \in Int
        BY <1>1, <1>3, <1>5
      <4>2. \A x \in Int : x + 0 = x
        OBVIOUS
      <4> QED
        BY <4>1, <4>2
    <3> QED
      BY <3>1, <3>2, <3>3
  <2>5. 0 \in -1..(B \div 2 - 1)
    BY <1>3
  <2>6. decoding' # NumMessageTokens + 1 /\ decoding' # 0
    BY <1>3, <1>5
  <2>7. FramesCollected'
    BY <2>3, <2>4, <2>5, <2>6 DEF FramesCollected
  <2> QED
    BY <1>5, <2>1, <2>3, <2>7
<1>6. CASE /\ SizeFilled(readBlock, writeBlock', B) >= B - 1
           /\ readBlock' = (readBlock + 1) % B
           /\ UNCHANGED << endStart, accumulated, decoding >>
           /\ pc' = "loop" /\ decoding = 0
  <2>1. Fill = B - 2 /\ SizeFilled(readBlock, writeBlock', B) = B - 1
    BY <1>1, <1>2, <1>3, <1>6
  <2>2. FillOf((readBlock + 1) % B, writeBlock') = B - 2
    BY <1>1, <1>3, <2>1, FrameLeft
  <2>3. Fill' = Fill
    BY <1>2, <1>6, <2>1, <2>2
  <2> QED
    BY <1>2, <1>3, <1>6, <2>1, <2>3 DEF FramesCollected
<1> QED
  BY <1>1, <1>4, <1>5, <1>6 DEF SearchOutline

LEMMA ReadFrames ==
    ASSUME Typed, FramesCollected, ReadToken
    PROVE  /\ FramesCollected' /\ decoding \in 1..NumMessageTokens /\ decoding' # 0
           /\ \/ Fill' = Fill + 1 /\ pc' = "loop"
              \/ Fill = (B \div 2) - 1 /\ Fill' \in -1..0 /\ pc' \in {"loop", "host"}
<1>1. /\ Ranges /\ ReadOutline /\ writeBlock' \in 0..B-1
      /\ SizeFilled(readBlock, writeBlock', B) = Fill + 1
  BY ReadSteps, FrameAdded, TypeOKParts DEF Typed
<1>2. Fill' = FillOf(readBlock', writeBlock')
  BY DEF Fill
<1>3. /\ readBlock \in 0..B-1 /\ B \in Nat \ {0, 1} /\ NumMessageTokens \in Nat \ {0}
      /\ endStart \in 0..B-1 /\ accumulated \in Nat
  BY <1>1, Numbers DEF Ranges
<1>4. decoding \in 1..NumMessageTokens /\ endStart' = endStart
  BY <1>1 DEF ReadOutline
<1>5. /\ Fill \in -1..(B \div 2 - 1)
      /\ readBlock = (endStart + ((accumulated + 1) \div 2)) % B
  BY <1>4 DEF FramesCollected
<1>6. CASE /\ SizeFilled(readBlock, writeBlock', B) < B \div 2
           /\ UNCHANGED << readBlock, accumulated, decoding >> /\ pc' = "loop"
  <2>1. SizeFilled(readBlock', writeBlock', B) = Fill + 1 /\ Fill + 1 < B \div 2
    BY <1>1, <1>6
  <2>2. Fill' = Fill + 1 /\ Fill' \in -1..(B \div 2 - 1)
    BY <1>2, <1>3, <1>5, <2>1 DEF FillOf
  <2>3. decoding' # 0 /\ decoding' # NumMessageTokens + 1
    BY <1>3, <1>4, <1>6
  <2>4. readBlock' = (endStart' + ((accumulated' + 1) \div 2)) % B
    BY <1>4, <1>5, <1>6
  <2>5. FramesCollected'
    BY <2>2, <2>3, <2>4 DEF FramesCollected
  <2> QED
    BY <1>4, <1>6, <2>2, <2>3, <2>5
<1>7. CASE /\ SizeFilled(readBlock, writeBlock', B) >= B \div 2
           /\ accumulated' = accumulated + B
           /\ readBlock' = (endStart + ((accumulated' + 1) \div 2)) % B
           /\ \/ decoding' = decoding /\ pc' = "loop"
              \/ decoding' = decoding + 1 /\ pc' = "host"
  <2>1. SizeFilled(readBlock, writeBlock', B) = B \div 2 /\ Fill = (B \div 2) - 1
    BY <1>1, <1>3, <1>5, <1>7
  <2>2. writeBlock' = (readBlock + (B \div 2)) % B
    BY <1>1, <1>3, <2>1, Behind
  <2>3. readBlock' = (endStart + (((accumulated + B) + 1) \div 2)) % B
    BY <1>7
  <2>4. readBlock' \in 0..B-1 /\ FillOf(readBlock', writeBlock') \in -1..0
    BY <1>1, <1>3, <1>5, <2>2, <2>3, TokenLeft
  <2>5. Fill' \in -1..0
    BY <1>2, <2>4
  <2>6. Fill' \in -1..(B \div 2 - 1)
    BY <1>3, <2>5
  <2>7. decoding' # 0 /\ pc' \in {"loop", "host"}
    BY <1>3, <1>4, <1>7
  <2>8. readBlock' = (endStart' + ((accumulated' + 1) \div 2)) % B
    BY <1>4, <1>7
  <2>9. FramesCollected'
    BY <2>5, <2>6, <2>7, <2>8 DEF FramesCollected
  <2> QED
    BY <1>4, <2>1, <2>5, <2>7, <2>9
<1> QED
  BY <1>1, <1>6, <1>7 DEF ReadOutline

LEMMA FinishFrames ==
    ASSUME Typed, FramesCollected, FinishWord
    PROVE  /\ FramesCollected' /\ decoding # 0 /\ decoding' = 0
           /\ Fill \in -1..0 /\ Fill' = Fill /\ pc' = "host"
<1>1. Ranges /\ FinishOutline
  BY FinishSteps, TypeOKParts DEF Typed
<1>2. decoding = NumMessageTokens + 1 /\ decoding # 0
  BY <1>1, Numbers DEF Ranges, FinishOutline
<1>3. Fill \in -1..0
  BY <1>2 DEF FramesCollected
<1>4. Fill' = Fill
  BY <1>1 DEF FinishOutline, Fill
<1>5. 0 # NumMessageTokens + 1 /\ -1..0 \subseteq -1..B-2
  BY Numbers
<1>6. FramesCollected'
  BY <1>1, <1>3, <1>4, <1>5 DEF FinishOutline, FramesCollected
<1> QED
  BY <1>1, <1>2, <1>3, <1>4, <1>6 DEF FinishOutline

-----------------------------------------------------------------------------
(* The samples of a step                                                   *)

\* The products in Backlog.
LEMMA Products ==
    ASSUME Typed, BlocksFit
    PROVE  /\ Read \in Int /\ Pending \in Int
           /\ block <= Window /\ block <= (B \div 2) * Hop
           /\ \A f \in Int : f * Hop \in Int /\ (f + 1) * Hop = (f * Hop) + Hop
           /\ \A f \in -1..B-2 : f * Hop >= 0 - Hop
           /\ 0 * Hop = 0 /\ (-1) * Hop = 0 - Hop
           /\ ((B \div 2) - 1) * Hop = ((B \div 2) * Hop) - Hop
           /\ (B - 2) * Hop >= (2 * ((B \div 2) * Hop)) - (2 * Hop)
<1>1. block <= Window /\ block <= (B \div 2) * Hop
  BY DEF BlocksFit, Typed, SenderTypes
<1>2. Hop \in Nat \ {0} /\ B \in Nat \ {0, 1} /\ frames \in Nat /\ written \in Nat
  BY Numbers
<1>3. \A f \in Int : f * Hop \in Int /\ (f + 1) * Hop = (f * Hop) + Hop
  BY <1>2
<1>4. 0 * Hop = 0 /\ (-1) * Hop = 0 - Hop
  BY <1>2
<1>5. \A f \in -1..B-2 : f * Hop >= 0 - Hop
  <2>1. ASSUME NEW f \in -1..B-2 PROVE f * Hop >= 0 - Hop
    <3>1. CASE f = -1
      BY <1>2, <1>4, <3>1
    <3>2. CASE f \in Nat
      <4>1. f * Hop \in Nat
        BY <1>2, <3>2
      <4> QED
        BY <1>2, <4>1
    <3> QED
      BY <1>2, <3>1, <3>2
  <2> QED
    BY <2>1
<1>6. ((B \div 2) - 1) * Hop = ((B \div 2) * Hop) - Hop
  <2>. DEFINE h == B \div 2
  <2>1. h \in Int
    BY <1>2
  <2>. HIDE DEF h
  <2>2. (h - 1) * Hop = (h * Hop) - Hop
    BY <1>2, <2>1
  <2> QED
    BY <2>2 DEF h
<1>7. (B - 2) * Hop >= (2 * ((B \div 2) * Hop)) - (2 * Hop)
  <2>. DEFINE h == B \div 2
              c == B - (2 * h)
  <2>1. h \in Nat /\ c \in Nat /\ B - 2 = ((2 * h) - 2) + c
    BY <1>2
  <2>. HIDE DEF h, c
  <2>2. (((2 * h) - 2) + c) * Hop = ((2 * (h * Hop)) - (2 * Hop)) + (c * Hop)
    BY <1>2, <2>1
  <2>3. c * Hop \in Nat /\ h * Hop \in Int
    BY <1>2, <2>1
  <2>4. (B - 2) * Hop >= (2 * (h * Hop)) - (2 * Hop)
    <3>. DEFINE x == c * Hop
                y == h * Hop
    <3>1. (B - 2) * Hop = ((2 * y) - (2 * Hop)) + x /\ x \in Nat /\ y \in Int
      BY <2>1, <2>2, <2>3
    <3>. HIDE DEF x, y
    <3>2. ((2 * y) - (2 * Hop)) + x >= (2 * y) - (2 * Hop)
      BY <1>2, <3>1
    <3> QED
      BY <3>1, <3>2 DEF y
  <2> QED
    BY <2>4 DEF h
<1>8. Read \in Int /\ Pending \in Int
  BY <1>2, <1>3 DEF Read, Pending
<1> QED
  BY <1>1, <1>3, <1>4, <1>5, <1>6, <1>7, <1>8

\* What has not been analysed fits in the ring.
LEMMA NothingLost ==
    ASSUME Typed, BlocksFit, Backlog
    PROVE  Pending \in 0..Size-1
<1>1. Fill \in -1..B-2
  BY FillTyped, TypeOKParts DEF Typed
<1>. DEFINE f == Fill * Hop
<1>2. f >= 0 - Hop /\ f \in Int /\ Pending \in Int /\ block <= Window
  BY <1>1, Products, Numbers
<1>3. Pending >= 0 /\ (Pending <= (Window - 1) + Extra \/ Pending + f <= Limit + Extra)
  BY DEF Backlog
<1>. HIDE DEF f
<1>4. Extra \in Int /\ Extra <= block
  BY Numbers DEF Extra
<1>5. Limit \in Int /\ (Limit = (Window - 1) + (2 * block) - Hop \/ Limit = (Window - 1) + block)
  BY Numbers, Sizes DEF Limit
<1>6. Pending <= (4 * Window) - 1
  BY <1>2, <1>3, <1>4, <1>5, Numbers, Sizes DEF Limit
<1> QED
  BY <1>2, <1>3, <1>6, Sizes

\* The next window is the next Hop samples on.
LEMMA WindowMoves ==
    ASSUME Typed, BlocksFit, Positions, Backlog, SlotsFilled, TakeWindow
    PROVE  /\ Positions' /\ SlotsFilled' /\ WindowsInOrder'
           /\ Pending >= Window /\ Pending' = Pending - Hop /\ Pending' >= 0
<1>1. /\ frames' = frames + 1 /\ written' = written /\ writeFrame' = writeFrame
      /\ readFrame' = (readFrame + Hop) % Size /\ samples' = samples
      /\ SizeFilled(readFrame, writeFrame, Size) >= Window
      /\ analBuffer' = NextWindow
  BY DEF TakeWindow
<1>2. /\ Size \in Nat \ {0} /\ Hop \in Nat \ {0} /\ Window \in Nat \ {0} /\ Hop <= Window
      /\ written \in Nat /\ frames \in Nat
  BY Numbers, Sizes
<1>3. Read \in Int /\ Pending \in 0..Size-1 /\ Pending = written - Read
  BY Products, NothingLost DEF Pending
<1>4. Read' = Read + Hop
  BY <1>1, Products, <1>2 DEF Read
<1>5. Pending' = Pending - Hop
  BY <1>1, <1>2, <1>3, <1>4 DEF Pending
<1>6. SizeFilled(readFrame, writeFrame, Size) = Pending
  <2>1. written \in Int /\ written - Read \in 0..Size-1
    BY <1>2, <1>3
  <2>2. SizeFilled(Read % Size, written % Size, Size) = written - Read
    BY <1>2, <1>3, <2>1, Distance
  <2> QED
    BY <1>3, <2>2 DEF Positions
<1>7. Pending >= Window /\ Pending' >= 0
  BY <1>1, <1>2, <1>3, <1>5, <1>6
<1>8. Positions'
  <2>1. ((Read % Size) + Hop) % Size = (Read + Hop) % Size
    <3>1. Hop \in Int
      BY <1>2
    <3> QED
      BY <1>2, <1>3, <3>1, RingPlus
  <2> QED
    BY <1>1, <1>4, <2>1 DEF Positions
<1>9. SlotsFilled'
  <2>1. \A n \in Read'..written'-1 : n \in Read..written-1
    BY <1>1, <1>2, <1>3, <1>4
  <2> QED
    BY <1>1, <2>1 DEF SlotsFilled
<1>10. WindowsInOrder'
  <2>1. ASSUME NEW i \in 0..Window-1 PROVE analBuffer'[i] = Read + i
    <3>1. analBuffer'[i] = samples[(i + (Read % Size)) % Size]
      BY <1>1 DEF NextWindow, Positions
    <3>2. i \in Int /\ Read + i \in Read..written-1
      BY <1>2, <1>3, <1>7
    <3>3. (i + (Read % Size)) % Size = (Read + i) % Size
      BY <1>2, <1>3, <3>2, RingPlus
    <3>. DEFINE n == Read + i
    <3>4. n \in Read..written-1 /\ analBuffer'[i] = samples[n % Size]
      BY <3>1, <3>2, <3>3
    <3>. HIDE DEF n
    <3>5. analBuffer'[i] = n
      BY <3>4 DEF SlotsFilled
    <3> QED
      BY <3>5 DEF n
  <2>2. (frames' - 1) * Hop = Read
    BY <1>1, <1>2 DEF Read
  <2> QED
    BY <2>1, <2>2 DEF WindowsInOrder
<1> QED
  BY <1>5, <1>7, <1>8, <1>9, <1>10

\* A block enters the ring behind what is there.
LEMMA BlockEnters ==
    ASSUME Typed, BlocksFit, Positions, FramesCollected, Backlog, SlotsFilled, DecodeAudioBuffer
    PROVE  Positions' /\ FramesCollected' /\ Backlog' /\ SlotsFilled'
<1>1. /\ pc = "host" /\ pc' = "loop" /\ written' = written + block
      /\ writeFrame' = (block + writeFrame) % Size
      /\ UNCHANGED << frames, readFrame, decoding, block >>
      /\ UNCHANGED << readBlock, writeBlock, endStart, accumulated >>
      /\ samples' = [i \in 0..Size-1 |->
                       IF (i - writeFrame) % Size < block
                         THEN written + ((i - writeFrame) % Size) ELSE samples[i]]
  BY DEF DecodeAudioBuffer, sender, frameRing
<1>2. Size \in Nat \ {0} /\ written \in Nat /\ frames \in Nat /\ block \in Nat \ {0}
  BY Numbers, Sizes
<1>3. Read \in Int /\ Pending \in Int /\ Read' = Read /\ Fill' = Fill /\ Limit' = Limit
  BY <1>1, Products DEF Read, Fill, Limit
<1>4. Pending' = Pending + block
  BY <1>1, <1>2, <1>3 DEF Pending
<1>5. Positions'
  <2>1. (block + (written % Size)) % Size = (written + block) % Size
    <3>1. written \in Int /\ block \in Int
      BY <1>2
    <3> QED
      BY <1>2, <3>1, RingPlus
  <2> QED
    BY <1>1, <1>3, <2>1 DEF Positions
<1>6. FramesCollected'
  BY <1>1, <1>3 DEF FramesCollected
<1>7. Backlog'
  <2>1. Extra = 0 /\ Extra' = block
    BY <1>1 DEF Extra
  <2>. DEFINE f == Fill * Hop
  <2>2. f \in Int /\ Limit \in Int /\ Window - 1 \in Int
    <3>1. Fill \in Int
      BY FillTyped, TypeOKParts, Numbers DEF Typed
    <3>2. Limit \in Int /\ Window - 1 \in Int
      BY Numbers, Sizes DEF Limit
    <3> QED
      BY <3>1, <3>2, Products
  <2>3. Fill' * Hop = f
    BY <1>3
  <2>4. Pending >= 0 /\ (Pending <= (Window - 1) + 0 \/ Pending + f <= Limit + 0)
    BY <2>1 DEF Backlog
  <2>. HIDE DEF f
  <2>5. Pending + block >= 0
    BY <1>2, <1>3, <2>4
  <2>6. Pending + block <= (Window - 1) + block \/ (Pending + block) + f <= Limit + block
    BY <1>2, <1>3, <2>2, <2>4
  <2> QED
    BY <1>3, <1>4, <2>1, <2>3, <2>5, <2>6 DEF Backlog
<1>8. Pending \in 0..Size-1 /\ Pending + block <= Size - 1
  <2>1. Pending' <= Size - 1
    <3>1. Fill' \in -1..B-2
      BY <1>3, FillTyped, TypeOKParts DEF Typed
    <3>. DEFINE f == Fill * Hop
    <3>2. f >= 0 - Hop /\ f \in Int /\ block <= Window
      BY <1>3, <3>1, Products, Numbers
    <3>3. Pending <= Window - 1 \/ Pending + f <= Limit
      <4>1. Extra = 0 /\ Limit \in Int /\ Window - 1 \in Int
        BY <1>1, Numbers, Sizes DEF Extra, Limit
      <4> QED
        BY <4>1 DEF Backlog
    <3>. HIDE DEF f
    <3>4. Limit = (Window - 1) + (2 * block) - Hop \/ Limit = (Window - 1) + block
      BY DEF Limit
    <3>5. Pending + block <= (4 * Window) - 1
      BY <1>2, <1>3, <3>2, <3>3, <3>4, Numbers, Sizes
    <3> QED
      BY <1>4, <3>5, Sizes
  <2> QED
    BY <1>4, <2>1, NothingLost
<1>9. SlotsFilled'
  <2>1. ASSUME NEW n \in Read..(written + block)-1 PROVE samples'[n % Size] = n
    <3>1. n \in Int /\ n - written \in Int
      BY <1>2, <1>3
    <3>. DEFINE i == n % Size
                offset == (i - writeFrame) % Size
                o == n - written
    <3>2. i \in 0..Size-1
      BY <1>2, <3>1, Remainder
    <3>3. offset = o % Size
      <4>1. PICK p \in Int : n = (Size * p) + i
        BY <1>2, <3>1, Remainder
      <4>a. written \in Int /\ writeFrame = written % Size
        BY <1>2 DEF Positions
      <4>b. written % Size \in 0..Size-1 /\ \E q \in Int : written = (Size * q) + (written % Size)
        BY <1>2, <4>a, Remainder
      <4>2. PICK q \in Int : written = (Size * q) + writeFrame
        BY <4>a, <4>b
      <4>3. writeFrame \in 0..Size-1
        BY <4>a, <4>b
      <4>. DEFINE d == i - writeFrame
                  k == p - q
      <4>4. d \in Int /\ k \in Int /\ o = (Size * k) + d
        <5>. HIDE DEF i
        <5>1. o = ((Size * p) - (Size * q)) + d
          BY <1>2, <3>2, <4>1, <4>2, <4>3
        <5>2. Size * k = (Size * p) - (Size * q)
          BY <1>2
        <5> QED
          BY <3>2, <4>3, <5>1, <5>2
      <4>5. PICK j \in Int : d = (Size * j) + (d % Size)
        <5>. HIDE DEF d
        <5> QED
          BY <1>2, <4>4, Remainder
      <4>. DEFINE r == d % Size
                  g == k + j
      <4>6. r \in 0..Size-1
        <5>. HIDE DEF d
        <5> QED
          BY <1>2, <4>4, Remainder
      <4>7. d = (Size * j) + r
        BY <4>5
      <4>. HIDE DEF r, d, k
      <4>8. g \in Int /\ o = (Size * g) + r
        <5>1. Size * (k + j) = (Size * k) + (Size * j)
          BY <1>2, <4>4
        <5> QED
          BY <1>2, <4>4, <4>6, <4>7, <5>1
      <4>. HIDE DEF g, o
      <4>9. o \in Int
        BY <3>1 DEF o
      <4>10. o % Size = r
        BY <1>2, <4>6, <4>8, <4>9, RemainderOf
      <4> QED
        BY <4>10 DEF r, d
    <3>4. samples'[i] = IF offset < block THEN written + offset ELSE samples[i]
      <4>. HIDE DEF i
      <4> QED
        BY <1>1, <3>2
    <3>. HIDE DEF i, offset
    <3>5. CASE n >= written
      <4>1. o \in 0..Size-1 /\ o < block
        BY <1>2, <1>3, <1>8, <3>1, <3>5
      <4>2. o % Size = o
        <5>. HIDE DEF o
        <5> QED
          BY <1>2, <4>1, RingSmall
      <4>3. samples'[i] = written + o
        BY <3>3, <3>4, <4>1, <4>2
      <4>4. written + o = n
        BY <1>2, <3>1
      <4> QED
        BY <4>3, <4>4 DEF i
    <3>6. CASE n < written
      <4>. DEFINE m == o + Size
      <4>1. m \in 0..Size-1 /\ m >= block /\ n \in Read..written-1
        BY <1>2, <1>3, <1>8, <3>1, <3>6 DEF Pending
      <4>2. o = (Size * (-1)) + m
        BY <1>2, <3>1
      <4>3. o % Size = m
        <5>1. o \in Int /\ -1 \in Int
          BY <3>1
        <5>. HIDE DEF m, o
        <5> QED
          BY <1>2, <4>1, <4>2, <5>1, RemainderOf
      <4>4. ~(offset < block)
        BY <1>2, <3>3, <4>1, <4>3
      <4>5. samples[i] = n
        BY <4>1 DEF SlotsFilled, i
      <4> QED
        BY <3>4, <4>4, <4>5 DEF i
    <3> QED
      BY <1>2, <3>1, <3>5, <3>6
  <2> QED
    BY <1>1, <1>3, <2>1 DEF SlotsFilled
<1> QED
  BY <1>5, <1>6, <1>7, <1>9

-----------------------------------------------------------------------------
(* Windows in order                                                        *)

RingInv ==
    Typed /\ Positions /\ FramesCollected /\ Backlog /\ SlotsFilled /\ WindowsInOrder

LEMMA RingInit ==
    ASSUME Init PROVE RingInv
<1>1. Typed
  BY TypesInit
<1>2. /\ Read = 0 /\ Pending = 0 /\ Fill = 0
      /\ frames = 0 /\ written = 0 /\ decoding = 0 /\ readFrame = 0 /\ writeFrame = 0
      /\ pc = "host"
  <2>1. SizeFilled(0, 0, B) = 0
    BY DEF SizeFilled
  <2>2. 0 * Hop = 0 /\ 0 - 0 = 0 /\ 0 # B - 1
    BY Sizes
  <2> QED
    BY <2>1, <2>2 DEF Init, Read, Pending, Fill, FillOf
<1>3. Positions
  <2>1. 0 \in 0..Size-1
    BY Sizes
  <2>2. 0 % Size = 0
    BY <2>1, Sizes, RingSmall
  <2> QED
    BY <1>2, <2>2 DEF Positions
<1>4. FramesCollected
  BY <1>2, Numbers, <1>1 DEF FramesCollected
<1>5. Backlog
  BY <1>2, Sizes DEF Backlog, Extra
<1>6. SlotsFilled
  BY <1>2 DEF SlotsFilled
<1>7. WindowsInOrder
  BY <1>2 DEF WindowsInOrder
<1> QED
  BY <1>1, <1>3, <1>4, <1>5, <1>6, <1>7 DEF RingInv

\* The start tokens are found when no frame of the search is left, and each
\* token is read when its frames are there: a call that returns early leaves
\* less than a block more than what the frames still to come will take.
LEMMA BacklogKept ==
    ASSUME Typed, BlocksFit, Positions, FramesCollected, Backlog, SlotsFilled,
           SearchStart \/ ReadToken \/ FinishWord
    PROVE  Backlog'
<1>. DEFINE f == Fill * Hop
            h == (B \div 2) * Hop
            g == Fill' * Hop
            w == Window - 1
<1>1. TakeWindow /\ block' = block /\ block \in Nat \ {0}
  <2>1. TakeWindow
    BY SearchSteps, ReadSteps, FinishSteps
  <2> QED
    BY <2>1, Numbers DEF TakeWindow, sender
<1>2. Pending' = Pending - Hop /\ Pending' >= 0 /\ pc = "loop"
  BY <1>1, WindowMoves DEF TakeWindow
<1>3. /\ Fill \in -1..B-2 /\ f \in Int /\ f >= 0 - Hop /\ Pending \in Int
      /\ Hop \in Nat \ {0} /\ w \in Int /\ h \in Int /\ block <= h
  <2>1. Fill \in -1..B-2 /\ Fill \in Int
    BY FillTyped, TypeOKParts, Numbers DEF Typed
  <2>2. B \div 2 \in Int /\ w \in Int
    BY Sizes
  <2> QED
    BY <2>1, <2>2, Products, Sizes
<1>4. Extra = block /\ (Pending <= w + block \/ Pending + f <= Limit + block)
  BY <1>2 DEF Backlog, Extra
<1>5. /\ pc' = "host" => Extra' = 0
      /\ pc' = "loop" => Extra' = block
  BY <1>1 DEF Extra
<1>6. /\ decoding = 0 => Limit = w + (2 * block) - Hop
      /\ decoding # 0 => Limit = w + block
      /\ decoding' = 0 => Limit' = w + (2 * block) - Hop
      /\ decoding' # 0 => Limit' = w + block
  BY <1>1 DEF Limit
<1>7. SUFFICES Pending - Hop <= w + Extra' \/ (Pending - Hop) + g <= Limit' + Extra'
  BY <1>2 DEF Backlog
<1>8. /\ Fill' = Fill + 1 => g = f + Hop
      /\ Fill' = Fill => g = f
      /\ Fill' \in -1..0 => g \in {0, 0 - Hop}
      /\ Fill = B - 2 => f >= (2 * h) - (2 * Hop)
      /\ Fill = (B \div 2) - 1 => f = h - Hop
  BY <1>3, Products
<1>. HIDE DEF f, g, h, w
<1>9. CASE SearchStart
  <2>1. /\ decoding = 0
        /\ \/ Fill' = Fill + 1 /\ decoding' = 0 /\ pc' = "loop"
           \/ Fill = B - 2 /\ Fill' = 0 /\ decoding' = 1 /\ pc' = "host"
           \/ Fill = B - 2 /\ Fill' = Fill /\ decoding' = 0 /\ pc' = "loop"
    BY <1>9, SearchFrames
  <2>2. CASE Fill' = Fill + 1 /\ decoding' = 0 /\ pc' = "loop"
    BY <1>1, <1>3, <1>4, <1>5, <1>6, <1>8, <2>1, <2>2
  <2>3. CASE Fill = B - 2 /\ Fill' = 0 /\ decoding' = 1 /\ pc' = "host"
    BY <1>1, <1>3, <1>4, <1>5, <1>6, <1>8, <2>1, <2>3
  <2>4. CASE Fill = B - 2 /\ Fill' = Fill /\ decoding' = 0 /\ pc' = "loop"
    BY <1>1, <1>3, <1>4, <1>5, <1>6, <1>8, <2>1, <2>4
  <2> QED
    BY <2>1, <2>2, <2>3, <2>4
<1>10. CASE ReadToken
  <2>1. /\ decoding # 0 /\ decoding' # 0
        /\ \/ Fill' = Fill + 1 /\ pc' = "loop"
           \/ Fill = (B \div 2) - 1 /\ Fill' \in -1..0 /\ pc' \in {"loop", "host"}
    BY <1>10, ReadFrames
  <2>2. CASE Fill' = Fill + 1 /\ pc' = "loop"
    BY <1>1, <1>3, <1>4, <1>5, <1>6, <1>8, <2>1, <2>2
  <2>3. CASE Fill = (B \div 2) - 1 /\ Fill' \in -1..0 /\ pc' \in {"loop", "host"}
    BY <1>1, <1>3, <1>4, <1>5, <1>6, <1>8, <2>1, <2>3
  <2> QED
    BY <2>1, <2>2, <2>3
<1>11. CASE FinishWord
  <2>1. decoding # 0 /\ decoding' = 0 /\ Fill \in -1..0 /\ Fill' = Fill /\ pc' = "host"
    BY <1>11, FinishFrames
  <2> QED
    BY <1>1, <1>3, <1>4, <1>5, <1>6, <1>8, <2>1
<1> QED
  BY <1>9, <1>10, <1>11

LEMMA RingStep ==
    ASSUME RingInv, BlocksFit, [Next]_vars PROVE RingInv'
<1>. USE DEF RingInv
<1>1. Typed'
  BY TypesStep
<1>2. CASE DecodeAudioBuffer
  <2>1. Positions' /\ FramesCollected' /\ Backlog' /\ SlotsFilled'
    BY <1>2, BlockEnters
  <2>2. WindowsInOrder'
    BY <1>2 DEF DecodeAudioBuffer, WindowsInOrder
  <2> QED
    BY <1>1, <2>1, <2>2
<1>3. CASE SearchStart \/ ReadToken \/ FinishWord
  <2>1. TakeWindow /\ FramesCollected'
    BY <1>3, SearchSteps, ReadSteps, FinishSteps, SearchFrames, ReadFrames, FinishFrames
  <2>2. Positions' /\ SlotsFilled' /\ WindowsInOrder'
    BY <2>1, WindowMoves
  <2>3. Backlog'
    BY <1>3, BacklogKept
  <2> QED
    BY <1>1, <2>1, <2>2, <2>3
<1>4. CASE NoWindow
  <2>1. /\ UNCHANGED << samples, readFrame, writeFrame, analBuffer, written, frames >>
        /\ UNCHANGED << readBlock, writeBlock, endStart, accumulated, decoding, block >>
        /\ pc' = "host" /\ SizeFilled(readFrame, writeFrame, Size) < Window
    BY <1>4 DEF NoWindow, Return, sender, sampleRing, frameRing
  <2>2. Positions' /\ FramesCollected' /\ SlotsFilled' /\ WindowsInOrder'
    BY <2>1 DEF Positions, FramesCollected, SlotsFilled, WindowsInOrder, Read, Fill
  <2>3. Read \in Int /\ Pending \in 0..Size-1 /\ written \in Int /\ Size \in Nat \ {0}
    BY Products, NothingLost, Numbers, Sizes
  <2>4. SizeFilled(readFrame, writeFrame, Size) = Pending
    BY <2>3, Distance DEF Positions, Pending
  <2>5. Pending' = Pending /\ Extra' = 0
    BY <2>1 DEF Pending, Read, Extra
  <2>6. Pending' >= 0 /\ Pending' <= (Window - 1) + Extra'
    BY <2>1, <2>3, <2>4, <2>5, Sizes
  <2> QED
    BY <1>1, <2>2, <2>6 DEF Backlog
<1>5. CASE GetDecodedData \/ UNCHANGED vars
  <2>1. /\ UNCHANGED << samples, readFrame, writeFrame, analBuffer, written, frames >>
        /\ UNCHANGED << readBlock, writeBlock, endStart, accumulated, decoding, block, pc >>
    BY <1>5 DEF GetDecodedData, HandOut, vars, sender, sampleRing, frameRing
  <2>2. Positions' /\ FramesCollected' /\ SlotsFilled' /\ WindowsInOrder'
    BY <2>1 DEF Positions, FramesCollected, SlotsFilled, WindowsInOrder, Read, Fill
  <2>3. Backlog'
    BY <2>1 DEF Backlog, Pending, Read, Fill, Extra, Limit
  <2> QED
    BY <1>1, <2>2, <2>3
<1> QED
  BY <1>2, <1>3, <1>4, <1>5 DEF Next

\* Each window that is analysed begins Hop samples behind the one before, and
\* none of its samples was overwritten while it waited: although calls of
\* DecodeAudioBuffer() return at the first event and leave samples behind, what
\* waits never outgrows mCircularBufferFloat, which has no test for that.
THEOREM WindowsTaken == BlocksFit => (Spec => []WindowsInOrder)
<1>. SUFFICES ASSUME BlocksFit PROVE Spec => []WindowsInOrder
  OBVIOUS
<1>1. Init => RingInv
  BY RingInit
<1>2. RingInv /\ [Next]_vars => RingInv'
  BY RingStep
<1>3. RingInv => WindowsInOrder
  BY DEF RingInv
<1> QED
  BY <1>1, <1>2, <1>3, PTL DEF Spec

-----------------------------------------------------------------------------
(* What sounds where                                                       *)

\* The samples of a token.
TokenBegin(m, k) == BeginOf(m) + ((k - 1) * TokenSamples)

LEMMA Quotient ==
    ASSUME NEW n \in Nat \ {0}, NEW q \in Int, NEW r \in 0..n-1, NEW a \in Int, a = (n * q) + r
    PROVE  a \div n = q
  OBVIOUS

\* Different places behind a position are different slots of the ring.
LEMMA SlotsApart ==
    ASSUME NEW r \in 0..B-1, NEW i \in 0..B-1, NEW j \in 0..B-1, (r + i) % B = (r + j) % B
    PROVE  i = j
<1>1. SizeFilled(r, (r + i) % B, B) = i /\ SizeFilled(r, (r + j) % B, B) = j
  BY DecoderAssumption, Ahead
<1> QED
  BY <1>1

\* The slot of the next frame is none of those that are filled.
LEMMA SlotWritten ==
    ASSUME NEW r \in 0..B-1, NEW w \in 0..B-1, FillOf(r, w) # -1
    PROVE  /\ w = (r + FillOf(r, w)) % B
           /\ \A n \in 0..B-1 : (r + n) % B \in 0..B-1 /\ (n # FillOf(r, w) => (r + n) % B # w)
<1>. DEFINE d == FillOf(r, w)
<1>1. d \in 0..B-1 /\ w = (r + d) % B
  BY DecoderAssumption, Behind DEF FillOf
<1>. HIDE DEF d
<1>2. ASSUME NEW n \in 0..B-1
      PROVE  (r + n) % B \in 0..B-1 /\ (n # d => (r + n) % B # w)
  <2>1. r + n \in Int /\ B \in Nat \ {0}
    BY DecoderAssumption
  <2>2. (r + n) % B \in 0..B-1
    BY <2>1, Remainder
  <2> QED
    BY <1>1, <2>2, SlotsApart
<1> QED
  BY <1>1, <1>2 DEF d

\* From one message to the next.
Period == (TokensSent * TokenSamples) + gap

LEMMA SenderNumbers ==
    ASSUME begin \in Nat, gap \in Nat
    PROVE  /\ TokensSent \in Nat \ {0, 1, 2} /\ TokenSamples \in Nat \ {0}
           /\ TokensSent * TokenSamples \in Nat \ {0} /\ Period \in Nat \ {0}
           /\ Period >= TokensSent * TokenSamples
           /\ \A m \in Int : BeginOf(m) \in Int /\ BeginOf(m) = begin + (Period * (m - 1))
           /\ \A m, k \in Int : /\ TokenBegin(m, k) \in Int
                                /\ TokenBegin(m, k) = BeginOf(m) + (TokenSamples * (k - 1))
                                /\ TokenBegin(m, k + 1) = TokenBegin(m, k) + TokenSamples
<1>1. TokensSent \in Nat \ {0, 1, 2} /\ TokenSamples \in Nat \ {0}
  BY DecoderAssumption DEF TokensSent
<1>2. TokensSent * TokenSamples \in Nat \ {0}
  BY <1>1
<1>3. Period \in Nat \ {0} /\ Period >= TokensSent * TokenSamples
  <2>. DEFINE x == TokensSent * TokenSamples
  <2>1. x \in Nat \ {0} /\ Period = x + gap
    BY <1>2 DEF Period
  <2>. HIDE DEF x
  <2> QED
    BY <2>1 DEF x
<1>4. ASSUME NEW m \in Int
      PROVE  BeginOf(m) \in Int /\ BeginOf(m) = begin + (Period * (m - 1))
  <2>1. BeginOf(m) = begin + ((m - 1) * Period)
    BY DEF BeginOf, Period
  <2>2. Period \in Int /\ begin \in Int
    BY <1>3
  <2> QED
    BY <2>1, <2>2
<1>5. ASSUME NEW m \in Int, NEW k \in Int
      PROVE  /\ TokenBegin(m, k) \in Int
             /\ TokenBegin(m, k) = BeginOf(m) + (TokenSamples * (k - 1))
             /\ TokenBegin(m, k + 1) = TokenBegin(m, k) + TokenSamples
  <2>1. BeginOf(m) \in Int
    BY <1>4
  <2> QED
    BY <1>1, <2>1 DEF TokenBegin
<1> QED
  BY <1>1, <1>2, <1>3, <1>4, <1>5

\* What sounds at a sample is the token that the sample belongs to.
LEMMA SoundPlace ==
    ASSUME begin \in Nat, gap \in Nat, NEW n \in Int, Sound(n) # Silence
    PROVE  \E m \in 1..Messages, k \in 1..TokensSent :
              /\ Sound(n) = Token(m, k)
              /\ TokenBegin(m, k) <= n /\ n < TokenBegin(m, k) + TokenSamples
<1>. DEFINE after == n - begin
            d == after \div Period
            m == d + 1
            o == n - BeginOf(m)
            j == o \div TokenSamples
            k == j + 1
<1>1. n >= begin /\ ~(m > Messages) /\ ~(k > TokensSent) /\ Sound(n) = Token(m, k)
  <2>1. Sound(n) = IF n < begin \/ m > Messages \/ k > TokensSent THEN Silence ELSE Token(m, k)
    BY DEF Sound, Period
  <2>2. ~(n < begin) /\ ~(m > Messages) /\ ~(k > TokensSent)
    <3>. HIDE DEF m, k
    <3> QED
      BY <2>1
  <2>. HIDE DEF m, k
  <2> QED
    BY <2>1, <2>2
<1>2. /\ TokenSamples \in Nat \ {0} /\ TokensSent \in Nat \ {0} /\ Period \in Nat \ {0}
      /\ \A x \in Int : BeginOf(x) = begin + (Period * (x - 1))
  BY SenderNumbers
<1>3. \A a \in Nat, b \in Nat \ {0} :
          a \div b \in Nat /\ b * (a \div b) <= a /\ a < (b * (a \div b)) + b
  OBVIOUS
<1>4. after \in Nat
  BY <1>1
<1>. HIDE DEF after
<1>5. d \in Nat /\ Period * d <= after
  BY <1>2, <1>3, <1>4
<1>. HIDE DEF d
<1>6. m \in 1..Messages /\ m - 1 = d
  BY <1>1, <1>5, DecoderAssumption
<1>7. o = after - (Period * d)
  <2>1. BeginOf(m) = begin + (Period * (m - 1)) /\ Period * d \in Int
    BY <1>2, <1>5, <1>6
  <2>2. BeginOf(m) = begin + (Period * d)
    BY <1>6, <2>1
  <2>. HIDE DEF m
  <2> QED
    BY <2>1, <2>2 DEF after
<1>. HIDE DEF m
<1>8. o \in Nat
  <2>1. Period * d \in Int /\ after \in Int
    BY <1>2, <1>4, <1>5
  <2> QED
    BY <1>5, <1>7, <2>1
<1>9. BeginOf(m) \in Int /\ n = BeginOf(m) + o
  <2>1. m \in Int
    BY <1>6
  <2>2. BeginOf(m) \in Int
    BY <2>1, SenderNumbers
  <2> QED
    BY <2>2
<1>. HIDE DEF o
<1>10. j \in Nat /\ TokenSamples * j <= o /\ o < (TokenSamples * j) + TokenSamples
  BY <1>2, <1>3, <1>8
<1>. HIDE DEF j
<1>11. k \in 1..TokensSent /\ k - 1 = j /\ k \in Int
  BY <1>1, <1>2, <1>10
<1>12. TokenBegin(m, k) = BeginOf(m) + (TokenSamples * j)
  BY <1>6, <1>11, SenderNumbers
<1>. HIDE DEF k
<1>13. TokenBegin(m, k) <= n /\ n < TokenBegin(m, k) + TokenSamples
  <2>. DEFINE x == TokenSamples * j
  <2>1. x \in Int /\ x <= o /\ o < x + TokenSamples /\ TokenBegin(m, k) = BeginOf(m) + x
    BY <1>2, <1>10, <1>12
  <2>. HIDE DEF x
  <2> QED
    BY <1>2, <1>8, <1>9, <2>1
<1> QED
  BY <1>1, <1>6, <1>11, <1>13

\* At every sample of a token, that token sounds.
LEMMA SoundOf ==
    ASSUME begin \in Nat, gap \in Nat, NEW m \in 1..Messages, NEW k \in 1..TokensSent,
           NEW n \in Int, TokenBegin(m, k) <= n, n < TokenBegin(m, k) + TokenSamples
    PROVE  Sound(n) = Token(m, k)
<1>. DEFINE after == n - begin
            r == n - TokenBegin(m, k)
            o == n - BeginOf(m)
<1>1. /\ TokenSamples \in Nat \ {0} /\ TokensSent \in Nat \ {0} /\ Period \in Nat \ {0}
      /\ TokensSent * TokenSamples \in Nat /\ Period >= TokensSent * TokenSamples
      /\ BeginOf(m) \in Int /\ BeginOf(m) = begin + (Period * (m - 1))
      /\ TokenBegin(m, k) \in Int /\ TokenBegin(m, k) = BeginOf(m) + (TokenSamples * (k - 1))
  BY SenderNumbers
<1>2. r \in 0..TokenSamples-1 /\ r \in Int
  BY <1>1
<1>3. TokenSamples * (k - 1) \in Int /\ Period * (m - 1) \in Int
  BY <1>1
<1>4. o = (TokenSamples * (k - 1)) + r /\ o \in Int
  BY <1>1, <1>3
<1>5. o \in 0..Period-1
  <2>1. k - 1 \in Nat /\ (TokensSent - 1) - (k - 1) \in Nat
    BY <1>1
  <2>2. TokenSamples * (k - 1) \in Nat /\ TokenSamples * ((TokensSent - 1) - (k - 1)) \in Nat
    BY <1>1, <2>1
  <2>3. TokensSent * TokenSamples
           = ((TokenSamples * (k - 1)) + (TokenSamples * ((TokensSent - 1) - (k - 1)))) + TokenSamples
    BY <1>1
  <2>. DEFINE x == TokenSamples * (k - 1)
              y == TokenSamples * ((TokensSent - 1) - (k - 1))
              z == TokensSent * TokenSamples
  <2>4. x \in Nat /\ y \in Nat /\ z \in Nat /\ z = (x + y) + TokenSamples /\ Period >= z /\ o = x + r
    BY <1>1, <1>4, <2>2, <2>3
  <2>. HIDE DEF x, y, z, o, r
  <2> QED
    BY <1>1, <1>2, <2>4
<1>6. after = (Period * (m - 1)) + o
  BY <1>1, <1>3, <1>4
<1>7. after \in Nat /\ n >= begin
  <2>1. Period * (m - 1) \in Nat
    BY <1>1
  <2>2. after \in Nat
    <3>. DEFINE x == Period * (m - 1)
    <3>1. x \in Nat /\ after = x + o
      BY <1>6, <2>1
    <3>. HIDE DEF x, o, after
    <3> QED
      BY <1>5, <3>1
  <2> QED
    BY <2>2
<1>8. (after \div Period) + 1 = m
  <2>1. after \in Int /\ m - 1 \in Int
    BY <1>7
  <2>. HIDE DEF after, o
  <2> QED
    BY <1>1, <1>5, <1>6, <2>1, Quotient
<1>9. (o \div TokenSamples) + 1 = k
  <2>1. k - 1 \in Int /\ k \in Int
    BY <1>1
  <2>. HIDE DEF o, r
  <2>2. o \div TokenSamples = k - 1
    BY <1>1, <1>2, <1>4, <2>1, Quotient
  <2> QED
    BY <2>1, <2>2
<1>10. Sound(n) = IF n < begin \/ m > Messages \/ k > TokensSent THEN Silence ELSE Token(m, k)
  BY <1>8, <1>9 DEF Sound, Period
<1>11. ~(n < begin) /\ ~(m > Messages) /\ ~(k > TokensSent)
  BY <1>1, <1>7, DecoderAssumption
<1> QED
  BY <1>10, <1>11

\* Every token of every message is a token of its own.
LEMMA TokenPlace ==
    ASSUME NEW m \in 1..Messages, NEW k \in 1..TokensSent
    PROVE  /\ Place(Token(m, k)) = k
           /\ Token(m, k) \in Nat \ {0}
<1>1. TokensSent \in Nat \ {0}
  BY DecoderAssumption DEF TokensSent
<1>. DEFINE x == m - 1
            a == (TokensSent * x) + (k - 1)
<1>2. x \in Nat /\ Token(m, k) = (TokensSent * x) + k /\ TokensSent * x \in Nat
  BY <1>1 DEF Token
<1>3. k - 1 \in 0..TokensSent-1
  BY <1>1
<1>. HIDE DEF x
<1>4. a \in Int /\ Token(m, k) - 1 = a /\ Token(m, k) \in Nat \ {0}
  <2>. DEFINE y == TokensSent * x
  <2>1. y \in Nat /\ Token(m, k) = y + k /\ a = y + (k - 1)
    BY <1>2
  <2>. HIDE DEF y, a
  <2> QED
    BY <1>1, <2>1
<1>5. a % TokensSent = k - 1
  <2>1. a = (TokensSent * x) + (k - 1)
    OBVIOUS
  <2>. HIDE DEF a
  <2> QED
    BY <1>1, <1>2, <1>3, <1>4, <2>1, RemainderOf
<1> QED
  BY <1>4, <1>5 DEF Place

-----------------------------------------------------------------------------
(* What is heard in a window                                               *)

LEMMA Onto ==
    ASSUME NEW S, NEW T, NEW f \in [S -> T], \A y \in T : \E x \in S : f[x] = y, IsFiniteSet(S)
    PROVE  IsFiniteSet(T) /\ Cardinality(T) <= Cardinality(S)
<1>1. f \in Surjection(S, T)
  BY DEF Surjection
<1> QED
  BY <1>1, FS_Surjection

\* Two sets without a common element.
LEMMA Apart ==
    ASSUME NEW U, IsFiniteSet(U), NEW S \in SUBSET U, NEW T \in SUBSET U, S \cap T = {}
    PROVE  /\ IsFiniteSet(S) /\ IsFiniteSet(T) /\ Cardinality(U) \in Nat
           /\ Cardinality(S) \in Nat /\ Cardinality(T) \in Nat
           /\ Cardinality(S) + Cardinality(T) <= Cardinality(U)
<1>1. IsFiniteSet(S) /\ IsFiniteSet(T)
  BY FS_Subset
<1>2. Cardinality(S) \in Nat /\ Cardinality(T) \in Nat /\ Cardinality(U) \in Nat
  BY <1>1, FS_CardinalityType
<1>3. Cardinality(S \union T) = Cardinality(S) + Cardinality(T)
  <2>1. Cardinality(S \union T) = Cardinality(S) + Cardinality(T) - Cardinality(S \cap T)
    BY <1>1, FS_Union
  <2> QED
    BY <1>2, <2>1, FS_EmptySet
<1>4. S \union T \in SUBSET U
  OBVIOUS
<1>5. Cardinality(S \union T) <= Cardinality(U)
  BY <1>4, FS_Subset
<1> QED
  BY <1>1, <1>2, <1>3, <1>5

\* What is heard first sounds somewhere in the window.
LEMMA HeardSounds ==
    ASSUME NEW window, NEW heard \in Hears(window), heard[1] # Silence
    PROVE  \E i \in DOMAIN window : heard[1] = Sound(window[i])
<1>. DEFINE sounds == {<< i, Sound(window[i]) >> : i \in DOMAIN window}
            Loudness(t) == Cardinality({x \in sounds : x[2] = t})
            Played == {t \in {x[2] : x \in sounds} : t # Silence /\ Loudness(t) >= faint}
            Loudest == {t \in Played : \A u \in Played : Loudness(t) >= Loudness(u)}
            Second(t) == IF Played = {t} THEN Silence ELSE CHOOSE u \in Played : u # t
<1>1. Hears(window) = IF frames \in burst \/ Played = {} THEN {<< Silence, Silence >>}
                      ELSE {<< t, Second(t) >> : t \in Loudest}
  BY DEF Hears
<1>2. \A t \in Loudest : \E i \in DOMAIN window : t = Sound(window[i])
  <2>1. \A x \in sounds : \E i \in DOMAIN window : x[2] = Sound(window[i])
    OBVIOUS
  <2>. HIDE DEF sounds
  <2> QED
    BY <2>1
<1>. HIDE DEF Played, Loudest, Second
<1> QED
  BY <1>1, <1>2

\* A token that sounds in more than half of a window is what is heard first.
LEMMA HeardLoudest ==
    ASSUME Typed, frames \notin burst,
           NEW window, DOMAIN window = 0..Window-1,
           NEW t, t # Silence,
           NEW a \in 0..Window-1, NEW b \in 0..Window-1, 2 * ((b - a) + 1) > Window,
           \A i \in a..b : Sound(window[i]) = t,
           NEW heard \in Hears(window)
    PROVE  heard[1] = t
<1>. DEFINE sounds == {<< i, Sound(window[i]) >> : i \in DOMAIN window}
            Those(u) == {x \in sounds : x[2] = u}
            Loudness(u) == Cardinality({x \in sounds : x[2] = u})
            Played == {u \in {x[2] : x \in sounds} : u # Silence /\ Loudness(u) >= faint}
            Loudest == {u \in Played : \A v \in Played : Loudness(u) >= Loudness(v)}
            Second(u) == IF Played = {u} THEN Silence ELSE CHOOSE v \in Played : v # u
<1>1. Hears(window) = IF frames \in burst \/ Played = {} THEN {<< Silence, Silence >>}
                      ELSE {<< u, Second(u) >> : u \in Loudest}
  BY DEF Hears
<1>2. IsFiniteSet(sounds) /\ Cardinality(sounds) <= Window
  <2>. DEFINE D == 0..Window-1
              f == [i \in D |-> << i, Sound(window[i]) >>]
  <2>1. f \in [D -> sounds] /\ \A y \in sounds : \E x \in D : f[x] = y
    OBVIOUS
  <2>2. IsFiniteSet(D) /\ Cardinality(D) = Window
    BY Sizes, FS_Interval
  <2>. HIDE DEF D, f, sounds
  <2> QED
    BY <2>1, <2>2, Onto
<1>3. Loudness(t) >= (b - a) + 1
  <2>. DEFINE S == {x \in sounds : x[1] \in a..b}
              g == [x \in S |-> x[1]]
  <2>1. S \in SUBSET Those(t)
    OBVIOUS
  <2>2. g \in [S -> a..b] /\ \A y \in a..b : \E x \in S : g[x] = y
    <3>1. ASSUME NEW y \in a..b PROVE << y, Sound(window[y]) >> \in S
      <4>1. y \in 0..Window-1
        BY Sizes
      <4> QED
        BY <4>1
    <3>2. \A x \in S : x[1] \in a..b
      OBVIOUS
    <3>. HIDE DEF S
    <3> QED
      BY <3>1, <3>2
  <2>3. IsFiniteSet(Those(t)) /\ IsFiniteSet(S) /\ Cardinality(S) <= Cardinality(Those(t))
    <3>1. Those(t) \in SUBSET sounds
      OBVIOUS
    <3>2. IsFiniteSet(Those(t))
      <4>. HIDE DEF sounds, Those
      <4> QED
        BY <1>2, <3>1, FS_Subset
    <3>. HIDE DEF S, Those
    <3> QED
      BY <2>1, <3>2, FS_Subset
  <2>4. Cardinality(a..b) <= Cardinality(S)
    <3>. HIDE DEF S, g
    <3> QED
      BY <2>2, <2>3, Onto
  <2>5. Cardinality(a..b) = (b - a) + 1
    <3>1. a \in Int /\ b \in Int /\ ~(a > b)
      BY Sizes
    <3> QED
      BY <3>1, FS_Interval
  <2>6. Cardinality(S) \in Int /\ Cardinality(Those(t)) \in Int
    <3>. HIDE DEF S, Those
    <3> QED
      BY <2>3, FS_CardinalityType
  <2>7. Loudness(t) = Cardinality(Those(t))
    OBVIOUS
  <2>. HIDE DEF S, Those, Loudness
  <2> QED
    BY <2>3, <2>4, <2>5, <2>6, <2>7, Sizes
<1>4. ASSUME NEW u, u # t
      PROVE  Loudness(u) \in Nat /\ Loudness(t) \in Nat /\ Loudness(u) + Loudness(t) <= Window
  <2>1. Those(u) \in SUBSET sounds /\ Those(t) \in SUBSET sounds /\ Those(u) \cap Those(t) = {}
    BY <1>4
  <2>2. Loudness(t) = Cardinality(Those(t)) /\ Loudness(u) = Cardinality(Those(u))
    OBVIOUS
  <2>. HIDE DEF sounds, Those, Loudness
  <2>3. /\ Cardinality(Those(u)) \in Nat /\ Cardinality(Those(t)) \in Nat /\ Cardinality(sounds) \in Nat
        /\ Cardinality(Those(u)) + Cardinality(Those(t)) <= Cardinality(sounds)
    BY <1>2, <2>1, Apart
  <2> QED
    BY <1>2, <2>2, <2>3, Sizes
<1>5. t \in Played
  <2>1. << a, Sound(window[a]) >> \in sounds /\ Sound(window[a]) = t
    BY Sizes
  <2>2. t \in {x[2] : x \in sounds}
    <3>. HIDE DEF sounds
    <3> QED
      BY <2>1
  <2>3. Loudness(t) >= faint
    <3>1. faint \in Nat /\ faint <= Window \div 2
      BY DecoderAssumption DEF Typed, SenderTypes
    <3>2. Loudness(Silence) \in Nat /\ Loudness(t) \in Nat
      BY <1>4
    <3>. HIDE DEF Loudness
    <3> QED
      BY <1>3, <3>1, <3>2, Sizes
  <2>. HIDE DEF sounds, Loudness
  <2> QED
    BY <2>2, <2>3
<1>6. Loudest \subseteq {t}
  <2>. HIDE DEF Played, Loudness
  <2>1. ASSUME NEW u \in Loudest, u # t PROVE FALSE
    <3>1. Loudness(u) >= Loudness(t)
      BY <1>5
    <3>2. Loudness(u) \in Nat /\ Loudness(t) \in Nat /\ Loudness(u) + Loudness(t) <= Window
      BY <1>4, <2>1
    <3> QED
      BY <1>3, <3>1, <3>2, Sizes
  <2> QED
    BY <2>1
<1>. HIDE DEF Played, Loudest, Second
<1> QED
  BY <1>1, <1>5, <1>6

-----------------------------------------------------------------------------
(* The geometry of the frames                                              *)

\* Half of the ring of frames is one token, and a token has room for a window
\* and for what the search for the start may be off.  The code has a window of
\* 2048 samples and a Hop of 256, B = 36 frames, a tolerance of 1 frame and
\* tokens of 18 * 256 = 4608 samples.
Geometry ==
    /\ B % 2 = 0
    /\ TokenSamples = (B \div 2) * Hop
    /\ Window + ((2 * (Tolerance + 2)) * Hop) <= TokenSamples

\* The window of a frame reaches a token, or has more of it than of all else.
Overlaps(f, m, k) ==
    /\ f * Hop + Window > TokenBegin(m, k)
    /\ f * Hop < TokenBegin(m, k) + TokenSamples
Mostly(f, m, k) ==
    /\ 2 * (TokenBegin(m, k) - (f * Hop)) < Window
    /\ 2 * ((TokenBegin(m, k) + TokenSamples) - (f * Hop)) > Window

\* The products of Geometry.
LEMMA Halves ==
    ASSUME Geometry
    PROVE  /\ B \div 2 \in Nat /\ B = 2 * (B \div 2)
           /\ TokenSamples = (B \div 2) * Hop /\ TokenSamples \in Nat
           /\ Tolerance \in Nat /\ Tolerance * Hop \in Nat
           /\ Window + (2 * (Tolerance * Hop)) + (4 * Hop) <= TokenSamples
           /\ (2 * Tolerance) + 4 < B \div 2
           /\ \A f, g \in Int : f * Hop \in Int /\ (f + g) * Hop = (f * Hop) + (g * Hop)
           /\ \A f, g \in Int : f <= g => f * Hop <= g * Hop
           /\ \A f, g \in Int : f * Hop < g * Hop => f < g
<1>. DEFINE h == B \div 2
<1>1. B \in Nat \ {0, 1} /\ Hop \in Nat \ {0} /\ Tolerance \in Nat /\ Window \in Nat \ {0}
      /\ TokenSamples \in Nat
  BY DecoderAssumption, Sizes
<1>2. h \in Nat /\ B = 2 * h
  BY <1>1 DEF Geometry
<1>3. TokenSamples = h * Hop
  BY DEF Geometry
<1>. HIDE DEF h
<1>4. \A f, g \in Int : f * Hop \in Int /\ (f + g) * Hop = (f * Hop) + (g * Hop)
  BY <1>1
<1>5. ASSUME NEW f \in Int, NEW g \in Int, f <= g PROVE f * Hop <= g * Hop
  <2>1. g - f \in Nat /\ (g - f) * Hop \in Nat /\ g * Hop = (f * Hop) + ((g - f) * Hop)
    BY <1>1, <1>5
  <2>2. f * Hop \in Int
    BY <1>1
  <2> QED
    BY <2>1, <2>2
<1>6. ASSUME NEW f \in Int, NEW g \in Int, f * Hop < g * Hop PROVE f < g
  <2>1. CASE g <= f
    <3>1. g * Hop <= f * Hop
      BY <1>5, <2>1
    <3>2. f * Hop \in Int /\ g * Hop \in Int
      BY <1>1
    <3> QED
      BY <1>6, <3>1, <3>2
  <2> QED
    BY <2>1
<1>7. Tolerance * Hop \in Nat
  BY <1>1
<1>8. (2 * (Tolerance + 2)) * Hop = (2 * (Tolerance * Hop)) + (4 * Hop)
  BY <1>1
<1>9. Window + (2 * (Tolerance * Hop)) + (4 * Hop) <= TokenSamples
  <2>1. Window + ((2 * (Tolerance + 2)) * Hop) <= TokenSamples
    BY DEF Geometry
  <2>. DEFINE x == Tolerance * Hop
  <2>2. Window + ((2 * x) + (4 * Hop)) <= TokenSamples /\ x \in Int
    BY <1>7, <1>8, <2>1
  <2>. HIDE DEF x
  <2>3. Window + (2 * x) + (4 * Hop) <= TokenSamples
    BY <1>1, <2>2
  <2> QED
    BY <2>3 DEF x
<1>10. (2 * Tolerance) + 4 < h
  <2>1. ((2 * Tolerance) + 4) * Hop = (2 * (Tolerance * Hop)) + (4 * Hop)
    BY <1>1
  <2>. DEFINE x == Tolerance * Hop
              y == ((2 * Tolerance) + 4) * Hop
              z == h * Hop
  <2>2. x \in Nat /\ y = (2 * x) + (4 * Hop) /\ Window + (2 * x) + (4 * Hop) <= z /\ z \in Int
    BY <1>1, <1>2, <1>3, <1>7, <1>9, <2>1
  <2>3. y < z
    <3>. HIDE DEF x, y, z
    <3> QED
      BY <1>1, <2>2
  <2>4. (2 * Tolerance) + 4 \in Int /\ h \in Int
    BY <1>1, <1>2
  <2> QED
    BY <1>6, <2>3, <2>4
<1> QED
  BY <1>1, <1>2, <1>3, <1>4, <1>5, <1>6, <1>7, <1>9, <1>10 DEF h

-----------------------------------------------------------------------------
(* What is heard in a frame                                                *)

\* The next window has the samples which follow those that were read.
WindowReady == \A i \in 0..Window-1 : NextWindow[i] = Read + i

\* A window in which a first start token is heard reaches one.
LEMMA StartOverlaps ==
    ASSUME Typed, WindowReady,
           NEW heard \in Hears(NextWindow), FirstStart(heard[1])
    PROVE  \E m \in 1..Messages : Overlaps(frames, m, 1)
<1>1. DOMAIN NextWindow = 0..Window-1
  BY DEF NextWindow
<1>2. PICK i \in 0..Window-1 : heard[1] = Sound(Read + i)
  <2>1. heard[1] # Silence
    BY DEF FirstStart
  <2>. DEFINE window == NextWindow
  <2>2. heard \in Hears(window) /\ DOMAIN window = 0..Window-1
    BY <1>1
  <2>. HIDE DEF window
  <2>3. \E i \in DOMAIN window : heard[1] = Sound(window[i])
    BY <2>1, <2>2, HeardSounds
  <2> QED
    BY <1>1, <2>3 DEF window, WindowReady
<1>. DEFINE n == Read + i
<1>3. n \in Int /\ n < Read + Window /\ Read <= n /\ Read \in Int
  <2>1. Read \in Int /\ i \in Int
    BY Numbers DEF Read
  <2> QED
    BY <2>1, Sizes
<1>. HIDE DEF n
<1>4. Sound(n) # Silence /\ Place(Sound(n)) = 1
  BY <1>2 DEF FirstStart, n
<1>5. PICK m \in 1..Messages, k \in 1..TokensSent :
          /\ Sound(n) = Token(m, k)
          /\ TokenBegin(m, k) <= n /\ n < TokenBegin(m, k) + TokenSamples
  BY <1>3, <1>4, Numbers, SoundPlace
<1>6. k = 1
  BY <1>4, <1>5, TokenPlace
<1>7. TokenBegin(m, 1) \in Int /\ TokenSamples \in Int
  <2>1. m \in Int /\ 1 \in Int
    OBVIOUS
  <2> QED
    BY <2>1, Numbers, SenderNumbers
<1>8. Overlaps(frames, m, 1)
  BY <1>3, <1>5, <1>6, <1>7, Sizes DEF Overlaps, Read
<1> QED
  BY <1>8

\* In a window that has most of a token, and no noise, that token is heard.
LEMMA FrameHeard ==
    ASSUME Typed, Geometry, WindowReady,
           NEW heard \in Hears(NextWindow), frames \notin burst,
           NEW m \in 1..Messages, NEW k \in 1..TokensSent, Mostly(frames, m, k)
    PROVE  heard[1] = Token(m, k)
<1>. DEFINE t == Token(m, k)
            tb == TokenBegin(m, k)
            te == tb + TokenSamples
            a == IF tb > Read THEN tb - Read ELSE 0
            b == IF te < Read + Window THEN (te - 1) - Read ELSE Window - 1
<1>1. /\ tb \in Int /\ TokenSamples \in Nat \ {0} /\ Read \in Int /\ Window \in Nat \ {0}
      /\ Window <= TokenSamples
  <2>1. Read \in Int /\ m \in Int /\ k \in Int
    BY Numbers, DecoderAssumption DEF Read, TokensSent
  <2>2. tb \in Int /\ TokenSamples \in Nat \ {0}
    BY <2>1, Numbers, SenderNumbers
  <2>. DEFINE x == Tolerance * Hop
  <2>3. x \in Nat /\ Window + (2 * x) + (4 * Hop) <= TokenSamples
    BY Halves
  <2>. HIDE DEF x, tb
  <2> QED
    BY <2>1, <2>2, <2>3, Sizes
<1>2. 2 * (tb - Read) < Window /\ 2 * (te - Read) > Window
  BY DEF Mostly, Read
<1>. HIDE DEF tb
<1>3. a \in 0..Window-1 /\ b \in 0..Window-1 /\ 2 * ((b - a) + 1) > Window
  BY <1>1, <1>2
<1>4. ASSUME NEW i \in a..b
      PROVE  i \in 0..Window-1 /\ Read + i \in Int /\ tb <= Read + i /\ Read + i < te
  BY <1>1, <1>2, <1>3
<1>5. ASSUME NEW i \in a..b PROVE Sound(NextWindow[i]) = t
  <2>. DEFINE n == Read + i
  <2>1. n \in Int /\ TokenBegin(m, k) <= n /\ n < TokenBegin(m, k) + TokenSamples
        /\ NextWindow[i] = n
    BY <1>4 DEF tb, WindowReady
  <2>. HIDE DEF n
  <2>2. Sound(n) = t
    BY <2>1, Numbers, SoundOf
  <2> QED
    BY <2>1, <2>2
<1>6. t # Silence
  BY TokenPlace DEF Silence
<1>7. DOMAIN NextWindow = 0..Window-1
  BY DEF NextWindow
<1>. DEFINE window == NextWindow
<1>8. /\ DOMAIN window = 0..Window-1 /\ heard \in Hears(window)
      /\ \A i \in a..b : Sound(window[i]) = t
  BY <1>5, <1>7
<1>. HIDE DEF window, a, b, t
<1>9. heard[1] = t
  BY <1>3, <1>6, <1>8, HeardLoudest
<1> QED
  BY <1>9 DEF t

-----------------------------------------------------------------------------
(* Half a ring of frames                                                   *)

\* The slots of half a ring, from one of them on, are as many as frames.
LEMMA HalfCounted ==
    ASSUME NEW r \in 0..B-1,
           NEW S \in SUBSET {(r + n) % B : n \in 0..(B \div 2 - 1)},
           NEW J, J = {n \in 0..(B \div 2 - 1) : (r + n) % B \in S}
    PROVE  /\ IsFiniteSet(S) /\ IsFiniteSet(J)
           /\ Cardinality(S) \in Nat /\ Cardinality(S) = Cardinality(J)
<1>. DEFINE h == B \div 2
            D == 0..(h - 1)
            f == [n \in J |-> (r + n) % B]
            g == [s \in S |-> SizeFilled(r, s, B)]
<1>1. h \in Nat /\ h <= B
  BY DecoderAssumption
<1>2. IsFiniteSet(D) /\ J \in SUBSET D
  <2>1. 0 \in Int /\ h - 1 \in Int
    BY <1>1
  <2>2. IsFiniteSet(D)
    BY <2>1, FS_Interval
  <2> QED
    BY <2>2
<1>3. IsFiniteSet(J)
  <2>. HIDE DEF D
  <2> QED
    BY <1>2, FS_Subset
<1>4. f \in [J -> S] /\ \A y \in S : \E x \in J : f[x] = y
  OBVIOUS
<1>5. g \in [S -> J] /\ \A y \in J : \E x \in S : g[x] = y
  <2>1. \A n \in D : SizeFilled(r, (r + n) % B, B) = n
    <3>1. ASSUME NEW n \in D PROVE SizeFilled(r, (r + n) % B, B) = n
      <4>1. n \in 0..B-1 /\ B \in Nat \ {0}
        BY <1>1, DecoderAssumption
      <4> QED
        BY <4>1, Ahead
    <3> QED
      BY <3>1
  <2>2. \A s \in S : \E n \in J : s = (r + n) % B
    OBVIOUS
  <2>3. \A s \in S : g[s] \in J
    BY <1>2, <2>1, <2>2
  <2>4. \A n \in J : (r + n) % B \in S /\ g[(r + n) % B] = n
    BY <1>2, <2>1
  <2>. HIDE DEF D
  <2> QED
    BY <2>3, <2>4
<1>. HIDE DEF f, g, D
<1>6. IsFiniteSet(S) /\ Cardinality(S) <= Cardinality(J)
  BY <1>3, <1>4, Onto
<1>7. Cardinality(J) <= Cardinality(S)
  BY <1>5, <1>6, Onto
<1>8. Cardinality(S) \in Nat /\ Cardinality(J) \in Nat
  BY <1>3, <1>6, FS_CardinalityType
<1> QED
  BY <1>3, <1>6, <1>7, <1>8

\* If all but a few are in a set, then one of the first few is, and of the last.
LEMMA Spread ==
    ASSUME NEW h \in Nat, NEW few \in Nat, few < h, NEW J \in SUBSET (0..h-1),
           Cardinality(J) >= h - few
    PROVE  /\ \E n \in J : n <= few
           /\ \E n \in J : n >= (h - 1) - few
<1>1. IsFiniteSet(0..h-1)
  BY FS_Interval
<1>2. IsFiniteSet(J) /\ Cardinality(J) \in Nat
  <2>1. IsFiniteSet(J)
    BY <1>1, FS_Subset
  <2> QED
    BY <2>1, FS_CardinalityType
<1>3. ASSUME NEW a \in Int, NEW b \in Int, a <= b, J \in SUBSET (a..b)
      PROVE  Cardinality(J) <= (b - a) + 1
  <2>1. IsFiniteSet(a..b) /\ Cardinality(a..b) = (b - a) + 1
    BY <1>3, FS_Interval
  <2>2. Cardinality(J) <= Cardinality(a..b)
    BY <1>3, <2>1, FS_Subset
  <2> QED
    BY <2>1, <2>2
<1>4. ASSUME NEW a \in Int, NEW b \in Int, a > b, J \in SUBSET (a..b)
      PROVE  Cardinality(J) = 0
  <2>1. J = {}
    BY <1>4
  <2> QED
    BY <2>1, FS_EmptySet
<1>5. ASSUME \A n \in J : ~(n <= few) PROVE FALSE
  <2>1. J \in SUBSET ((few + 1)..(h - 1)) /\ few + 1 \in Int /\ h - 1 \in Int
    BY <1>5
  <2>2. CASE few + 1 <= h - 1
    <3>1. Cardinality(J) <= ((h - 1) - (few + 1)) + 1
      BY <1>3, <2>1, <2>2
    <3> QED
      BY <1>2, <3>1
  <2>3. CASE few + 1 > h - 1
    BY <1>2, <1>4, <2>1, <2>3
  <2> QED
    BY <2>1, <2>2, <2>3
<1>6. ASSUME \A n \in J : ~(n >= (h - 1) - few) PROVE FALSE
  <2>1. J \in SUBSET (0..((h - 2) - few)) /\ 0 \in Int /\ (h - 2) - few \in Int
    BY <1>6
  <2>2. CASE 0 <= (h - 2) - few
    <3>1. Cardinality(J) <= (((h - 2) - few) - 0) + 1
      BY <1>3, <2>1, <2>2
    <3> QED
      BY <1>2, <3>1
  <2>3. CASE 0 > (h - 2) - few
    BY <1>2, <1>4, <2>1, <2>3
  <2> QED
    BY <2>1, <2>2, <2>3
<1> QED
  BY <1>5, <1>6

-----------------------------------------------------------------------------
(* Where a message is found                                                *)

\* From the frame f on, the frames of the token follow, as near as the search
\* may tell: at most Tolerance Hops late, or a window and some Hops early.
Found(f, m, k) ==
    /\ (f * Hop) - TokenBegin(m, k) < Tolerance * Hop
    /\ (f * Hop) - TokenBegin(m, k) > (0 - Window) - ((Tolerance + 1) * Hop)

\* Windows which reach the first tokens of two messages are far apart.
LEMMA SameMessage ==
    ASSUME Typed, Geometry, NEW f \in Int, NEW g \in Int,
           f - g < B \div 2, g - f < B \div 2,
           NEW m \in 1..Messages, NEW o \in 1..Messages, Overlaps(f, m, 1), Overlaps(g, o, 1)
    PROVE  m = o
<1>1. ASSUME NEW x \in Int, NEW y \in Int, y - x < B \div 2,
             NEW p \in 1..Messages, NEW q \in 1..Messages, p < q, Overlaps(x, p, 1), Overlaps(y, q, 1)
      PROVE  FALSE
  <2>. DEFINE bp == TokenBegin(p, 1)
              bq == TokenBegin(q, 1)
              xh == x * Hop
              yh == y * Hop
              T == TokenSamples
  <2>1. T \in Nat \ {0} /\ bp \in Int /\ bq \in Int /\ xh \in Int /\ yh \in Int /\ Window \in Nat
    <3>1. p \in Int /\ q \in Int /\ 1 \in Int
      OBVIOUS
    <3> QED
      BY <3>1, Numbers, SenderNumbers, Halves, Sizes
  <2>2. bq - bp >= 3 * T
    <3>1. /\ bp = begin + (Period * (p - 1)) /\ bq = begin + (Period * (q - 1))
          /\ Period >= TokensSent * T /\ Period \in Nat /\ TokensSent \in Nat \ {0, 1, 2}
      <4>1. p \in Int /\ q \in Int /\ 1 \in Int /\ T * (1 - 1) = 0
        BY <2>1
      <4>2. /\ \A c \in {p, q} : BeginOf(c) \in Int /\ BeginOf(c) = begin + (Period * (c - 1))
            /\ \A c \in {p, q} : TokenBegin(c, 1) = BeginOf(c) + (T * (1 - 1))
            /\ Period >= TokensSent * T /\ Period \in Nat /\ TokensSent \in Nat \ {0, 1, 2}
        BY <4>1, Numbers, SenderNumbers
      <4> QED
        BY <4>1, <4>2
    <3>2. (q - 1) - (p - 1) \in Nat \ {0} /\ p - 1 \in Int /\ q - 1 \in Int
      BY <1>1
    <3>3. \A P, c, d \in Nat : d - c \in Nat \ {0} => (P * d) - (P * c) >= P
      <4>1. ASSUME NEW P \in Nat, NEW c \in Nat, NEW d \in Nat, d - c \in Nat \ {0}
            PROVE  (P * d) - (P * c) >= P
        <5>1. (P * d) - (P * c) = P * (d - c) /\ P * (d - c) = P + (P * ((d - c) - 1))
          OBVIOUS
        <5>2. P * ((d - c) - 1) \in Nat
          BY <4>1
        <5> QED
          BY <5>1, <5>2
      <4> QED
        BY <4>1
    <3>4. (Period * (q - 1)) - (Period * (p - 1)) >= Period
      BY <3>1, <3>2, <3>3
    <3>5. TokensSent * T >= 3 * T
      <4>1. TokensSent * T = (3 * T) + ((TokensSent - 3) * T) /\ (TokensSent - 3) * T \in Nat
        BY <2>1, <3>1
      <4> QED
        BY <2>1, <4>1
    <3>. DEFINE u == Period * (p - 1)
                v == Period * (q - 1)
                z == TokensSent * T
    <3>6. /\ u \in Int /\ v \in Int /\ z \in Int /\ v - u >= Period /\ z >= 3 * T /\ Period >= z
          /\ bp = begin + u /\ bq = begin + v /\ begin \in Nat /\ Period \in Nat
      BY <2>1, <3>1, <3>2, <3>4, <3>5, Numbers
    <3>. HIDE DEF u, v, z, bp, bq, T
    <3> QED
      BY <2>1, <3>6
  <2>3. xh + Window > bp /\ xh < bp + T /\ yh + Window > bq /\ yh < bq + T
    BY <1>1 DEF Overlaps
  <2>4. Window <= T
    <3>. DEFINE t == Tolerance * Hop
    <3>1. t \in Nat /\ Window + (2 * t) + (4 * Hop) <= TokenSamples
      BY Halves
    <3>. HIDE DEF t
    <3> QED
      BY <3>1, Sizes, <2>1
  <2>5. yh - xh < T
    <3>. DEFINE h == B \div 2
                w == (x + h) - 1
    <3>1. h \in Int /\ T = h * Hop /\ y - x < h
      BY <1>1, Halves
    <3>. HIDE DEF h
    <3>2. w \in Int /\ y <= w /\ x + h \in Int
      BY <3>1
    <3>3. w * Hop = ((x * Hop) + (h * Hop)) - Hop
      BY <3>1, Sizes
    <3>. HIDE DEF w
    <3>4. yh <= w * Hop
      BY <3>2, Halves
    <3>5. yh <= (xh + T) - Hop
      BY <3>1, <3>3, <3>4
    <3>. HIDE DEF xh, yh, T
    <3> QED
      BY <2>1, <3>5, Sizes
  <2>. HIDE DEF bp, bq, xh, yh, T
  <2> QED
    BY <2>1, <2>2, <2>3, <2>4, <2>5
<1>2. CASE m < o
  BY <1>1, <1>2
<1>3. CASE o < m
  BY <1>1, <1>3
<1> QED
  BY <1>2, <1>3, DecoderAssumption

\* Enough frames of the first start token tell where the message is.
LEMMA StartPlaced ==
    ASSUME Typed, Geometry, NEW ring, NEW g \in Int,
           \A n \in 0..(B \div 2 - 1) :
              FirstStart(ring[(readBlock + n) % B][1]) => \E m \in 1..Messages : Overlaps(g + n, m, 1),
           FirstTokenRepetitions(ring) >= B \div 2 - Tolerance
    PROVE  \E m \in 1..Messages : Found(g + (B - 1), m, 3)
<1>. DEFINE h == B \div 2
            S == {i \in FirstHalf : FirstStart(ring[i][1])}
            J == {n \in 0..h-1 : (readBlock + n) % B \in S}
            T == TokenSamples
<1>1. /\ h \in Nat /\ B = 2 * h /\ T = h * Hop /\ T \in Nat /\ Tolerance \in Nat
      /\ (2 * Tolerance) + 4 < h
      /\ \A x, y \in Int : x * Hop \in Int /\ (x + y) * Hop = (x * Hop) + (y * Hop)
      /\ \A x, y \in Int : x <= y => x * Hop <= y * Hop
  BY Halves
<1>2. Cardinality(J) >= h - Tolerance
  <2>1. readBlock \in 0..B-1 /\ S \in SUBSET {(readBlock + n) % B : n \in 0..(B \div 2 - 1)}
    BY TypeOKParts DEF Typed, Ranges, FirstHalf
  <2>2. J = {n \in 0..(B \div 2 - 1) : (readBlock + n) % B \in S}
    OBVIOUS
  <2>3. Cardinality(S) >= h - Tolerance
    BY DEF FirstTokenRepetitions
  <2>. HIDE DEF S, J, h
  <2>4. Cardinality(S) = Cardinality(J)
    BY <2>1, <2>2, HalfCounted
  <2> QED
    BY <2>3, <2>4
<1>3. \A n \in J : \E m \in 1..Messages : Overlaps(g + n, m, 1)
  OBVIOUS
<1>4. J \in SUBSET (0..h-1)
  OBVIOUS
<1>. HIDE DEF S, J, h, T
<1>5. /\ \E n \in J : n <= Tolerance
      /\ \E n \in J : n >= (h - 1) - Tolerance
  <2>1. Tolerance < h
    BY <1>1
  <2> QED
    BY <1>1, <1>2, <1>4, <2>1, Spread
<1>6. PICK n \in J : n <= Tolerance
  BY <1>5
<1>7. PICK l \in J : l >= (h - 1) - Tolerance
  BY <1>5
<1>8. n \in 0..h-1 /\ l \in 0..h-1
  BY <1>4
<1>9. PICK m \in 1..Messages : Overlaps(g + n, m, 1)
  BY <1>3
<1>10. PICK o \in 1..Messages : Overlaps(g + l, o, 1)
  BY <1>3
<1>11. m = o
  <2>. DEFINE x == g + n
              y == g + l
  <2>1. h \in Nat
    BY <1>1
  <2>2. x \in Int /\ y \in Int /\ x - y < h /\ y - x < h
    BY <1>8, <2>1
  <2>3. Overlaps(x, m, 1) /\ Overlaps(y, o, 1)
    BY <1>9, <1>10
  <2>. HIDE DEF x, y
  <2> QED
    BY <2>2, <2>3, SameMessage DEF h
<1>. DEFINE tb == TokenBegin(m, 1)
            w == TokenBegin(m, 3)
<1>12. tb \in Int /\ w = tb + (2 * T)
  <2>1. m \in Int /\ 1 \in Int /\ 2 \in Int /\ 1 + 1 = 2 /\ 2 + 1 = 3 /\ T \in Int
    BY <1>1
  <2>2. /\ tb \in Int /\ TokenBegin(m, 1 + 1) = tb + T
        /\ TokenBegin(m, 2 + 1) = TokenBegin(m, 2) + T
    BY <2>1, Numbers, SenderNumbers DEF T
  <2>3. TokenBegin(m, 2) = tb + T /\ w = TokenBegin(m, 2) + T
    BY <2>1, <2>2
  <2>. HIDE DEF tb, w
  <2> QED
    BY <2>1, <2>2, <2>3
<1>. DEFINE F == g + (B - 1)
            a == (g + h) - (1 + Tolerance)
            b == g + Tolerance
            c == Tolerance * Hop
<1>13. /\ a \in Int /\ b \in Int /\ c \in Int /\ g + n \in Int /\ g + l \in Int /\ F \in Int
       /\ a <= g + l /\ g + n <= b
       /\ F = a + (h + Tolerance) /\ F = b + ((2 * h) - (Tolerance + 1))
  BY <1>1, <1>6, <1>7, <1>8
<1>14. /\ a * Hop <= (g + l) * Hop /\ (g + n) * Hop <= b * Hop
       /\ \A x \in {a, b, g + l, g + n, F} : x * Hop \in Int
  BY <1>1, <1>13
<1>15. F * Hop = ((a * Hop) + T) + c
  <2>. DEFINE q == h + Tolerance
  <2>1. q \in Int /\ q * Hop = (h * Hop) + c
    BY <1>1
  <2>2. a \in Int /\ F = a + q
    BY <1>13
  <2>. HIDE DEF F, a, c, q
  <2>3. F * Hop = (a * Hop) + (q * Hop)
    BY <1>1, <2>1, <2>2
  <2>. DEFINE x == a * Hop
  <2>4. x \in Int /\ T \in Int /\ c \in Int /\ q * Hop = T + c /\ F * Hop = x + (q * Hop)
    BY <1>1, <1>13, <1>14, <2>1, <2>3
  <2>5. F * Hop = (x + T) + c
    <3>. HIDE DEF x
    <3> QED
      BY <2>4
  <2> QED
    BY <2>5
<1>16. F * Hop = ((b * Hop) + (2 * T)) - (c + Hop)
  <2>. DEFINE d == (2 * h) - (Tolerance + 1)
  <2>1. d \in Int /\ d * Hop = (2 * (h * Hop)) - (c + Hop)
    <3>1. h \in Nat /\ Tolerance \in Nat /\ Hop \in Nat
      BY <1>1, Sizes
    <3> QED
      BY <3>1
  <2>2. b \in Int /\ F = b + d
    BY <1>13
  <2>. HIDE DEF F, b, c, d
  <2>3. F * Hop = (b * Hop) + (d * Hop)
    BY <1>1, <2>1, <2>2
  <2> QED
    BY <1>1, <1>13, <1>14, <2>1, <2>3, Sizes
<1>17. (Tolerance + 1) * Hop = c + Hop
  BY <1>1, Sizes
<1>18. ((g + n) * Hop) + Window > tb /\ (g + l) * Hop < tb + T
  BY <1>9, <1>10, <1>11 DEF Overlaps, T
<1>. DEFINE ah == a * Hop
            bh == b * Hop
            gn == (g + n) * Hop
            gl == (g + l) * Hop
            fh == F * Hop
<1>19. /\ ah \in Int /\ bh \in Int /\ gn \in Int /\ gl \in Int /\ fh \in Int /\ c \in Int
       /\ ah <= gl /\ gn <= bh /\ gn + Window > tb /\ gl < tb + T
       /\ fh = (ah + T) + c /\ fh = (bh + (2 * T)) - (c + Hop)
       /\ tb \in Int /\ w = tb + (2 * T) /\ T \in Nat /\ Window \in Nat /\ Hop \in Nat
  BY <1>1, <1>12, <1>13, <1>14, <1>15, <1>16, <1>18, Sizes
<1>20. fh - w < c /\ fh - w > (0 - Window) - (c + Hop)
  <2>. HIDE DEF ah, bh, gn, gl, fh, c, tb, w
  <2> QED
    BY <1>19
<1>21. Found(F, m, 3)
  BY <1>17, <1>20 DEF Found
<1> QED
  BY <1>21

\* More than half of the frames a token is read from have most of it.
LEMMA MostlyFrames ==
    ASSUME Typed, Geometry, NEW f \in Int, NEW m \in 1..Messages, NEW k \in 1..TokensSent,
           Found(f, m, k)
    PROVE  \E lo, hi \in 0..(B \div 2 - 1) :
              /\ 2 * ((hi - lo) + 1) > B \div 2
              /\ \A n \in lo..hi : Mostly(f + n, m, k)
<1>. DEFINE h == B \div 2
            T == TokenSamples
            c == Tolerance * Hop
            tb == TokenBegin(m, k)
            fh == f * Hop
<1>1. /\ h \in Nat /\ T = h * Hop /\ T \in Nat /\ Tolerance \in Nat /\ c \in Nat
      /\ Window + (2 * c) + (4 * Hop) <= T /\ (2 * Tolerance) + 4 < h
      /\ \A x, y \in Int : x * Hop \in Int /\ (x + y) * Hop = (x * Hop) + (y * Hop)
      /\ \A x, y \in Int : x <= y => x * Hop <= y * Hop
  BY Halves
<1>. HIDE DEF h, T, c
<1>2. tb \in Int /\ fh \in Int /\ Window \in Nat \ {0} /\ Hop \in Nat \ {0}
  <2>1. m \in Int /\ k \in Int
    BY Numbers, DecoderAssumption DEF TokensSent
  <2> QED
    BY <1>1, <2>1, Numbers, SenderNumbers, Sizes
<1>3. fh - tb < c /\ fh - tb > (0 - Window) - (c + Hop)
  <2>1. (Tolerance + 1) * Hop = c + Hop
    BY <1>1, Sizes DEF c
  <2> QED
    BY <2>1 DEF Found, c
<1>. HIDE DEF tb, fh
<1>4. ASSUME NEW n \in Int, NEW nh \in Int, nh = n * Hop,
             2 * (tb - (fh + nh)) < Window, 2 * ((tb + T) - (fh + nh)) > Window
      PROVE  Mostly(f + n, m, k)
  <2>1. (f + n) * Hop = fh + nh
    BY <1>1, <1>4 DEF fh
  <2> QED
    BY <1>4, <2>1 DEF Mostly, tb, T
<1>5. CASE 2 * (fh - tb) > 0 - Window
  <2>. DEFINE hi == h \div 2
  <2>1. hi \in 0..h-1 /\ 0 \in 0..h-1 /\ 2 * ((hi - 0) + 1) > h /\ 2 * hi <= h
    <3>1. h \in Nat /\ 4 < h
      BY <1>1
    <3> QED
      BY <3>1
  <2>2. (2 * hi) * Hop <= T /\ (2 * hi) * Hop = 2 * (hi * Hop)
    BY <1>1, <1>2, <2>1
  <2>. HIDE DEF hi
  <2>3. ASSUME NEW n \in 0..hi PROVE Mostly(f + n, m, k)
    <3>. DEFINE nh == n * Hop
                x == hi * Hop
    <3>1. nh \in Nat /\ x \in Nat /\ nh <= x /\ 2 * x <= T /\ n \in Int
      BY <1>1, <1>2, <2>1, <2>2
    <3>2. 2 * (tb - (fh + nh)) < Window /\ 2 * ((tb + T) - (fh + nh)) > Window
      <4>. HIDE DEF nh, x
      <4> QED
        BY <1>1, <1>2, <1>3, <1>5, <3>1
    <3> QED
      BY <1>4, <3>1, <3>2
  <2> QED
    BY <2>1, <2>3 DEF h
<1>6. CASE ~(2 * (fh - tb) > 0 - Window)
  <2>. DEFINE lo == (h - 1) \div 2
              hi == h - 1
  <2>1. /\ lo \in 0..h-1 /\ hi \in 0..h-1 /\ 2 * ((hi - lo) + 1) > h /\ h - 2 <= 2 * lo
        /\ h - 2 \in Int
    <3>1. h \in Nat /\ 4 < h
      BY <1>1
    <3> QED
      BY <3>1
  <2>2. (h - 2) * Hop <= (2 * lo) * Hop /\ (2 * lo) * Hop = 2 * (lo * Hop)
        /\ (h - 2) * Hop = T - (2 * Hop) /\ hi * Hop = T - Hop
    BY <1>1, <1>2, <2>1
  <2>. HIDE DEF lo, hi
  <2>3. ASSUME NEW n \in lo..hi PROVE Mostly(f + n, m, k)
    <3>. DEFINE nh == n * Hop
                x == lo * Hop
    <3>1. nh \in Int /\ x \in Int /\ x <= nh /\ nh <= T - Hop /\ T - (2 * Hop) <= 2 * x /\ n \in Int
      <4>1. n \in Int /\ lo \in Int /\ hi \in Int /\ lo <= n /\ n <= hi
        BY <2>1
      <4> QED
        BY <1>1, <2>2, <4>1
    <3>2. 2 * (tb - (fh + nh)) < Window /\ 2 * ((tb + T) - (fh + nh)) > Window
      <4>. HIDE DEF nh, x
      <4> QED
        BY <1>1, <1>2, <1>3, <1>6, <3>1
    <3> QED
      BY <1>4, <3>1, <3>2
  <2> QED
    BY <2>1, <2>3 DEF h
<1> QED
  BY <1>5, <1>6

\* What is heard in more than half of the frames is certain.
LEMMA TokenCertain ==
    ASSUME Typed, NEW ring, NEW t, t # Silence,
           NEW lo \in 0..(B \div 2 - 1), NEW hi \in 0..(B \div 2 - 1), 2 * ((hi - lo) + 1) > B \div 2,
           \A n \in lo..hi : ring[(readBlock + n) % B] = t
    PROVE  TokensRead(ring) = {t}
<1>. DEFINE Those(u) == {i \in FirstHalf : ring[i] = u}
            Heard(u) == Cardinality({i \in FirstHalf : ring[i] = u})
            Tokens == {ring[i] : i \in FirstHalf} \ {Silence}
            Certain == {u \in Tokens : \A v \in (Tokens \ {u}) \union {Silence} :
                            Heard(u) > Heard(Silence) + (IF v = Silence THEN 0 ELSE Heard(v))}
            h == B \div 2
            D == 0..(B \div 2 - 1)
<1>1. TokensRead(ring) = Certain \/ Certain = {}
  BY DEF TokensRead
<1>2. h \in Nat /\ readBlock \in 0..B-1 /\ FirstHalf = {(readBlock + n) % B : n \in D}
  BY DecoderAssumption, TypeOKParts DEF Typed, Ranges, FirstHalf
<1>3. IsFiniteSet(FirstHalf) /\ Cardinality(FirstHalf) = h
  <2>1. D = {n \in 0..(B \div 2 - 1) : (readBlock + n) % B \in FirstHalf}
    BY <1>2
  <2>2. Cardinality(D) = h
    <3>1. 0 \in Int /\ h - 1 \in Int /\ h = B \div 2
      BY <1>2
    <3>2. Cardinality(0..(h - 1)) = IF 0 > h - 1 THEN 0 ELSE ((h - 1) - 0) + 1
      BY <3>1, FS_Interval
    <3>. HIDE DEF h
    <3> QED
      BY <1>2, <3>1, <3>2
  <2>3. FirstHalf \in SUBSET {(readBlock + n) % B : n \in 0..(B \div 2 - 1)}
    BY <1>2
  <2>. HIDE DEF D
  <2>4. IsFiniteSet(FirstHalf) /\ Cardinality(FirstHalf) = Cardinality(D)
    BY <1>2, <2>1, <2>3, HalfCounted
  <2> QED
    BY <2>2, <2>4
<1>4. Heard(t) >= (hi - lo) + 1
  <2>. DEFINE S == Those(t)
              J == {n \in 0..(B \div 2 - 1) : (readBlock + n) % B \in S}
  <2>1. S \in SUBSET {(readBlock + n) % B : n \in 0..(B \div 2 - 1)}
    BY <1>2
  <2>2. lo..hi \in SUBSET J
    <3>1. ASSUME NEW n \in lo..hi PROVE n \in D /\ (readBlock + n) % B \in S
      <4>1. n \in D
        BY <1>2
      <4> QED
        BY <1>2, <4>1
    <3> QED
      BY <3>1
  <2>3. Heard(t) = Cardinality(S)
    OBVIOUS
  <2>4. IsFiniteSet(J) /\ Cardinality(S) = Cardinality(J) /\ Cardinality(J) \in Nat
    <3>1. J = {n \in 0..(B \div 2 - 1) : (readBlock + n) % B \in S}
      OBVIOUS
    <3>. HIDE DEF J, S
    <3> QED
      BY <1>2, <2>1, <3>1, HalfCounted
  <2>5. IsFiniteSet(lo..hi) /\ Cardinality(lo..hi) = (hi - lo) + 1
    <3>1. lo \in Int /\ hi \in Int /\ ~(lo > hi)
      BY <1>2
    <3> QED
      BY <3>1, FS_Interval
  <2>6. Cardinality(lo..hi) <= Cardinality(J)
    <3>. HIDE DEF J
    <3> QED
      BY <2>2, <2>4, FS_Subset
  <2>. HIDE DEF S, J, Heard
  <2> QED
    BY <2>3, <2>4, <2>5, <2>6
<1>5. ASSUME NEW u, u # t
      PROVE  Heard(u) \in Nat /\ Heard(t) \in Nat /\ Heard(u) + Heard(t) <= h
  <2>1. Those(u) \in SUBSET FirstHalf /\ Those(t) \in SUBSET FirstHalf /\ Those(u) \cap Those(t) = {}
    BY <1>5
  <2>2. Heard(u) = Cardinality(Those(u)) /\ Heard(t) = Cardinality(Those(t))
    OBVIOUS
  <2>. HIDE DEF Those, Heard
  <2> QED
    BY <1>3, <2>1, <2>2, Apart
<1>6. ASSUME NEW u, u # t, u # Silence
      PROVE  (Heard(Silence) + Heard(u)) + Heard(t) <= h
  <2>. DEFINE U == Those(u) \union Those(Silence)
  <2>1. U \in SUBSET FirstHalf /\ Those(t) \in SUBSET FirstHalf /\ U \cap Those(t) = {}
    BY <1>6
  <2>2. Those(u) \in SUBSET U /\ Those(Silence) \in SUBSET U /\ Those(Silence) \cap Those(u) = {}
    BY <1>6
  <2>3. /\ Heard(u) = Cardinality(Those(u)) /\ Heard(t) = Cardinality(Those(t))
        /\ Heard(Silence) = Cardinality(Those(Silence))
    OBVIOUS
  <2>. HIDE DEF Those, Heard, U
  <2>4. /\ IsFiniteSet(U) /\ Cardinality(U) \in Nat /\ Cardinality(Those(t)) \in Nat
        /\ Cardinality(U) + Cardinality(Those(t)) <= h
    BY <1>3, <2>1, Apart
  <2>5. /\ Cardinality(Those(u)) \in Nat /\ Cardinality(Those(Silence)) \in Nat
        /\ Cardinality(Those(Silence)) + Cardinality(Those(u)) <= Cardinality(U)
    BY <2>2, <2>4, Apart
  <2> QED
    BY <1>2, <2>3, <2>4, <2>5
<1>7. t \in Tokens
  <2>1. lo \in lo..hi /\ lo \in D
    BY <1>2
  <2>2. (readBlock + lo) % B \in FirstHalf /\ ring[(readBlock + lo) % B] = t
    BY <1>2, <2>1
  <2> QED
    BY <2>2
<1>8. t \in Certain
  <2>1. Silence # t /\ Heard(Silence) \in Nat /\ Heard(t) \in Nat /\ Heard(Silence) + Heard(t) <= h
    <3>1. Silence # t
      OBVIOUS
    <3>. HIDE DEF Heard
    <3> QED
      BY <1>5, <3>1
  <2>2. ASSUME NEW v \in (Tokens \ {t}) \union {Silence}
        PROVE  Heard(t) > Heard(Silence) + (IF v = Silence THEN 0 ELSE Heard(v))
    <3>1. v # t
      BY <2>1, <2>2
    <3>. HIDE DEF Heard, Tokens
    <3>2. CASE v = Silence
      BY <1>2, <1>4, <2>1, <3>2
    <3>3. CASE v # Silence
      <4>1. Heard(v) \in Nat /\ (Heard(Silence) + Heard(v)) + Heard(t) <= h
        BY <1>5, <1>6, <3>1, <3>3
      <4> QED
        BY <1>2, <1>4, <2>1, <3>3, <4>1
    <3> QED
      BY <3>2, <3>3
  <2>. HIDE DEF Tokens, Heard
  <2> QED
    BY <1>7, <2>2
<1>9. Certain \subseteq {t}
  <2>1. ASSUME NEW u \in Certain, u # t PROVE FALSE
    <3>1. Heard(u) > Heard(Silence) + Heard(t)
      <4>1. t \in (Tokens \ {u}) \union {Silence}
        BY <1>7, <2>1
      <4>. HIDE DEF Tokens, Heard
      <4> QED
        BY <2>1, <4>1
    <3>2. /\ Heard(u) \in Nat /\ Heard(t) \in Nat /\ Heard(u) + Heard(t) <= h
          /\ Heard(Silence) \in Nat
      BY <1>5, <2>1
    <3>. HIDE DEF Heard
    <3> QED
      BY <1>2, <1>4, <3>1, <3>2
  <2> QED
    BY <2>1
<1>. HIDE DEF Certain
<1> QED
  BY <1>1, <1>8, <1>9

-----------------------------------------------------------------------------
(* What the ring of frames holds                                           *)

\* The frame whose slot is at the read position, and the slot of a frame.
First == frames - Fill
Slot(f) == (readBlock + (f - First)) % B

\* No frame of the ring has been left behind half-way.
FramesWhole == Fill \in Nat

\* In the search, a frame that has a first start token reaches one.
SearchHeard ==
    decoding = 0 =>
        \A f \in First..frames-1 :
            FirstStart(strongest[Slot(f)][1]) => \E m \in 1..Messages : Overlaps(f, m, 1)

\* A frame which has most of a token, and no noise, is a frame of that token.
TokenHeard ==
    decoding \in 1..NumMessageTokens =>
        \A f \in First..frames-1 : \A m \in 1..Messages, k \in 1..TokensSent :
            Mostly(f, m, k) /\ f \notin burst => spectrum[Slot(f)] = Token(m, k)

LEMMA SenderStays ==
    ASSUME UNCHANGED sender
    PROVE  /\ \A f, m, k : Overlaps(f, m, k)' = Overlaps(f, m, k)
           /\ \A f, m, k : Mostly(f, m, k)' = Mostly(f, m, k)
           /\ \A f, m, k : Found(f, m, k)' = Found(f, m, k)
           /\ \A m, k : Disturbed(m, k)' = Disturbed(m, k)
           /\ burst' = burst
  BY DEF Overlaps, Mostly, Found, Disturbed, TokenBegin, BeginOf, sender

\* This is what WindowsTaken gives for an iteration of the loop.
LEMMA NextWindowReady ==
    ASSUME RingInv, BlocksFit, TakeWindow
    PROVE  WindowReady /\ frames' = frames + 1 /\ UNCHANGED sender
<1>1. frames' = frames + 1 /\ analBuffer' = NextWindow /\ UNCHANGED sender
  BY DEF TakeWindow
<1>2. WindowsInOrder' /\ frames \in Nat
  BY WindowMoves, Numbers DEF RingInv
<1>3. (frames' - 1) * Hop = Read
  <2>1. frames' - 1 = frames
    BY <1>1, <1>2
  <2> QED
    BY <2>1 DEF Read
<1>4. frames' > 0
  BY <1>1, <1>2
<1> QED
  BY <1>1, <1>2, <1>3, <1>4 DEF WindowsInOrder, WindowReady

LEMMA FrameNumbers ==
    ASSUME Typed, FramesWhole
    PROVE  /\ frames \in Nat /\ Fill \in 0..B-2 /\ First \in Int /\ B \in Nat \ {0, 1}
           /\ readBlock \in 0..B-1 /\ writeBlock \in 0..B-1
           /\ First + Fill = frames
           /\ \A f \in First..frames-1 : f - First \in 0..Fill-1
           /\ \A n \in 0..Fill-1 : First + n \in First..frames-1 /\ Slot(First + n) = (readBlock + n) % B
<1>1. /\ frames \in Nat /\ Fill \in -1..B-2 /\ B \in Nat \ {0, 1}
      /\ readBlock \in 0..B-1 /\ writeBlock \in 0..B-1
  BY Numbers, FillTyped, TypeOKParts DEF Typed, Ranges
<1>2. Fill \in 0..B-2
  BY <1>1 DEF FramesWhole
<1>3. First \in Int /\ First + Fill = frames
  BY <1>1, <1>2 DEF First
<1>4. ASSUME NEW f \in First..frames-1 PROVE f - First \in 0..Fill-1
  BY <1>1, <1>2, <1>3
<1>5. ASSUME NEW n \in 0..Fill-1
      PROVE  First + n \in First..frames-1 /\ Slot(First + n) = (readBlock + n) % B
  <2>1. First + n \in First..frames-1 /\ (First + n) - First = n
    BY <1>1, <1>2, <1>3
  <2> QED
    BY <2>1 DEF Slot
<1> QED
  BY <1>1, <1>2, <1>3, <1>4, <1>5

\* The frame that is written is the next one, and the others stay.
LEMMA SearchWritten ==
    ASSUME RingInv, BlocksFit, FramesWhole, SearchHeard, SearchStart
    PROVE  \A n \in 0..Fill :
              FirstStart(strongest'[(readBlock + n) % B][1])
                  => \E m \in 1..Messages : Overlaps(First + n, m, 1)
<1>1. PICK heard \in Hears(NextWindow) : strongest' = [strongest EXCEPT ![writeBlock] = heard]
  BY SearchSteps
<1>2. TakeWindow /\ decoding = 0
  BY SearchSteps DEF SearchOutline
<1>3. WindowReady
  BY <1>2, NextWindowReady
<1>4. /\ Fill \in 0..B-2 /\ First \in Int /\ First + Fill = frames /\ B \in Nat \ {0, 1}
      /\ readBlock \in 0..B-1 /\ writeBlock \in 0..B-1
      /\ \A n \in 0..Fill-1 : First + n \in First..frames-1 /\ Slot(First + n) = (readBlock + n) % B
  BY FrameNumbers DEF RingInv
<1>5. /\ writeBlock = (readBlock + Fill) % B
      /\ \A n \in 0..B-1 : (readBlock + n) % B \in 0..B-1 /\ (n # Fill => (readBlock + n) % B # writeBlock)
  <2>1. FillOf(readBlock, writeBlock) # -1
    BY <1>4 DEF Fill
  <2> QED
    BY <1>4, <2>1, SlotWritten DEF Fill
<1>6. DOMAIN strongest = 0..B-1
  BY TypeOKParts DEF RingInv, Typed
<1>7. ASSUME NEW n \in 0..Fill, FirstStart(strongest'[(readBlock + n) % B][1])
      PROVE  \E m \in 1..Messages : Overlaps(First + n, m, 1)
  <2>1. CASE n = Fill
    <3>1. FirstStart(heard[1])
      BY <1>1, <1>4, <1>5, <1>6, <1>7, <2>1
    <3>2. \E m \in 1..Messages : Overlaps(frames, m, 1)
      BY <1>3, <3>1, StartOverlaps DEF RingInv
    <3> QED
      BY <1>4, <2>1, <3>2
  <2>2. CASE n # Fill
    <3>1. n \in 0..B-1 /\ n \in 0..Fill-1
      BY <1>4, <2>2
    <3>2. strongest'[(readBlock + n) % B] = strongest[(readBlock + n) % B]
      BY <1>1, <1>5, <1>6, <2>2, <3>1
    <3>. DEFINE f == First + n
    <3>3. f \in First..frames-1 /\ FirstStart(strongest[Slot(f)][1])
      BY <1>4, <1>7, <3>1, <3>2
    <3>. HIDE DEF f
    <3>4. \E m \in 1..Messages : Overlaps(f, m, 1)
      BY <1>2, <3>3 DEF SearchHeard
    <3> QED
      BY <3>4 DEF f
  <2> QED
    BY <2>1, <2>2
<1> QED
  BY <1>7

\* The same when a token is read.
LEMMA TokenWritten ==
    ASSUME RingInv, BlocksFit, Geometry, FramesWhole, TokenHeard, ReadToken
    PROVE  \A n \in 0..Fill : \A m \in 1..Messages, k \in 1..TokensSent :
              Mostly(First + n, m, k) /\ First + n \notin burst
                  => spectrum'[(readBlock + n) % B] = Token(m, k)
<1>1. TakeWindow /\ decoding \in 1..NumMessageTokens
  BY ReadSteps DEF ReadOutline
<1>2. PICK heard \in Hears(NextWindow) : spectrum' = [spectrum EXCEPT ![writeBlock] = heard[1]]
  BY ReadSteps DEF WriteFrame
<1>3. WindowReady
  BY <1>1, NextWindowReady
<1>4. /\ Fill \in 0..B-2 /\ First \in Int /\ First + Fill = frames /\ B \in Nat \ {0, 1}
      /\ readBlock \in 0..B-1 /\ writeBlock \in 0..B-1
      /\ \A n \in 0..Fill-1 : First + n \in First..frames-1 /\ Slot(First + n) = (readBlock + n) % B
  BY FrameNumbers DEF RingInv
<1>5. /\ writeBlock = (readBlock + Fill) % B
      /\ \A n \in 0..B-1 : (readBlock + n) % B \in 0..B-1 /\ (n # Fill => (readBlock + n) % B # writeBlock)
  <2>1. FillOf(readBlock, writeBlock) # -1
    BY <1>4 DEF Fill
  <2> QED
    BY <1>4, <2>1, SlotWritten DEF Fill
<1>6. DOMAIN spectrum = 0..B-1
  BY TypeOKParts DEF RingInv, Typed
<1>7. ASSUME NEW n \in 0..Fill, NEW m \in 1..Messages, NEW k \in 1..TokensSent,
             Mostly(First + n, m, k), First + n \notin burst
      PROVE  spectrum'[(readBlock + n) % B] = Token(m, k)
  <2>1. CASE n = Fill
    <3>1. Mostly(frames, m, k) /\ frames \notin burst
      BY <1>4, <1>7, <2>1
    <3>2. heard[1] = Token(m, k)
      BY <1>3, <3>1, FrameHeard DEF RingInv
    <3> QED
      BY <1>2, <1>4, <1>5, <1>6, <2>1, <3>2
  <2>2. CASE n # Fill
    <3>1. n \in 0..B-1 /\ n \in 0..Fill-1
      BY <1>4, <2>2
    <3>2. spectrum'[(readBlock + n) % B] = spectrum[(readBlock + n) % B]
      BY <1>2, <1>5, <1>6, <2>2, <3>1
    <3>. DEFINE f == First + n
    <3>3. f \in First..frames-1 /\ Slot(f) = (readBlock + n) % B /\ Mostly(f, m, k) /\ f \notin burst
      BY <1>4, <1>7, <3>1
    <3>. HIDE DEF f
    <3>4. spectrum[Slot(f)] = Token(m, k)
      BY <1>1, <3>3 DEF TokenHeard
    <3> QED
      BY <3>2, <3>3, <3>4
  <2> QED
    BY <2>1, <2>2
<1> QED
  BY <1>7

-----------------------------------------------------------------------------
(* What a step of the search and of the reading does                       *)

\* SearchStart by what it does to the ring of frames and to the message.
SearchEffects ==
    /\ UNCHANGED << sender, lost, words >> /\ decoding = 0 /\ pc = "loop"
    /\ \/ /\ Fill' = Fill + 1 /\ readBlock' = readBlock
          /\ decoding' = 0 /\ pc' = "loop" /\ UNCHANGED << values, result >>
       \/ /\ Fill = B - 2 /\ Fill' = 0 /\ StartFound(strongest')
          /\ decoding' = 1 /\ pc' = "host" /\ result' = "start"
          /\ values' = values \o << "start1", "start2" >>
       \/ /\ Fill = B - 2 /\ Fill' = B - 2 /\ readBlock' = (readBlock + 1) % B
          /\ decoding' = 0 /\ pc' = "loop" /\ UNCHANGED << values, result >>

LEMMA SearchDone ==
    ASSUME RingInv, SearchStart PROVE SearchEffects
<1>1. UNCHANGED << sender, lost, words >> /\ decoding = 0 /\ pc = "loop"
  BY DEF SearchStart, TakeWindow
<1>2. /\ FramesCollected'
      /\ \/ Fill' = Fill + 1 /\ decoding' = 0 /\ pc' = "loop"
         \/ Fill = B - 2 /\ Fill' = 0 /\ decoding' = 1 /\ pc' = "host"
         \/ Fill = B - 2 /\ Fill' = Fill /\ decoding' = 0 /\ pc' = "loop"
  BY SearchFrames DEF RingInv
<1>3. decoding' = 0 => Fill' \in -1..B-2
  BY <1>2 DEF FramesCollected
<1>4. /\ SizeFilled(readBlock, writeBlock', B) = Fill + 1 /\ Fill \in -1..B-2 /\ B \in Nat \ {0, 1}
  BY SearchSteps, FrameAdded, FillTyped, TypeOKParts, Numbers DEF RingInv, Typed
<1>5. \/ /\ SizeFilled(readBlock, writeBlock', B) < B - 1
         /\ UNCHANGED << readBlock, decoding, values, result >>
      \/ /\ StartFound(strongest') /\ decoding' = 1 /\ result' = "start"
         /\ values' = values \o << "start1", "start2" >>
      \/ /\ SizeFilled(readBlock, writeBlock', B) >= B - 1
         /\ readBlock' = (readBlock + 1) % B /\ UNCHANGED << decoding, values, result >>
  BY DEF SearchStart, GoOn, Return
<1> QED
  BY <1>1, <1>2, <1>3, <1>4, <1>5 DEF SearchEffects

\* The same for ReadToken; the frames of a token are used up.
ReadEffects ==
    /\ UNCHANGED << sender, words >> /\ decoding \in 1..NumMessageTokens /\ pc = "loop"
    /\ \/ /\ Fill' = Fill + 1 /\ readBlock' = readBlock
          /\ pc' = "loop" /\ UNCHANGED << decoding, values, result, lost >>
       \/ /\ Fill = (B \div 2) - 1 /\ Fill' = 0
          /\ lost' = lost + 1
          /\ pc' = "loop" /\ UNCHANGED << decoding, values, result >>
       \/ /\ Fill = (B \div 2) - 1 /\ Fill' = 0
          /\ \E token \in TokensRead(spectrum') \ {Unknown} : values' = Append(values, token)
          /\ decoding' = decoding + 1
          /\ pc' = "host" /\ result' = "token" /\ UNCHANGED lost

LEMMA ReadDone ==
    ASSUME RingInv, Geometry, FramesWhole, ReadToken PROVE ReadEffects
<1>1. UNCHANGED << sender, words >> /\ decoding \in 1..NumMessageTokens /\ pc = "loop"
  BY DEF ReadToken, TakeWindow
<1>2. /\ \/ Fill' = Fill + 1 /\ pc' = "loop"
         \/ Fill = (B \div 2) - 1 /\ Fill' \in -1..0 /\ pc' \in {"loop", "host"}
      /\ FramesCollected' /\ decoding' # 0
  BY ReadFrames DEF RingInv
<1>3. /\ SizeFilled(readBlock, writeBlock', B) = Fill + 1 /\ Fill \in 0..B-2 /\ writeBlock' \in 0..B-1
      /\ Ranges /\ B \in Nat \ {0, 1}
  BY ReadSteps, FrameAdded, TypeOKParts, FrameNumbers DEF RingInv, Typed
<1>4. /\ Fill \in -1..(B \div 2 - 1)
      /\ readBlock = (endStart + ((accumulated + 1) \div 2)) % B
  BY <1>1 DEF RingInv, FramesCollected
<1>5. CASE /\ SizeFilled(readBlock, writeBlock', B) < B \div 2
           /\ GoOn
           /\ UNCHANGED << readBlock, accumulated, decoding, values, lost >>
  <2>1. Fill # (B \div 2) - 1
    BY <1>3, <1>5
  <2> QED
    BY <1>1, <1>2, <1>5, <2>1 DEF ReadEffects, GoOn
<1>6. CASE /\ SizeFilled(readBlock, writeBlock', B) >= B \div 2
           /\ accumulated' = accumulated + B
           /\ readBlock' = (endStart + (accumulated' + 1) \div 2) % B
           /\ \/ GoOn /\ lost' = lost + 1 /\ UNCHANGED << decoding, values >>
              \/ /\ \E token \in TokensRead(spectrum') \ {Unknown} : values' = Append(values, token)
                 /\ decoding' = decoding + 1
                 /\ Return("token")
                 /\ UNCHANGED lost
  <2>1. SizeFilled(readBlock, writeBlock', B) = B \div 2 /\ Fill = (B \div 2) - 1
    BY <1>3, <1>4, <1>6
  <2>2. writeBlock' = (readBlock + (B \div 2)) % B
    BY <1>3, <2>1, Behind DEF Ranges
  <2>3. readBlock' = writeBlock'
    <3>. DEFINE x == (accumulated + 1) \div 2
                h == B \div 2
                e == endStart
    <3>1. x \in Int /\ h \in Int /\ e \in Int /\ ((accumulated + B) + 1) \div 2 = x + h
      <4>1. accumulated \in Nat /\ B = 2 * h /\ h \in Nat
        BY <1>3, Halves DEF Ranges
      <4>2. endStart \in Int
        BY <1>3 DEF Ranges
      <4>. HIDE DEF h
      <4> QED
        BY <4>1, <4>2
    <3>2. readBlock' = (e + (x + h)) % B /\ readBlock = (e + x) % B /\ writeBlock' = (readBlock + h) % B
      BY <1>4, <1>6, <2>2, <3>1
    <3>. DEFINE a == e + x
    <3>3. a \in Int /\ e + (x + h) = a + h /\ readBlock = a % B
      BY <3>1, <3>2
    <3>. HIDE DEF x, h, e, a
    <3>4. ((a % B) + h) % B = (a + h) % B
      BY <1>3, <3>1, <3>3, RingPlus
    <3> QED
      BY <3>2, <3>3, <3>4
  <2>4. Fill' = 0
    <3>1. SizeFilled(writeBlock', writeBlock', B) = 0
      <4>1. \A x \in 0..B-1 : SizeFilled(x, x, B) = 0
        BY DEF SizeFilled
      <4> QED
        BY <1>3, <4>1
    <3>2. FillOf(writeBlock', writeBlock') = 0
      BY <1>3, <3>1 DEF FillOf
    <3>3. Fill' = FillOf(readBlock', writeBlock')
      BY DEF Fill
    <3> QED
      BY <2>3, <3>2, <3>3
  <2> QED
    BY <1>1, <1>6, <2>1, <2>4 DEF ReadEffects, GoOn, Return
<1>7. \/ /\ SizeFilled(readBlock, writeBlock', B) < B \div 2
         /\ GoOn
         /\ UNCHANGED << readBlock, accumulated, decoding, values, lost >>
      \/ /\ SizeFilled(readBlock, writeBlock', B) >= B \div 2
         /\ accumulated' = accumulated + B
         /\ readBlock' = (endStart + (accumulated' + 1) \div 2) % B
         /\ \/ GoOn /\ lost' = lost + 1 /\ UNCHANGED << decoding, values >>
            \/ /\ \E token \in TokensRead(spectrum') \ {Unknown} : values' = Append(values, token)
               /\ decoding' = decoding + 1
               /\ Return("token")
               /\ UNCHANGED lost
  BY DEF ReadToken
<1> QED
  BY <1>5, <1>6, <1>7

\* FinishWord leaves the ring of frames alone, and no frame is in it.
LEMMA FinishDone ==
    ASSUME RingInv, FramesWhole, FinishWord
    PROVE  /\ UNCHANGED << sender, lost, words, values >> /\ pc = "loop"
           /\ decoding = NumMessageTokens + 1 /\ decoding' = 0
           /\ Fill' = 0 /\ pc' = "host" /\ result' = "word"
<1>1. UNCHANGED << sender, lost, words, values >> /\ pc = "loop" /\ decoding > NumMessageTokens
  BY DEF FinishWord, TakeWindow
<1>2. decoding' = 0 /\ pc' = "host" /\ result' = "word"
  BY DEF FinishWord, Return
<1>3. Fill \in -1..0 /\ Fill' = Fill
  BY FinishFrames DEF RingInv
<1>4. decoding = NumMessageTokens + 1
  <2>1. Ranges /\ NumMessageTokens \in Nat
    BY TypeOKParts, Numbers DEF RingInv, Typed
  <2>2. decoding \in 0..NumMessageTokens + 1
    BY <2>1 DEF Ranges
  <2> QED
    BY <1>1, <2>1, <2>2
<1> QED
  BY <1>1, <1>2, <1>3, <1>4 DEF FramesWhole

\* All other steps leave the rings of frames alone.
OtherSteps ==
    UNCHANGED << sender, frames, strongest, spectrum, readBlock, writeBlock, decoding, lost >>

LEMMA OthersDone ==
    ASSUME DecodeAudioBuffer \/ NoWindow \/ GetDecodedData \/ UNCHANGED vars
    PROVE  OtherSteps
  BY DEF DecodeAudioBuffer, NoWindow, GetDecodedData, HandOut, vars, OtherSteps, frameRing

-----------------------------------------------------------------------------
(* The ring of frames in a step                                            *)

\* A ring that is empty has no frames.
LEMMA NoFrames ==
    ASSUME frames' \in Nat, Fill' = 0 PROVE First'..frames'-1 = {}
<1>. DEFINE x == First'
            y == frames'
            z == Fill'
<1>1. x = y - z /\ y \in Nat /\ z = 0
  BY DEF First
<1>. HIDE DEF x, y, z
<1>2. x \in Int /\ y \in Int /\ x = y
  BY <1>1
<1>3. x..y-1 = {}
  BY <1>2
<1> QED
  BY <1>3 DEF x, y

\* Every step keeps what the frames of the ring tell.
LEMMA SearchKept ==
    ASSUME RingInv, BlocksFit, Geometry, FramesWhole, SearchHeard, TokenHeard, [Next]_vars
    PROVE  FramesWhole' /\ SearchHeard' /\ TokenHeard'
<1>1. /\ frames \in Nat /\ Fill \in 0..B-2 /\ First \in Int /\ B \in Nat \ {0, 1}
      /\ readBlock \in 0..B-1 /\ First + Fill = frames
  BY FrameNumbers DEF RingInv
<1>2. First' = frames' - Fill'
  BY DEF First
<1>3. CASE SearchStart
  <2>1. SearchEffects /\ UNCHANGED sender /\ frames' = frames + 1
    BY <1>3, SearchDone, SearchSteps, NextWindowReady
  <2>2. FramesWhole'
    BY <1>1, <2>1 DEF SearchEffects, FramesWhole
  <2>3. \A n \in 0..Fill :
            FirstStart(strongest'[(readBlock + n) % B][1]) => \E m \in 1..Messages : Overlaps(First + n, m, 1)
    BY <1>3, SearchWritten
  <2>4. ASSUME NEW f \in First'..frames'-1, decoding' = 0, FirstStart(strongest'[Slot(f)'][1])
        PROVE  \E m \in 1..Messages : Overlaps(f, m, 1)'
    <3>. DEFINE n == f - First
    <3>1. n \in 0..Fill /\ Slot(f)' = (readBlock + n) % B
      <4>1. CASE Fill' = Fill + 1 /\ readBlock' = readBlock
        <5>1. First' = First
          BY <1>1, <1>2, <2>1, <4>1
        <5>2. n \in 0..Fill
          BY <1>1, <2>1, <5>1
        <5> QED
          BY <4>1, <5>1, <5>2 DEF Slot
      <4>2. CASE Fill = B - 2 /\ Fill' = B - 2 /\ readBlock' = (readBlock + 1) % B
        <5>1. First' = First + 1
          BY <1>1, <1>2, <2>1, <4>2
        <5>2. n \in 0..Fill /\ f - First' = n - 1 /\ n - 1 \in Int /\ f \in Int
          BY <1>1, <2>1, <5>1
        <5>3. Slot(f)' = (((readBlock + 1) % B) + (n - 1)) % B
          BY <4>2, <5>2 DEF Slot
        <5>. DEFINE a == readBlock + 1
                    b == n - 1
        <5>4. a \in Int /\ b \in Int /\ a + b = readBlock + n /\ Slot(f)' = ((a % B) + b) % B
          BY <1>1, <5>2, <5>3
        <5>. HIDE DEF a, b, n
        <5>5. ((a % B) + b) % B = (a + b) % B
          BY <1>1, <5>4, RingPlus
        <5> QED
          BY <5>2, <5>4, <5>5
      <4> QED
        BY <2>1, <2>4, <4>1, <4>2 DEF SearchEffects
    <3>2. f = First + n
      BY <1>1, <1>2, <2>1, <2>4
    <3>. HIDE DEF n
    <3>3. PICK m \in 1..Messages : Overlaps(First + n, m, 1)
      BY <2>3, <2>4, <3>1
    <3>4. Overlaps(f, m, 1)
      BY <3>2, <3>3
    <3> QED
      BY <2>1, <3>4, SenderStays
  <2>5. SearchHeard'
    BY <2>4 DEF SearchHeard
  <2>6. TokenHeard'
    <3>1. decoding' \in 1..NumMessageTokens => First'..frames'-1 = {}
      <4>1. CASE decoding' = 0
        BY <4>1
      <4>2. CASE Fill' = 0
        <5>1. frames' \in Nat
          BY <1>1, <2>1
        <5> QED
          BY <4>2, <5>1, NoFrames
      <4> QED
        BY <2>1, <4>1, <4>2 DEF SearchEffects
    <3> QED
      BY <3>1 DEF TokenHeard
  <2> QED
    BY <2>2, <2>5, <2>6
<1>4. CASE ReadToken
  <2>1. ReadEffects /\ UNCHANGED sender /\ frames' = frames + 1
    BY <1>4, ReadDone, ReadSteps, NextWindowReady
  <2>2. FramesWhole'
    BY <1>1, <2>1 DEF ReadEffects, FramesWhole
  <2>3. \A n \in 0..Fill : \A m \in 1..Messages, k \in 1..TokensSent :
            Mostly(First + n, m, k) /\ First + n \notin burst => spectrum'[(readBlock + n) % B] = Token(m, k)
    BY <1>4, TokenWritten
  <2>4. ASSUME NEW f \in First'..frames'-1, NEW m \in 1..Messages, NEW k \in 1..TokensSent,
               Mostly(f, m, k)', f \notin burst'
        PROVE  spectrum'[Slot(f)'] = Token(m, k)
    <3>1. CASE Fill' = Fill + 1 /\ readBlock' = readBlock
      <4>. DEFINE n == f - First
      <4>1. First' = First
        BY <1>1, <1>2, <2>1, <3>1
      <4>2. n \in 0..Fill /\ f = First + n
        BY <1>1, <2>1, <4>1
      <4>3. Slot(f)' = (readBlock + n) % B
        BY <3>1, <4>1, <4>2 DEF Slot
      <4>4. Mostly(f, m, k) /\ f \notin burst
        BY <2>1, <2>4, SenderStays
      <4>. HIDE DEF n
      <4> QED
        BY <2>3, <4>2, <4>3, <4>4
    <3>2. CASE Fill' = 0
      <4>1. frames' \in Nat
        BY <1>1, <2>1
      <4>2. First'..frames'-1 = {}
        BY <3>2, <4>1, NoFrames
      <4> QED
        BY <4>2
    <3> QED
      BY <2>1, <3>1, <3>2 DEF ReadEffects
  <2>5. TokenHeard'
    BY <2>4 DEF TokenHeard
  <2>6. decoding' # 0
    BY <1>4, ReadFrames DEF RingInv
  <2>7. SearchHeard'
    BY <2>6 DEF SearchHeard
  <2> QED
    BY <2>2, <2>5, <2>7
<1>5. CASE FinishWord
  <2>1. Fill' = 0 /\ decoding' = 0 /\ frames' = frames + 1
    BY <1>5, FinishDone, FinishSteps, NextWindowReady
  <2>2. First'..frames'-1 = {}
    <3>1. frames' \in Nat
      BY <1>1, <2>1
    <3> QED
      BY <2>1, <3>1, NoFrames
  <2> QED
    BY <2>1, <2>2, Numbers DEF FramesWhole, SearchHeard, TokenHeard, RingInv
<1>6. CASE DecodeAudioBuffer \/ NoWindow \/ GetDecodedData \/ UNCHANGED vars
  <2>1. OtherSteps
    BY <1>6, OthersDone
  <2>2. Fill' = Fill /\ First' = First /\ \A f : Slot(f)' = Slot(f)
    BY <2>1 DEF OtherSteps, Fill, First, Slot
  <2>3. UNCHANGED sender /\ UNCHANGED << frames, strongest, spectrum, decoding >>
    BY <2>1 DEF OtherSteps
  <2>4. FramesWhole'
    BY <2>2 DEF FramesWhole
  <2>5. SearchHeard'
    BY <2>2, <2>3, SenderStays DEF SearchHeard
  <2>6. TokenHeard'
    BY <2>2, <2>3, SenderStays DEF TokenHeard
  <2> QED
    BY <2>4, <2>5, <2>6
<1> QED
  BY <1>3, <1>4, <1>5, <1>6 DEF Next

-----------------------------------------------------------------------------
(* Which message is read                                                   *)

Values == Int \union {"start1", "start2"}

\* The frames of the next token of the message follow from the first one on.
NextToken(m) == \A f, k \in Int : f = First /\ k = decoding + 2 => Found(f, m, k)

\* A part of the message, which has only noise besides.
Sent(word, m) == \A k \in 3..Len(word) : word[k] = Token(m, k) \/ Disturbed(m, k)

ValuesTyped == values \in Seq(Values) /\ words \in Seq(Seq(Values)) /\ lost \in Nat

\* A word waits only until the host fetches it.
WordWaits ==
    /\ result = "word" => pc = "host" /\ decoding = 0
    /\ decoding = 0 /\ result # "word" => values = << >>

\* Of the message that is read, all tokens before the next one are there.
MessageRead ==
    lost = 0 /\ decoding # 0 =>
        /\ Len(values) = decoding + 1
        /\ \E m \in 1..Messages :
              /\ decoding <= NumMessageTokens => NextToken(m)
              /\ Sent(values, m)

WordRead ==
    lost = 0 /\ result = "word" =>
        Len(values) = TokensSent /\ \E m \in 1..Messages : Sent(values, m)

MessageInv == ValuesTyped /\ WordWaits /\ MessageRead /\ WordRead /\ WordsRight

\* After the frames of a token come those of the next one.
LEMMA FoundNext ==
    ASSUME Typed, Geometry, NEW f \in Int, NEW m \in Int, NEW k \in Int, Found(f, m, k)
    PROVE  Found(f + (B \div 2), m, k + 1)
<1>. DEFINE h == B \div 2
            fh == f * Hop
            gh == (f + h) * Hop
            tb == TokenBegin(m, k)
            te == TokenBegin(m, k + 1)
            T == TokenSamples
<1>1. fh \in Int /\ gh = fh + T /\ T \in Int
  <2>1. h \in Int /\ T = h * Hop /\ T \in Int
    BY Halves
  <2>. HIDE DEF h, T
  <2>2. f * Hop \in Int /\ (f + h) * Hop = (f * Hop) + (h * Hop)
    BY <2>1, Halves
  <2> QED
    BY <2>1, <2>2
<1>2. tb \in Int /\ te = tb + T
  BY Numbers, SenderNumbers
<1>3. fh - tb < Tolerance * Hop /\ fh - tb > (0 - Window) - ((Tolerance + 1) * Hop)
  BY DEF Found
<1>4. gh - te = fh - tb
  <2>. HIDE DEF fh, gh, tb, te, T
  <2> QED
    BY <1>1, <1>2
<1>. HIDE DEF fh, tb
<1> QED
  BY <1>3, <1>4 DEF Found

\* A token is read as it was sent, unless there was noise.
LEMMA TokenRight ==
    ASSUME Typed, Geometry, FramesWhole, NEW ring,
           NEW m \in 1..Messages, NEW k \in 1..TokensSent,
           \A n \in 0..(B \div 2 - 1) :
              Mostly(First + n, m, k) /\ First + n \notin burst => ring[(readBlock + n) % B] = Token(m, k),
           Found(First, m, k), ~Disturbed(m, k)
    PROVE  TokensRead(ring) = {Token(m, k)}
<1>. DEFINE F == First
<1>1. F \in Int
  BY FrameNumbers
<1>2. PICK lo, hi \in 0..(B \div 2 - 1) :
          /\ 2 * ((hi - lo) + 1) > B \div 2
          /\ \A n \in lo..hi : Mostly(F + n, m, k)
  <2>1. Found(F, m, k)
    OBVIOUS
  <2>. HIDE DEF F
  <2> QED
    BY <1>1, <2>1, MostlyFrames
<1>3. ASSUME NEW f \in Int, Mostly(f, m, k) PROVE f \notin burst
  <2>. DEFINE fh == f * Hop
              tb == BeginOf(m) + (k - 1) * TokenSamples
              te == BeginOf(m) + k * TokenSamples
  <2>1. /\ tb \in Int /\ fh \in Int /\ te = tb + TokenSamples /\ TokenSamples \in Int
        /\ Window \in Nat \ {0} /\ tb = TokenBegin(m, k)
    <3>1. m \in Int /\ k \in Int /\ TokenSamples \in Int /\ f * Hop \in Int
      BY Numbers, Halves, DecoderAssumption DEF TokensSent
    <3>2. BeginOf(m) \in Int
      BY <3>1, Numbers, SenderNumbers
    <3>3. k * TokenSamples = ((k - 1) * TokenSamples) + TokenSamples /\ (k - 1) * TokenSamples \in Int
      BY <3>1
    <3> QED
      BY <3>1, <3>2, <3>3, Sizes DEF TokenBegin
  <2>2. 2 * (tb - fh) < Window /\ 2 * ((tb + TokenSamples) - fh) > Window
    <3>. HIDE DEF tb
    <3> QED
      BY <1>3, <2>1 DEF Mostly
  <2>3. fh + Window > tb /\ fh < te
    <3>. HIDE DEF fh, tb, te
    <3> QED
      BY <2>1, <2>2
  <2> QED
    BY <2>3 DEF Disturbed
<1>4. \A n \in lo..hi : ring[(readBlock + n) % B] = Token(m, k)
  <2>1. ASSUME NEW n \in lo..hi PROVE ring[(readBlock + n) % B] = Token(m, k)
    <3>1. n \in 0..(B \div 2 - 1) /\ F + n \in Int
      <4>1. F \in Int /\ lo \in 0..(B \div 2 - 1) /\ hi \in 0..(B \div 2 - 1) /\ B \div 2 \in Nat
        BY <1>1, DecoderAssumption
      <4>. HIDE DEF F
      <4> QED
        BY <4>1
    <3>2. Mostly(F + n, m, k)
      BY <1>2
    <3>3. F + n \notin burst
      BY <1>3, <3>1, <3>2
    <3> QED
      BY <3>1, <3>2, <3>3
  <2> QED
    BY <2>1
<1>5. Token(m, k) # Silence
  BY TokenPlace DEF Silence
<1> QED
  BY <1>2, <1>4, <1>5, TokenCertain

\* What is read is a token, or one of the two marks for none.
LEMMA ReadRange ==
    ASSUME Typed, NEW ring \in [0..B-1 -> 0..LastToken] PROVE TokensRead(ring) \subseteq Int
<1>. DEFINE Heard(t) == Cardinality({i \in FirstHalf : ring[i] = t})
            Tokens == {ring[i] : i \in FirstHalf} \ {Silence}
            Certain == {t \in Tokens : \A u \in (Tokens \ {t}) \union {Silence} :
                            Heard(t) > Heard(Silence) + (IF u = Silence THEN 0 ELSE Heard(u))}
            Equal == {t \in Tokens : \A u \in Tokens : Heard(t) >= Heard(u)}
<1>1. TokensRead(ring) = IF Certain # {} THEN Certain
                         ELSE IF Heard(Silence) = 0 THEN Equal
                         ELSE Tokens \union {Garbled, Unknown}
  BY DEF TokensRead
<1>2. FirstHalf \subseteq 0..B-1
  <2>1. ASSUME NEW i \in 0..(B \div 2 - 1) PROVE (readBlock + i) % B \in 0..B-1
    <3>1. readBlock \in Int /\ i \in Int /\ B \in Nat \ {0}
      BY TypeOKParts, Numbers DEF Typed, Ranges
    <3>2. readBlock + i \in Int
      BY <3>1
    <3> QED
      BY <3>1, <3>2, Remainder
  <2> QED
    BY <2>1 DEF FirstHalf
<1>3. Tokens \subseteq Int
  BY <1>2
<1>4. Garbled \in Int /\ Unknown \in Int
  BY DEF Garbled, Unknown
<1>. HIDE DEF Heard, Tokens
<1>5. Certain \subseteq Tokens /\ Equal \subseteq Tokens
  OBVIOUS
<1>. HIDE DEF Certain, Equal
<1> QED
  BY <1>1, <1>3, <1>4, <1>5

\* A message whose start tokens were found.
LEMMA MessageBegins ==
    ASSUME RingInv, BlocksFit, Geometry, FramesWhole, SearchHeard, MessageInv, SearchStart,
           Fill = B - 2, Fill' = 0, StartFound(strongest'),
           decoding' = 1, values' = values \o << "start1", "start2" >>, pc' = "host", result' = "start",
           UNCHANGED << sender, lost, words >>, decoding = 0, pc = "loop"
    PROVE  MessageInv'
<1>1. values = << >>
  BY DEF MessageInv, WordWaits
<1>2. values' = << "start1", "start2" >>
  BY <1>1
<1>3. ValuesTyped'
  BY <1>2 DEF MessageInv, ValuesTyped, Values
<1>4. WordWaits'
  BY DEF WordWaits
<1>5. WordRead'
  BY DEF WordRead
<1>6. WordsRight'
  BY SenderStays DEF MessageInv, WordsRight
<1>7. /\ frames \in Nat /\ First \in Int /\ First + Fill = frames /\ frames' = frames + 1
      /\ B \in Nat \ {0, 1}
  BY FrameNumbers, SearchSteps, NextWindowReady DEF RingInv
<1>8. PICK m \in 1..Messages : Found(First + (B - 1), m, 3)
  <2>. DEFINE g == First
              ring == strongest'
  <2>1. \A n \in 0..Fill :
            FirstStart(ring[(readBlock + n) % B][1]) => \E o \in 1..Messages : Overlaps(g + n, o, 1)
    BY SearchWritten
  <2>2. \A n \in 0..(B \div 2 - 1) : n \in 0..Fill
    BY <1>7
  <2>3. \A n \in 0..(B \div 2 - 1) :
            FirstStart(ring[(readBlock + n) % B][1]) => \E o \in 1..Messages : Overlaps(g + n, o, 1)
    BY <2>1, <2>2
  <2>4. FirstTokenRepetitions(ring) >= B \div 2 - Tolerance /\ g \in Int /\ Typed
    BY <1>7 DEF StartFound, RingInv
  <2>. HIDE DEF g, ring
  <2>5. \E m \in 1..Messages : Found(g + (B - 1), m, 3)
    BY <2>3, <2>4, StartPlaced
  <2> QED
    BY <2>5 DEF g
<1>9. NextToken(m)'
  <2>1. First' = First + (B - 1)
    <3>. DEFINE x == First
                y == First'
                z == Fill'
    <3>1. y = frames' - z /\ z = 0 /\ x \in Int /\ x + (B - 2) = frames
      BY <1>7 DEF First
    <3>. HIDE DEF x, y, z
    <3>2. y = x + (B - 1)
      BY <1>7, <3>1
    <3> QED
      BY <3>2 DEF x, y
  <2>2. ASSUME NEW f \in Int, NEW k \in Int, f = First', k = decoding' + 2 PROVE Found(f, m, k)'
    <3>1. f = First + (B - 1) /\ k = 3
      BY <2>1, <2>2
    <3>2. Found(f, m, k)
      BY <1>8, <3>1
    <3> QED
      BY <3>2, SenderStays
  <2> QED
    BY <2>2 DEF NextToken
<1>10. MessageRead'
  <2>1. Len(values') = decoding' + 1 /\ 3..Len(values') = {}
    <3>1. Len(values') = 2
      BY <1>2
    <3>2. 3..2 = {}
      OBVIOUS
    <3> QED
      BY <3>1, <3>2
  <2>2. Sent(values, m)'
    BY <2>1 DEF Sent
  <2> QED
    BY <1>9, <2>1, <2>2 DEF MessageRead
<1> QED
  BY <1>3, <1>4, <1>5, <1>6, <1>10 DEF MessageInv

\* A token that is read is the next one of the message.
LEMMA TokenAppended ==
    ASSUME RingInv, BlocksFit, Geometry, FramesWhole, TokenHeard, MessageInv, ReadToken,
           Fill = (B \div 2) - 1, Fill' = 0,
           NEW token \in TokensRead(spectrum') \ {Unknown}, values' = Append(values, token),
           decoding' = decoding + 1, pc' = "host", result' = "token",
           UNCHANGED << sender, lost, words >>, decoding \in 1..NumMessageTokens
    PROVE  MessageInv'
<1>1. token \in Values
  <2>1. spectrum' \in [0..B-1 -> 0..LastToken] /\ Typed
    <3>1. Typed'
      <4>1. [Next]_vars
        BY DEF Next
      <4> QED
        BY <4>1, TypesStep DEF RingInv
    <3> QED
      BY <3>1, TypeOKPartsNext DEF Typed, RingInv
  <2>. DEFINE ring == spectrum'
  <2>2. ring \in [0..B-1 -> 0..LastToken] /\ token \in TokensRead(ring)
    BY <2>1
  <2>. HIDE DEF ring
  <2>3. token \in Int
    BY <2>1, <2>2, ReadRange
  <2> QED
    BY <2>3 DEF Values
<1>2. values \in Seq(Values) /\ words \in Seq(Seq(Values)) /\ lost \in Nat
  BY DEF MessageInv, ValuesTyped
<1>3. ValuesTyped'
  BY <1>1, <1>2 DEF ValuesTyped
<1>4. /\ decoding' # 0 /\ NumMessageTokens \in Nat /\ decoding \in Int
      /\ decoding + 2 \in 1..TokensSent
  <2>1. NumMessageTokens \in Nat
    BY Numbers DEF RingInv
  <2> QED
    BY <2>1 DEF TokensSent
<1>5. WordWaits' /\ WordRead'
  BY <1>4 DEF WordWaits, WordRead
<1>6. WordsRight'
  BY SenderStays DEF MessageInv, WordsRight
<1>7. /\ frames \in Nat /\ First \in Int /\ First + Fill = frames /\ frames' = frames + 1
      /\ B \in Nat \ {0, 1}
  BY FrameNumbers, ReadSteps, NextWindowReady DEF RingInv
<1>8. ASSUME lost = 0 PROVE MessageRead'
  <2>1. PICK m \in 1..Messages : NextToken(m) /\ Sent(values, m)
    BY <1>4, <1>8 DEF MessageInv, MessageRead
  <2>2. Len(values) = decoding + 1
    BY <1>4, <1>8 DEF MessageInv, MessageRead
  <2>. DEFINE k == decoding + 2
  <2>3. Found(First, m, k) /\ k \in 1..TokensSent /\ k \in Int
    BY <1>4, <1>7, <2>1 DEF NextToken
  <2>4. token = Token(m, k) \/ Disturbed(m, k)
    <3>1. CASE Disturbed(m, k)
      BY <3>1
    <3>2. CASE ~Disturbed(m, k)
      <4>. DEFINE ring == spectrum'
      <4>1. \A n \in 0..Fill : \A o \in 1..Messages, j \in 1..TokensSent :
                Mostly(First + n, o, j) /\ First + n \notin burst => ring[(readBlock + n) % B] = Token(o, j)
        BY TokenWritten
      <4>2. token \in TokensRead(ring)
        OBVIOUS
      <4>. HIDE DEF ring, k
      <4>3. TokensRead(ring) = {Token(m, k)}
        BY <2>3, <3>2, <4>1, TokenRight DEF RingInv
      <4> QED
        BY <4>2, <4>3
    <3> QED
      BY <3>1, <3>2
  <2>5. Sent(values, m)'
    <3>1. ASSUME NEW j \in 3..Len(values') PROVE values'[j] = Token(m, j) \/ Disturbed(m, j)
      <4>1. Len(values') = k /\ values'[k] = token
        BY <1>1, <1>2, <1>4, <2>2
      <4>2. CASE j = k
        BY <2>4, <4>1, <4>2
      <4>3. CASE j # k
        <5>1. j \in 3..Len(values) /\ values'[j] = values[j]
          BY <1>1, <1>2, <1>4, <2>2, <4>1, <4>3
        <5> QED
          BY <2>1, <5>1 DEF Sent
      <4> QED
        BY <4>2, <4>3
    <3> QED
      BY <3>1, SenderStays DEF Sent
  <2>6. NextToken(m)'
    <3>1. First' = First + (B \div 2)
      <4>. DEFINE x == First
                  y == First'
                  z == Fill'
                  h == B \div 2
      <4>1. y = frames' - z /\ z = 0 /\ x \in Int /\ x + (h - 1) = frames /\ h \in Int
        BY <1>7 DEF First
      <4>. HIDE DEF x, y, z, h
      <4>2. y = x + h
        BY <1>7, <4>1
      <4> QED
        BY <4>2 DEF x, y, h
    <3>2. ASSUME NEW f \in Int, NEW j \in Int, f = First', j = decoding' + 2 PROVE Found(f, m, j)'
      <4>1. f = First + (B \div 2) /\ j = k + 1
        BY <1>4, <3>1, <3>2
      <4>. DEFINE g == First
      <4>2. Found(g, m, k) /\ g \in Int /\ k \in Int /\ m \in Int /\ Typed
        BY <1>7, <2>3 DEF RingInv
      <4>. HIDE DEF g, k
      <4>3. Found(g + (B \div 2), m, k + 1)
        BY <4>2, FoundNext
      <4>4. Found(f, m, j)
        BY <4>1, <4>3 DEF g
      <4> QED
        BY <4>4, SenderStays
    <3> QED
      BY <3>2 DEF NextToken
  <2>7. Len(values') = decoding' + 1
    BY <1>1, <1>2, <1>4, <2>2
  <2> QED
    BY <2>5, <2>6, <2>7 DEF MessageRead
<1>9. MessageRead'
  BY <1>8 DEF MessageRead
<1> QED
  BY <1>3, <1>5, <1>6, <1>9 DEF MessageInv

\* Nothing else comes between the tokens of a message.
LEMMA MessageWaits ==
    ASSUME FramesWhole, MessageInv, UNCHANGED << sender, values, words, lost, decoding >>,
           decoding # 0 => First' = First,
           result' = "word" => result = "word",
           decoding = 0 => result' = result \/ result # "word",
           result' = "word" => pc' = "host"
    PROVE  MessageInv'
<1>1. ValuesTyped'
  BY DEF MessageInv, ValuesTyped
<1>2. WordWaits'
  BY DEF MessageInv, WordWaits
<1>3. \A m : /\ decoding # 0 /\ NextToken(m) => NextToken(m)'
             /\ Sent(values, m) => Sent(values, m)'
  BY SenderStays DEF NextToken, Sent
<1>4. MessageRead' /\ WordRead'
  BY <1>3 DEF MessageInv, MessageRead, WordRead
<1>5. WordsRight'
  BY SenderStays DEF MessageInv, WordsRight
<1> QED
  BY <1>1, <1>2, <1>4, <1>5 DEF MessageInv

\* A token that was not recognised leaves nothing to say.
LEMMA TokenDropped ==
    ASSUME MessageInv, UNCHANGED << values, words, result, decoding >>, pc = "loop",
           lost' = lost + 1
    PROVE  MessageInv'
<1>1. lost \in Nat /\ lost' \in Nat /\ lost' # 0
  BY DEF MessageInv, ValuesTyped
<1>2. ValuesTyped' /\ WordWaits'
  BY <1>1 DEF MessageInv, ValuesTyped, WordWaits
<1>3. MessageRead' /\ WordRead' /\ WordsRight'
  BY <1>1 DEF MessageRead, WordRead, WordsRight
<1> QED
  BY <1>2, <1>3 DEF MessageInv

\* The last token completes the word.
LEMMA WordCompleted ==
    ASSUME RingInv, MessageInv, UNCHANGED << sender, lost, words, values >>,
           decoding = NumMessageTokens + 1, decoding' = 0, pc' = "host", result' = "word"
    PROVE  MessageInv'
<1>1. ValuesTyped' /\ WordWaits' /\ MessageRead'
  BY DEF MessageInv, ValuesTyped, WordWaits, MessageRead
<1>2. WordsRight'
  BY SenderStays DEF MessageInv, WordsRight
<1>3. NumMessageTokens \in Nat /\ decoding # 0 /\ decoding + 1 = TokensSent
  BY Numbers DEF RingInv, TokensSent
<1>4. \A m : Sent(values, m) => Sent(values, m)'
  BY SenderStays DEF Sent
<1>5. WordRead'
  BY <1>3, <1>4 DEF MessageInv, MessageRead, WordRead
<1> QED
  BY <1>1, <1>2, <1>5 DEF MessageInv

\* The host gets the word.
LEMMA WordFetched ==
    ASSUME MessageInv, GetDecodedData
    PROVE  MessageInv'
<1>1. /\ result = "word" /\ words' = Append(words, values) /\ values' = << >> /\ result' = "none"
      /\ UNCHANGED << sender, decoding, pc, lost >>
  BY DEF GetDecodedData, HandOut
<1>2. values \in Seq(Values) /\ words \in Seq(Seq(Values)) /\ decoding = 0
  BY <1>1 DEF MessageInv, ValuesTyped, WordWaits
<1>3. << >> \in Seq(Values) /\ words' \in Seq(Seq(Values))
  BY <1>1, <1>2
<1>4. ValuesTyped' /\ WordWaits' /\ MessageRead' /\ WordRead'
  BY <1>1, <1>2, <1>3 DEF MessageInv, ValuesTyped, WordWaits, MessageRead, WordRead
<1>5. ASSUME lost = 0, NEW i \in 1..Len(words')
      PROVE  /\ Len(words'[i]) = TokensSent
             /\ \E m \in 1..Messages : \A k \in 3..TokensSent :
                   words'[i][k] = Token(m, k) \/ Disturbed(m, k)
  <2>1. CASE i = Len(words) + 1
    <3>1. words'[i] = values
      BY <1>1, <1>2, <2>1
    <3> QED
      BY <1>1, <1>5, <3>1 DEF MessageInv, WordRead, Sent
  <2>2. CASE i # Len(words) + 1
    <3>1. i \in 1..Len(words) /\ words'[i] = words[i]
      BY <1>1, <1>2, <1>5, <2>2
    <3> QED
      BY <1>5, <3>1 DEF MessageInv, WordsRight
  <2> QED
    BY <2>1, <2>2
<1>6. WordsRight'
  BY <1>1, <1>5, SenderStays DEF WordsRight
<1> QED
  BY <1>4, <1>6 DEF MessageInv

\* Every step keeps what is known of the message.
LEMMA MessageKept ==
    ASSUME RingInv, BlocksFit, Geometry, FramesWhole, SearchHeard, TokenHeard, MessageInv, [Next]_vars
    PROVE  MessageInv'
<1>1. pc = "loop" => result # "word"
  BY DEF MessageInv, WordWaits
<1>2. CASE SearchStart
  <2>1. SearchEffects
    BY <1>2, SearchDone
  <2>2. CASE decoding' = 0 /\ pc' = "loop" /\ UNCHANGED << values, result >>
    <3>1. UNCHANGED << sender, values, words, lost, decoding >> /\ decoding = 0 /\ result # "word"
      BY <1>1, <2>1, <2>2 DEF SearchEffects
    <3> QED
      BY <2>2, <3>1, MessageWaits
  <2>3. CASE /\ Fill = B - 2 /\ Fill' = 0 /\ StartFound(strongest')
             /\ decoding' = 1 /\ pc' = "host" /\ result' = "start"
             /\ values' = values \o << "start1", "start2" >>
    <3>1. UNCHANGED << sender, lost, words >> /\ decoding = 0 /\ pc = "loop"
      BY <2>1 DEF SearchEffects
    <3> QED
      BY <1>2, <2>3, <3>1, MessageBegins
  <2> QED
    BY <2>1, <2>2, <2>3 DEF SearchEffects
<1>3. CASE ReadToken
  <2>1. ReadEffects
    BY <1>3, ReadDone
  <2>2. CASE Fill' = Fill + 1 /\ pc' = "loop" /\ UNCHANGED << decoding, values, result, lost >>
    <3>1. First' = First
      <4>. DEFINE x == First
                  y == First'
      <4>1. x = frames - Fill /\ y = frames' - Fill' /\ frames' = frames + 1
        BY <1>3, ReadSteps, NextWindowReady DEF First
      <4>2. frames \in Int /\ Fill \in Int
        BY FrameNumbers DEF RingInv
      <4>. HIDE DEF x, y
      <4>3. x = y
        BY <2>2, <4>1, <4>2
      <4> QED
        BY <4>3 DEF x, y
    <3>2. UNCHANGED << sender, values, words, lost, decoding >> /\ result # "word"
      BY <1>1, <2>1, <2>2 DEF ReadEffects
    <3> QED
      BY <2>2, <3>1, <3>2, MessageWaits
  <2>3. CASE lost' = lost + 1 /\ UNCHANGED << decoding, values, result >>
    BY <2>1, <2>3, TokenDropped DEF ReadEffects
  <2>4. CASE /\ Fill = (B \div 2) - 1 /\ Fill' = 0
             /\ \E token \in TokensRead(spectrum') \ {Unknown} : values' = Append(values, token)
             /\ decoding' = decoding + 1
             /\ pc' = "host" /\ result' = "token" /\ UNCHANGED lost
    <3>1. PICK token \in TokensRead(spectrum') \ {Unknown} : values' = Append(values, token)
      BY <2>4
    <3>2. UNCHANGED << sender, lost, words >> /\ decoding \in 1..NumMessageTokens
      BY <2>1, <2>4 DEF ReadEffects
    <3> QED
      BY <1>3, <2>4, <3>1, <3>2, TokenAppended
  <2> QED
    BY <2>1, <2>2, <2>3, <2>4 DEF ReadEffects
<1>4. CASE FinishWord
  BY <1>4, FinishDone, WordCompleted
<1>5. CASE GetDecodedData
  BY <1>5, WordFetched
<1>6. CASE DecodeAudioBuffer \/ NoWindow \/ UNCHANGED vars
  <2>1. OtherSteps
    BY <1>6, OthersDone
  <2>2. First' = First
    BY <2>1 DEF OtherSteps, First, Fill
  <2>3. /\ UNCHANGED << values, words >>
        /\ \/ result' = result /\ result # "word"
           \/ result' = "none" /\ pc = "loop"
           \/ UNCHANGED << result, pc >>
    BY <1>6 DEF DecodeAudioBuffer, NoWindow, Return, vars
  <2>4. result' = "word" => result = "word" /\ pc' = "host"
    BY <2>3 DEF MessageInv, WordWaits
  <2>5. result' = result \/ result # "word"
    BY <1>1, <2>3
  <2>6. UNCHANGED << sender, values, words, lost, decoding >>
    BY <2>1, <2>3 DEF OtherSteps
  <2> QED
    BY <2>2, <2>4, <2>5, <2>6, MessageWaits
<1> QED
  BY <1>2, <1>3, <1>4, <1>5, <1>6 DEF Next

-----------------------------------------------------------------------------
(* The theorems                                                            *)

\* The inductive invariant: the frames in the ring tell of the tokens they
\* reach, and the values that were read belong to one message.
ReadingInv ==
    RingInv /\ FramesWhole /\ SearchHeard /\ TokenHeard /\ MessageInv

LEMMA ReadingInit ==
    ASSUME Init PROVE ReadingInv
<1>1. RingInv
  BY RingInit
<1>2. /\ frames = 0 /\ decoding = 0 /\ result = "none" /\ values = << >> /\ words = << >> /\ lost = 0
      /\ readBlock = 0 /\ writeBlock = 0
  BY DEF Init
<1>3. Fill = 0 /\ First = 0
  <2>1. SizeFilled(0, 0, B) = 0
    BY DEF SizeFilled
  <2>2. 0 # B - 1 /\ 0 - 0 = 0
    BY Sizes
  <2> QED
    BY <1>2, <2>1, <2>2 DEF Fill, FillOf, First
<1>4. FramesWhole /\ SearchHeard /\ TokenHeard
  <2>1. First..frames-1 = {}
    BY <1>2, <1>3
  <2> QED
    BY <1>2, <1>3, <2>1, Numbers, <1>1 DEF FramesWhole, SearchHeard, TokenHeard, RingInv
<1>5. ValuesTyped
  <2>1. << >> \in Seq(Values) /\ << >> \in Seq(Seq(Values))
    OBVIOUS
  <2> QED
    BY <1>2, <2>1 DEF ValuesTyped
<1>6. WordWaits /\ MessageRead /\ WordRead
  BY <1>2 DEF WordWaits, MessageRead, WordRead
<1>7. WordsRight
  <2>1. 1..Len(words) = {}
    BY <1>2
  <2> QED
    BY <2>1 DEF WordsRight
<1> QED
  BY <1>1, <1>4, <1>5, <1>6, <1>7 DEF ReadingInv, MessageInv

LEMMA ReadingStep ==
    ASSUME ReadingInv, BlocksFit, Geometry, [Next]_vars PROVE ReadingInv'
<1>1. RingInv'
  BY RingStep DEF ReadingInv
<1>2. FramesWhole' /\ SearchHeard' /\ TokenHeard'
  BY SearchKept DEF ReadingInv
<1>3. MessageInv'
  BY MessageKept DEF ReadingInv
<1> QED
  BY <1>1, <1>2, <1>3 DEF ReadingInv

\* The frames a token is read from have most of it.
LEMMA FramesAligned ==
    ASSUME ReadingInv, Geometry PROVE TokensAligned
<1>1. SUFFICES ASSUME decoding \in 1..NumMessageTokens, lost = 0
               PROVE  LET first == frames - SizeFilled(readBlock, writeBlock, B)
                          middle == first * Hop + Window \div 2
                      IN \E m \in 1..Messages :
                            LET tokenBegin == BeginOf(m) + (decoding + 1) * TokenSamples
                            IN /\ 2 * (tokenBegin - middle) < TokenSamples
                               /\ 2 * (middle - tokenBegin) < TokenSamples
  BY DEF TokensAligned
<1>2. /\ First \in Int /\ First = frames - SizeFilled(readBlock, writeBlock, B)
      /\ decoding \in Int /\ decoding # 0
  <2>1. Fill \in 0..B-2 /\ First \in Int /\ NumMessageTokens \in Nat
    BY FrameNumbers, Numbers DEF ReadingInv, RingInv
  <2>2. Fill = SizeFilled(readBlock, writeBlock, B)
    BY <2>1 DEF Fill, FillOf
  <2> QED
    BY <1>1, <2>1, <2>2 DEF First
<1>3. PICK m \in 1..Messages : NextToken(m)
  BY <1>1, <1>2, Numbers DEF ReadingInv, RingInv, MessageInv, MessageRead
<1>. DEFINE k == decoding + 2
            tb == TokenBegin(m, k)
            fh == First * Hop
            c == Tolerance * Hop
            middle == fh + Window \div 2
<1>4. k \in Int /\ Found(First, m, k)
  BY <1>2, <1>3 DEF NextToken
<1>5. fh - tb < c /\ fh - tb > (0 - Window) - (c + Hop)
  <2>1. (Tolerance + 1) * Hop = c + Hop
    BY Halves, Sizes
  <2> QED
    BY <1>4, <2>1 DEF Found
<1>6. /\ tb \in Int /\ fh \in Int /\ c \in Nat /\ TokenSamples \in Nat
      /\ Window + (2 * c) + (4 * Hop) <= TokenSamples
  <2>1. m \in Int /\ Typed
    BY DEF ReadingInv, RingInv
  <2> QED
    BY <1>2, <1>4, <2>1, Halves, Numbers, SenderNumbers
<1>7. tb = BeginOf(m) + (decoding + 1) * TokenSamples
  <2>1. k - 1 = decoding + 1
    BY <1>2
  <2> QED
    BY <2>1 DEF TokenBegin
<1>8. 2 * (tb - middle) < TokenSamples /\ 2 * (middle - tb) < TokenSamples
  <2>1. Window \in Nat /\ Hop \in Nat \ {0}
    BY Sizes
  <2>. HIDE DEF tb, fh, c
  <2> QED
    BY <1>5, <1>6, <2>1
<1> QED
  BY <1>2, <1>7, <1>8

\* Each token is read from frames that are less than half a token away from its
\* place in a message that was sent: however the calls of DecodeAudioBuffer()
\* cut up the sound, wherever in it the start tokens were found within
\* mnToleranceFrames, and although noise may drown any frames.
THEOREM TokensStayAligned == BlocksFit /\ Geometry => (Spec => []TokensAligned)
<1>. SUFFICES ASSUME BlocksFit, Geometry PROVE Spec => []TokensAligned
  OBVIOUS
<1>1. Init => ReadingInv
  BY ReadingInit
<1>2. ReadingInv /\ [Next]_vars => ReadingInv'
  BY ReadingStep
<1>3. ReadingInv => TokensAligned
  BY FramesAligned
<1> QED
  BY <1>1, <1>2, <1>3, PTL DEF Spec

\* A word that GetDecodedData() hands out has all tokens of one message that was
\* sent, each in its place, and a wrong one only where noise reached the token,
\* unless a token was not recognised at all (lost).
THEOREM WordsAreRight == BlocksFit /\ Geometry => (Spec => []WordsRight)
<1>. SUFFICES ASSUME BlocksFit, Geometry PROVE Spec => []WordsRight
  OBVIOUS
<1>1. Init => ReadingInv
  BY ReadingInit
<1>2. ReadingInv /\ [Next]_vars => ReadingInv'
  BY ReadingStep
<1>3. ReadingInv => WordsRight
  BY DEF ReadingInv, MessageInv
<1> QED
  BY <1>1, <1>2, <1>3, PTL DEF Spec
=============================================================================
