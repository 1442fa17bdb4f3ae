--------------------------- MODULE FrameCodecProofs ---------------------------
(***************************************************************************)
(* Whatever the length of a frame is, the other end reads the length that  *)
(* was written, and knows from the second byte whether it is masked.       *)
(***************************************************************************)
EXTENDS FrameCodec, SequenceTheorems, TLAPS

\* A length is what its bytes say: the last one, and what is above it.
LEMMA Bytes ==
    ASSUME NEW n \in Nat
    PROVE  /\ High(n) \in Nat
           /\ Low(n) \in Byte
           /\ n = 256 * High(n) + Low(n)
  BY DEF High, Low, Byte

\* The two bytes of a length that fits in them are read back (the 16 bit
\* lengths, and the status of a close frame).
LEMMA TwoBytesReadBack ==
    ASSUME NEW n \in Nat, n <= 65535
    PROVE  FromTwo(TwoBytes(n)) = n
  <1>1. n = 256 * High(n) + Low(n) /\ High(n) \in Nat /\ Low(n) \in Byte
    BY Bytes
  <1>2. High(n) \in Byte
    BY <1>1 DEF Byte
  <1>3. Low(High(n)) = High(n)
    BY <1>2 DEF Low, Byte
  <1>4. FromTwo(TwoBytes(n)) = 256 * Low(High(n)) + Low(n)
    BY DEF FromTwo, TwoBytes
  <1> QED
    BY <1>1, <1>3, <1>4

\* So are the eight bytes of any length of 64 bits.
LEMMA EightBytesReadBack ==
    ASSUME NEW n \in Nat, Fits(n)
    PROVE  FromEight(EightBytes(n)) = n
  <1>1. PICK n1 \in Nat : n1 = High(n) /\ n = 256 * n1 + Low(n)
    BY Bytes
  <1>2. PICK n2 \in Nat : n2 = High(n1) /\ n1 = 256 * n2 + Low(n1)
    BY Bytes
  <1>3. PICK n3 \in Nat : n3 = High(n2) /\ n2 = 256 * n3 + Low(n2)
    BY Bytes
  <1>4. PICK n4 \in Nat : n4 = High(n3) /\ n3 = 256 * n4 + Low(n3)
    BY Bytes
  <1>5. PICK n5 \in Nat : n5 = High(n4) /\ n4 = 256 * n5 + Low(n4)
    BY Bytes
  <1>6. PICK n6 \in Nat : n6 = High(n5) /\ n5 = 256 * n6 + Low(n5)
    BY Bytes
  <1>7. PICK n7 \in Nat : n7 = High(n6) /\ n6 = 256 * n7 + Low(n6)
    BY Bytes
  <1>8. n7 \in Byte
    BY <1>1, <1>2, <1>3, <1>4, <1>5, <1>6, <1>7 DEF Fits
  <1>9. Low(n7) = n7
    BY <1>8 DEF Low, Byte
  <1>10. EightBytes(n) = << Low(n7), Low(n6), Low(n5), Low(n4), Low(n3), Low(n2), Low(n1), Low(n) >>
    BY <1>1, <1>2, <1>3, <1>4, <1>5, <1>6, <1>7, ZenonT(60) DEF EightBytes
  <1>11. FromEight(EightBytes(n)) =
            256 * (256 * (256 * (256 * (256 * (256 * (256 * Low(n7) + Low(n6)) + Low(n5))
                + Low(n4)) + Low(n3)) + Low(n2)) + Low(n1)) + Low(n)
    BY <1>10 DEF FromEight
  <1> QED
    BY <1>1, <1>2, <1>3, <1>4, <1>5, <1>6, <1>7, <1>9, <1>11

\* Each of the bytes is a number, so that they are a sequence of numbers.
LEMMA BytesAreNumbers ==
    ASSUME NEW n \in Nat
    PROVE  /\ High(n) \in Nat
           /\ Low(n) \in Int
           /\ TwoBytes(n) \in Seq(Int)
           /\ EightBytes(n) \in Seq(Int)
  <1>1. ASSUME NEW m \in Nat
        PROVE  High(m) \in Nat /\ Low(m) \in Int
    <2>1. High(m) \in Nat /\ Low(m) \in Byte
      BY Bytes
    <2> QED
      BY <2>1 DEF Byte
  <1>2. PICK n1 \in Nat : n1 = High(n)
    BY <1>1
  <1>3. PICK n2 \in Nat : n2 = High(n1)
    BY <1>1
  <1>4. PICK n3 \in Nat : n3 = High(n2)
    BY <1>1
  <1>5. PICK n4 \in Nat : n4 = High(n3)
    BY <1>1
  <1>6. PICK n5 \in Nat : n5 = High(n4)
    BY <1>1
  <1>7. PICK n6 \in Nat : n6 = High(n5)
    BY <1>1
  <1>8. PICK n7 \in Nat : n7 = High(n6)
    BY <1>1
  <1>9. EightBytes(n) = << Low(n7), Low(n6), Low(n5), Low(n4), Low(n3), Low(n2), Low(n1), Low(n) >>
    BY <1>2, <1>3, <1>4, <1>5, <1>6, <1>7, <1>8, ZenonT(60) DEF EightBytes
  <1>10. EightBytes(n) \in Seq(Int)
    BY <1>1, <1>9
  <1>11. TwoBytes(n) \in Seq(Int)
    BY <1>1, <1>2 DEF TwoBytes
  <1> QED
    BY <1>1, <1>10, <1>11

\* The second byte keeps the mask flag and the code of the length apart.
LEMMA SecondByte ==
    ASSUME NEW sender \in {"server", "client"}, NEW code \in 0..127
    PROVE  /\ CodeOf(MaskFlag[sender] + code) = code
           /\ IsMasked(MaskFlag[sender] + code) <=> sender = "client"
  BY DEF CodeOf, IsMasked, MaskFlag

\* What the header is, for each of the three widths of a length.
LEMMA Widths ==
    ASSUME NEW length \in Nat
    PROVE  /\ length < 126 => LengthCode(length) = length /\ Extension(length) = << >>
           /\ length >= 126 /\ length <= 65535 =>
                LengthCode(length) = 126 /\ Extension(length) = TwoBytes(length)
           /\ length > 65535 =>
                LengthCode(length) = 127 /\ Extension(length) = EightBytes(length)
  <1>1. ASSUME length < 126
        PROVE  LengthCode(length) = length /\ Extension(length) = << >>
    <2>1. NumBytes(length) = 0 /\ NumBytes(length) # 2
      BY <1>1 DEF NumBytes
    <2> QED
      BY <2>1, Zenon DEF LengthCode, Extension
  <1>2. ASSUME length >= 126, length <= 65535
        PROVE  LengthCode(length) = 126 /\ Extension(length) = TwoBytes(length)
    <2>1. NumBytes(length) = 2 /\ NumBytes(length) # 0
      BY <1>2 DEF NumBytes
    <2> QED
      BY <2>1, Zenon DEF LengthCode, Extension
  <1>3. ASSUME length > 65535
        PROVE  LengthCode(length) = 127 /\ Extension(length) = EightBytes(length)
    <2>1. NumBytes(length) # 2 /\ NumBytes(length) # 0
      BY <1>3 DEF NumBytes
    <2> QED
      BY <2>1, Zenon DEF LengthCode, Extension
  <1> QED
    BY <1>1, <1>2, <1>3

\* The two bytes in front, of whatever follows them, and what follows.
LEMMA Front ==
    ASSUME NEW first \in Int, NEW second \in Int, NEW rest \in Seq(Int),
           NEW header, header = << first, second >> \o rest
    PROVE  /\ header[2] = second
           /\ Len(header) = 2 + Len(rest)
           /\ SubSeq(header, 3, Len(header)) = rest
  <1>1. << first, second >> \in Seq(Int)
    OBVIOUS
  <1>2. /\ header \in Seq(Int)
        /\ Len(header) = 2 + Len(rest)
        /\ header[2] = second
        /\ \A i \in 1..Len(rest) : header[i + 2] = rest[i]
    BY <1>1
  <1>3. SubSeq(header, 3, Len(header)) = rest
    <2>1. SubSeq(header, 3, Len(header)) \in Seq(Int)
      BY <1>2
    <2>2. Len(SubSeq(header, 3, Len(header))) = Len(rest)
      BY <1>2
    <2>3. \A i \in 1..Len(rest) : SubSeq(header, 3, Len(header))[i] = rest[i]
      BY <1>2
    <2> QED
      BY <2>1, <2>2, <2>3, SeqEqual
  <1> QED
    BY <1>2, <1>3

\* The code and the bytes which a reader takes for this length.
StandFor(code, rest, length) ==
    \/ code < 126 /\ code = length /\ Len(rest) = 0
    \/ code = 126 /\ FromTwo(rest) = length /\ Len(rest) = 2
    \/ code = 127 /\ FromEight(rest) = length /\ Len(rest) = 8

\* What is written: a code, and bytes behind it which stand for the length.
LEMMA Written ==
    ASSUME NEW length \in Nat, Fits(length)
    PROVE  /\ LengthCode(length) \in 0..127
           /\ Extension(length) \in Seq(Int)
           /\ StandFor(LengthCode(length), Extension(length), length)
  <1>1. CASE length < 126
    <2>1. LengthCode(length) = length /\ Extension(length) = << >>
      BY <1>1, Widths
    <2>2. length \in 0..127 /\ << >> \in Seq(Int) /\ Len(<< >>) = 0
      BY <1>1
    <2> QED
      BY <1>1, <2>1, <2>2, Zenon DEF StandFor
  <1>2. CASE length >= 126 /\ length <= 65535
    <2>1. LengthCode(length) = 126 /\ Extension(length) = TwoBytes(length)
      BY <1>2, Widths
    <2>2. TwoBytes(length) \in Seq(Int) /\ 126 \in 0..127
      BY BytesAreNumbers
    <2>3. Len(TwoBytes(length)) = 2
      BY DEF TwoBytes
    <2>4. FromTwo(TwoBytes(length)) = length
      BY <1>2, TwoBytesReadBack
    <2> QED
      BY <2>1, <2>2, <2>3, <2>4, Zenon DEF StandFor
  <1>3. CASE length > 65535
    <2>1. LengthCode(length) = 127 /\ Extension(length) = EightBytes(length)
      BY <1>3, Widths
    <2>2. EightBytes(length) \in Seq(Int) /\ 127 \in 0..127
      BY BytesAreNumbers
    <2>3. Len(EightBytes(length)) = 8
      BY DEF EightBytes
    <2>4. FromEight(EightBytes(length)) = length
      BY EightBytesReadBack
    <2> QED
      BY <2>1, <2>2, <2>3, <2>4, Zenon DEF StandFor
  <1>4. length < 126 \/ (length >= 126 /\ length <= 65535) \/ length > 65535
    OBVIOUS
  <1> QED
    BY <1>1, <1>2, <1>3, <1>4

\* A reader finds in a header of send() the length that was written, whichever
\* end has written it and whichever of the three widths the length has; it
\* takes the frame for masked exactly if the client has sent it, and looks for
\* the mask or the payload right behind the header.
THEOREM HeaderReadBack ==
    ASSUME NEW sender \in {"server", "client"}, NEW opcode \in Byte,
           NEW length \in Nat, Fits(length),
           NEW header, header = Header(sender, opcode, length)
    PROVE  /\ ReadLength(header) = length
           /\ IsMasked(header[2]) <=> sender = "client"
           /\ Len(header) = 2 + ExtensionSize(CodeOf(header[2]))
  <1>1. PICK code \in 0..127, rest \in Seq(Int) :
          /\ code = LengthCode(length) /\ rest = Extension(length)
          /\ StandFor(code, rest, length)
    BY Written, Zenon
  <1>2. PICK second \in Int : second = MaskFlag[sender] + code
    BY DEF MaskFlag
  <1>3. CodeOf(second) = code /\ (IsMasked(second) <=> sender = "client")
    BY <1>2, SecondByte
  <1>4. header = << opcode, second >> \o rest
    BY <1>1, <1>2, Zenon DEF Header
  <1>5. opcode \in Int
    BY DEF Byte
  <1>6. /\ header[2] = second
        /\ Len(header) = 2 + Len(rest)
        /\ SubSeq(header, 3, Len(header)) = rest
    BY <1>4, <1>5, Front
  <1>7. CodeOf(header[2]) = code
    BY <1>3, <1>6, Zenon
  <1>8. ReadLength(header) = length /\ ExtensionSize(code) = Len(rest)
    <2>1. CASE code < 126 /\ code = length /\ Len(rest) = 0
      <3>1. code # 126 /\ code # 127
        BY <2>1
      <3> QED
        BY <1>6, <1>7, <2>1, <3>1, ZenonT(60) DEF ReadLength, ExtensionSize
    <2>2. CASE code = 126 /\ FromTwo(rest) = length /\ Len(rest) = 2
      <3>1. code # 127
        BY <2>2
      <3> QED
        BY <1>6, <1>7, <2>2, <3>1, ZenonT(60) DEF ReadLength, ExtensionSize
    <2>3. CASE code = 127 /\ FromEight(rest) = length /\ Len(rest) = 8
      <3>1. code # 126
        BY <2>3
      <3> QED
        BY <1>6, <1>7, <2>3, <3>1, ZenonT(60) DEF ReadLength, ExtensionSize
    <2> QED
      BY <1>1, <2>1, <2>2, <2>3, Zenon DEF StandFor
  <1> QED
    BY <1>3, <1>6, <1>7, <1>8, Zenon
===============================================================================
