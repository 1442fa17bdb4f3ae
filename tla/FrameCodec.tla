----------------------------- MODULE FrameCodec -----------------------------
(***************************************************************************)
(* The header of a WebSocket frame, as both ends write and read it: send() *)
(* of src/ws-app/server_ws.hpp 210-238 and of client_ws.hpp 198-240,       *)
(* read_message() of server_ws.hpp 613-703 and of client_ws.hpp 506-596.   *)
(* A length is written into the second byte when it is below 126, and else *)
(* into two or eight bytes that follow, most significant byte first.       *)
(***************************************************************************)
EXTENDS Integers, Sequences

Byte == 0..255

\* length >> 8
High(n) == n \div 256

\* length % 256
Low(n) == n % 256

\* The two bytes of a length or of the status of a close frame.
TwoBytes(n) == << Low(High(n)), Low(n) >>

\* The eight bytes of a length: (length >> (8 * c)) % 256, from c = 7 down.
EightBytes(n) ==
    LET n1 == High(n)
        n2 == High(n1)
        n3 == High(n2)
        n4 == High(n3)
        n5 == High(n4)
        n6 == High(n5)
        n7 == High(n6)
    IN  << Low(n7), Low(n6), Low(n5), Low(n4), Low(n3), Low(n2), Low(n1), Low(n) >>

\* The eight bytes have room for n, as they have for every std::size_t.
Fits(n) == High(High(High(High(High(High(High(n))))))) \in Byte

\* The flag in the second byte.  The server masks nothing, the client always.
MaskFlag == [server |-> 0, client |-> 128]

\* num_bytes: how many bytes the extended length of a frame takes.
NumBytes(length) ==
    IF length < 126 THEN 0
    ELSE IF length <= 65535 THEN 2
    ELSE 8

\* The extended length itself.
Extension(length) ==
    CASE NumBytes(length) = 0 -> << >>
      [] NumBytes(length) = 2 -> TwoBytes(length)
      [] OTHER -> EightBytes(length)

\* What the second byte says of the length.
LengthCode(length) ==
    CASE NumBytes(length) = 0 -> length
      [] NumBytes(length) = 2 -> 126
      [] OTHER -> 127

\* The header that `sender' writes before the mask and the payload.
Header(sender, opcode, length) ==
    << opcode, MaskFlag[sender] + LengthCode(length) >> \o Extension(length)

-----------------------------------------------------------------------------
\* The reader's side: first_bytes[1] >= 128
IsMasked(secondByte) == secondByte >= 128

\* first_bytes[1] & 127
CodeOf(secondByte) == secondByte % 128

\* How many bytes of length follow the first two bytes.
ExtensionSize(code) ==
    CASE code = 126 -> 2
      [] code = 127 -> 8
      [] OTHER -> 0

\* The sum over length_bytes[c] << (8 * (num_bytes - 1 - c)).
FromTwo(b) == 256 * b[1] + b[2]
FromEight(b) ==
    256 * (256 * (256 * (256 * (256 * (256 * (256 * b[1] + b[2]) + b[3]) + b[4])
        + b[5]) + b[6]) + b[7]) + b[8]

\* The length a reader finds in a header.
ReadLength(header) ==
    LET code == CodeOf(header[2])
        rest == SubSeq(header, 3, Len(header))
    IN  CASE code = 126 -> FromTwo(rest)
          [] code = 127 -> FromEight(rest)
          [] OTHER -> code
=============================================================================
