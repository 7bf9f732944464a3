------------------------------ MODULE NioCodec ------------------------------
(***************************************************************************)
(* The default codec of package nio (src/nio/codec.go): the wire framing   *)
(* [4-byte big-endian length][1-byte flag][payload], the optional gzip of  *)
(* the payload, and the resumable Decode that the read loop calls on its   *)
(* growing buffer.  Bytes are naturals in 0..255; a Go nil slice is the    *)
(* model value Nil, an empty non-nil slice is <<>>.                        *)
(***************************************************************************)
EXTENDS Naturals, Sequences, SequencesExt

CONSTANTS
    Nil,    \* a nil []byte / nil interface{} body
    Gzip    \* defaultCodec.gzip

ASSUME Gzip \in BOOLEAN

\* Bytes dropped from the front of a buffer, as bytes.Buffer.Read does.
Drop(s, n) == SubSeq(s, n + 1, Len(s))

\* binary.Write / binary.Read of a uint32 in big-endian order.
BigEndian4(n) == << (n \div 16777216) % 256, (n \div 65536) % 256,
                    (n \div 256) % 256, n % 256 >>
FromBigEndian4(b) == ((b[1] * 256 + b[2]) * 256 + b[3]) * 256 + b[4]

(***************************************************************************)
(* tools.Gzip / tools.Gunzip (src/tools/gzip.go).  An empty input is       *)
(* passed through as an empty slice; otherwise the gzip container is       *)
(* abstracted to its two magic bytes in front of a stored block.  Gunzip   *)
(* of bytes without the magic fails, and the caller keeps the nil result. *)
(***************************************************************************)
GzMagic == <<31, 139>>
GzipBytes(d) == IF d = Nil \/ d = <<>> THEN <<>> ELSE GzMagic \o d
GunzipBytes(d) ==
    CASE d = Nil \/ d = <<>>  -> <<>>
      [] IsPrefix(GzMagic, d) -> Drop(d, 2)
      [] OTHER                -> Nil

\* The payload bytes Encode puts on the wire for a body (tools.ToByte, then
\* the optional gzip); Nil when the body is nil.
BodyBytes(body) ==
    IF body = Nil THEN Nil
    ELSE IF Gzip THEN GzipBytes(body) ELSE body

\* defaultCodec.Encode: the bytes one Write puts on the connection.
Encode(flag, body) ==
    LET bb     == BodyBytes(body)
        length == IF body = Nil THEN 1 ELSE Len(bb) + 1
    IN  BigEndian4(length) \o <<flag>>
          \o (IF bb # Nil /\ Len(bb) > 0 THEN bb ELSE <<>>)

\* A fresh scratch message, &Msg{}.
EmptyMsg == [flag |-> 0, length |-> 0, data |-> Nil]

\* The header needs 5 buffered bytes.
HeaderReady(rd) == Len(rd) >= 5

\* binary.Read of the 4-byte length and the 1-byte flag into the message.
ParseHeader(msg, rd) ==
    [msg EXCEPT !.length = FromBigEndian4(SubSeq(rd, 1, 4)), !.flag = rd[5]]

\* A mutation: the flag byte is read but left in the buffer.
AfterHeaderKeepsFlag(rd) == Drop(rd, 4)

\* The buffer after the header has been read.
AfterHeader(rd) == Drop(rd, 5)

\* A mutation: the body waits for one byte more than it needs.
BodyReadyStrict(m, rd) == Len(rd) > m.length - 1

\* The body needs length-1 buffered bytes.
BodyReady(m, rd) == Len(rd) >= m.length - 1

(***************************************************************************)
(* defaultCodec.Decode(msg, reader): one call, returning whether the       *)
(* message is complete, the updated scratch message and the remaining      *)
(* buffer.  The header is consumed only when 5 bytes are there, the body   *)
(* only when all length-1 bytes are there; a call that stops early leaves  *)
(* the unread bytes in the buffer.  The gunzip after the body step runs    *)
(* on every call that gets past the body step.                             *)
(***************************************************************************)
Decode(msg, rd) ==
    IF msg.length = 0 /\ ~HeaderReady(rd)
    THEN [ok |-> FALSE, msg |-> msg, rd |-> rd]
    ELSE
      LET m1 == IF msg.length = 0 THEN ParseHeader(msg, rd) ELSE msg
          r1 == IF msg.length = 0 THEN AfterHeader(rd) ELSE rd
          needBody == m1.length > 1 /\ m1.data = Nil
      IN
      CASE m1.length = 1 ->
             [ok |-> TRUE, msg |-> m1, rd |-> r1]
        [] needBody /\ ~BodyReady(m1, r1) ->
             [ok |-> FALSE, msg |-> m1, rd |-> r1]
        [] OTHER ->
             LET m2 == IF needBody
                       THEN [m1 EXCEPT !.data = SubSeq(r1, 1, m1.length - 1)]
                       ELSE m1
                 r2 == IF needBody THEN Drop(r1, m1.length - 1) ELSE r1
             IN  [ok  |-> TRUE,
                  msg |-> IF Gzip THEN [m2 EXCEPT !.data = GunzipBytes(m2.data)]
                          ELSE m2,
                  rd  |-> r2]

-----------------------------------------------------------------------------
(* Reference definitions the resumable decoder is checked against.         *)

\* What the receiver's callback must see for a message {flag, body}: the
\* flag, the encoded length, and the body bytes (nil for an empty body).
Expected(m) ==
    LET bb == BodyBytes(m.body)
    IN  [flag   |-> m.flag,
         length |-> IF m.body = Nil THEN 1 ELSE Len(bb) + 1,
         data   |-> IF m.body = Nil \/ m.body = <<>> THEN Nil ELSE m.body]

\* The whole byte stream written for a sequence of messages.
RECURSIVE EncodeAll(_)
EncodeAll(ms) ==
    IF ms = <<>> THEN <<>>
    ELSE Encode(Head(ms).flag, Head(ms).body) \o EncodeAll(Tail(ms))

\* How many of the messages ms are entirely inside the first n bytes.
CompleteFrames(ms, n) ==
    LET fits(k) == Len(EncodeAll(SubSeq(ms, 1, k))) <= n
    IN  CHOOSE k \in 0..Len(ms) : fits(k) /\ (k = Len(ms) \/ ~fits(k + 1))
=============================================================================
