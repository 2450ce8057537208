------------------------------ MODULE OscCodec ------------------------------
(***************************************************************************)
(* The OSC 1.0 wire codec, osc/message.go.                                 *)
(*                                                                         *)
(* A packet is a sequence of bytes.  A message is a record of its address  *)
(* and its arguments, a Go value being the pair of its type and what is    *)
(* in it: a number for the integers, the four bytes of its bit pattern for *)
(* a float (a float64 as the float32 next to it), the bytes of a string or *)
(* blob.  An int or int64 that needs more than 32 bits has the type        *)
(* "wide".                                                                 *)
(*                                                                         *)
(* A Go slice expression beyond the end of its slice panics.  Here such a  *)
(* slice is Beyond, which is no sequence of bytes, and whoever goes on     *)
(* with it has panicked.                                                   *)
(***************************************************************************)
EXTENDS Integers, SequencesExt

Byte == 0..255

Slash == 47
Comma == 44
BundleHeader == <<35, 98, 117, 110, 100, 108, 101, 0>>  \* "#bundle\0"

Beyond == <<-1>>
Slice == Seq(Byte) \union {Beyond}

\* The slices b[n:] and b[:n].
From(b, n) == IF n <= Len(b) THEN SubSeq(b, n + 1, Len(b)) ELSE Beyond
Upto(b, n) == IF n <= Len(b) THEN SubSeq(b, 1, n) ELSE Beyond

AtMost(n, limit) == IF n > limit THEN limit ELSE n

pad4(n) == ((n + 3) \div 4) * 4

-----------------------------------------------------------------------------
(* Encoding.  A definition whose comment begins with "Variant:" is the next *)
(* definition with a bug in it; nothing uses it, it is there to show that a *)
(* property would notice.                                                   *)

Zeros(n) == [k \in 1..n |-> 0]

\* Variant: no room is kept for the null of a string that fills its words.
encodeStringTight(s) == s \o Zeros(pad4(Len(s)) - Len(s))

encodeString(s) == s \o Zeros(pad4(Len(s) + 1) - Len(s))

\* Four bytes, big endian, two's complement.
appendInt32(v) ==
  LET low  == IF v < 0 THEN (v + 2147483647) + 1 ELSE v
      sign == IF v < 0 THEN 128 ELSE 0
  IN  <<sign + low \div 16777216, (low \div 65536) % 256,
        (low \div 256) % 256, low % 256>>

appendBlob(blob) ==
  appendInt32(Len(blob)) \o blob \o Zeros(pad4(Len(blob)) - Len(blob))

Integer == {"int32", "int", "int64"}
Float == {"float32", "float64"}

\* The type switch of encodeMessage: any other type, and an integer that does
\* not fit into 32 bits, is refused.
Supported == Integer \union Float \union {"string", "blob", "bool", "nil"}

Encodable(m) == /\ m.addr # <<>> /\ m.addr[1] = Slash
                /\ \A k \in DOMAIN m.args : m.args[k][1] \in Supported

TagOf(a) == CASE a[1] \in Integer -> 105                     \* 'i'
              [] a[1] \in Float -> 102                       \* 'f'
              [] a[1] = "string" -> 115                      \* 's'
              [] a[1] = "blob" -> 98                         \* 'b'
              [] a[1] = "bool" -> IF a[2] THEN 84 ELSE 70    \* 'T', 'F'
              [] OTHER -> 78                                 \* 'N'

BodyOf(a) == CASE a[1] \in Integer -> appendInt32(a[2])
               [] a[1] \in Float -> a[2]
               [] a[1] = "string" -> encodeString(a[2])
               [] a[1] = "blob" -> appendBlob(a[2])
               [] OTHER -> <<>>

\* The packet of a message that is encodable.
encodeMessage(m) ==
  encodeString(m.addr)
    \o encodeString(<<Comma>> \o [k \in DOMAIN m.args |-> TagOf(m.args[k])])
    \o FlattenSeq([k \in DOMAIN m.args |-> BodyOf(m.args[k])])

-----------------------------------------------------------------------------
(* Decoding the parts of a message. *)

Unreadable == [ok |-> FALSE, val |-> <<>>, rest |-> <<>>]
Reads(v, r) == [ok |-> TRUE, val |-> v, rest |-> r]

\* Variant: a string may end with the packet.
readStringToEnd(b) ==
  LET nulls == {k \in DOMAIN b : b[k] = 0}
      null  == CHOOSE k \in nulls : \A j \in nulls : k <= j
  IN  IF nulls = {} THEN Reads(b, <<>>)
      ELSE Reads(Upto(b, null - 1), From(b, AtMost(pad4(null), Len(b))))

\* The string up to the first null, and the bytes after its padding or as much
\* of the padding as there is.
readString(b) ==
  LET nulls == {k \in DOMAIN b : b[k] = 0}
      null  == CHOOSE k \in nulls : \A j \in nulls : k <= j
  IN  IF nulls = {} THEN Unreadable
      ELSE Reads(Upto(b, null - 1), From(b, AtMost(pad4(null), Len(b))))

\* int32(binary.BigEndian.Uint32(b)).
AsInt32(b) == (IF b[1] >= 128 THEN b[1] - 256 ELSE b[1]) * 16777216
                + b[2] * 65536 + b[3] * 256 + b[4]

\* The guard of a size at the head of b, size < 0 || size > len(rest).  A size
\* of 2^31 or more is refused by the first half where an int has 32 bits, and
\* by the second where it has 64.
Misfit(b) == b[1] >= 128 \/ AsInt32(b) > Len(b) - 4

\* Variant: the blob is skipped with all of its padding.
readBlobPadded(b) ==
  LET n    == AsInt32(b)
      data == From(b, 4)
  IN  IF Len(b) < 4 \/ Misfit(b) THEN Unreadable
      ELSE Reads(Upto(data, n), From(data, pad4(n)))

\* A size, so many bytes, and as much of their padding as there is.
readBlob(b) ==
  LET n    == AsInt32(b)
      data == From(b, 4)
  IN  IF Len(b) < 4 \/ Misfit(b) THEN Unreadable
      ELSE Reads(Upto(data, n), From(data, AtMost(pad4(n), Len(data))))

readInt32(b) == IF Len(b) < 4 THEN Unreadable ELSE Reads(AsInt32(b), From(b, 4))
readFloat32(b) == IF Len(b) < 4 THEN Unreadable ELSE Reads(Upto(b, 4), From(b, 4))

PlusInf == <<127, 128, 0, 0>>

\* One turn of the loop over the type tags.  An unknown tag ends the loop, and
\* the arguments read so far are kept.
Argument(m, tag) ==
  LET Takes(type, r) ==
        IF ~r.ok THEN [m EXCEPT !.st = "error"]
        ELSE [st   |-> IF \/ r.rest = Beyond
                          \/ type \in {"string", "blob"} /\ r.val = Beyond
                       THEN "panic" ELSE "ok",
              args |-> Append(m.args, <<type, r.val>>),
              rest |-> r.rest]
  IN  IF m.st # "ok" THEN m
      ELSE CASE tag = 105 -> Takes("int32", readInt32(m.rest))
             [] tag = 102 -> Takes("float32", readFloat32(m.rest))
             [] tag = 115 -> Takes("string", readString(m.rest))
             [] tag = 98 -> Takes("blob", readBlob(m.rest))
             [] tag = 84 -> Takes("bool", Reads(TRUE, m.rest))
             [] tag = 70 -> Takes("bool", Reads(FALSE, m.rest))
             [] tag = 78 -> Takes("nil", Reads(<<>>, m.rest))
             [] tag = 73 -> Takes("float32", Reads(PlusInf, m.rest))  \* 'I'
             [] OTHER -> [m EXCEPT !.st = "done"]

-----------------------------------------------------------------------------
(* Decoding a packet: its messages, an error, or a panic. *)

Failed == [st |-> "error", msgs |-> <<>>]
Panicked == [st |-> "panic", msgs |-> <<>>]
Decoded(ms) == [st |-> "ok", msgs |-> ms]

decodeMessage(b) ==
  LET a == readString(b)
      t == readString(a.rest)
      m == FoldLeft(Argument, [st |-> "ok", args |-> <<>>, rest |-> t.rest],
                    Tail(t.val))
  IN  IF ~a.ok THEN Failed
      ELSE IF a.rest = <<>> THEN Decoded(<<[addr |-> a.val, args |-> <<>>]>>)
      ELSE IF ~t.ok \/ t.val = <<>> \/ t.val[1] # Comma THEN Failed
      ELSE IF m.st = "error" THEN Failed
      ELSE IF m.st = "panic" THEN Panicked
      ELSE Decoded(<<[addr |-> a.val, args |-> m.args]>>)

\* The elements of a bundle, up to the first whose size does not fit.  Less
\* than four bytes at the end are ignored.
Elements[b \in Slice] ==
  IF b = Beyond THEN [st |-> "panic", elems |-> <<>>]
  ELSE IF Len(b) < 4 THEN [st |-> "ok", elems |-> <<>>]
  ELSE IF Misfit(b) THEN [st |-> "error", elems |-> <<>>]
  ELSE LET size == AsInt32(b)
       IN  [Elements[From(b, 4 + size)] EXCEPT
              !.elems = <<Upto(From(b, 4), size)>> \o @]

\* A message, or a bundle of packets, of which one that does not decode spoils
\* the whole.
decodePacket[b \in Slice] ==
  LET bundle == Elements[From(b, 16)]
      parts  == [k \in DOMAIN bundle.elems |-> decodePacket[bundle.elems[k]]]
      states == {bundle.st} \union {parts[k].st : k \in DOMAIN parts}
  IN  IF Len(b) < 8 \/ Upto(b, 8) # BundleHeader THEN decodeMessage(b)
      ELSE IF Len(b) < 16 THEN Failed
      ELSE IF "panic" \in states THEN Panicked
      ELSE IF "error" \in states THEN Failed
      ELSE Decoded(FlattenSeq([k \in DOMAIN parts |-> parts[k].msgs]))

=============================================================================
