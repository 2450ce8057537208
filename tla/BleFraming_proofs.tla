-------------------------- MODULE BleFraming_proofs --------------------------
(***************************************************************************)
(* Proofs about BleFraming, for every MTU, every set of messages and every *)
(* packet that may ever arrive.                                            *)
(*                                                                         *)
(* IInv adds to the invariants the shape of a SysEx that is open: F0 and   *)
(* then nothing but data.  Line, further below, is the inductive invariant *)
(* of the round trip, Resync, after it, that of the resynchronisation.     *)
(***************************************************************************)
EXTENDS BleFraming, SequenceTheorems, TLAPS

Packet == [from : {"frame", "device", "noise"}, bytes : Seq(Byte)]

OpenSysex == /\ dec = "sysex" => inSysex
             /\ inSysex => /\ Len(sysex) >= 1 /\ sysex[1] = SOX
                           /\ \A k \in 2..Len(sysex) : ~High(sysex[k])

\* Only an MTU with room for a data byte is chunked for.
ChunkingRoom == enc = "chunking" => Mtu >= 4

IInv == TypeOK /\ PacketsFit /\ MessagesDelimited /\ OpenSysex /\ ChunkingRoom

-----------------------------------------------------------------------------
(* Messages and what becomes of them. *)

\* A status has at most two data bytes.
LEMMA DataLenBound == \A status \in Byte : dataLen(status) \in 0..2
  BY DEF dataLen, Byte

\* The range of a byte with its high bit and of one without.
LEMMA LowByte == \A w \in 0..255 : IF w >= 128 THEN w \in 128..255 ELSE w \in 0..127
  OBVIOUS

\* What the assumption says of one message.
LEMMA MessageBytes ==
  ASSUME NEW m \in Messages
  PROVE  /\ m \in Seq(Byte) /\ Len(m) \in Nat /\ Len(m) >= 1
         /\ m[1] \in 128..255
         /\ \A k \in 1..Len(m) : m[k] \in 0..255
<1>1. m \in Seq(Byte) /\ m # <<>>
  BY FramingAssumption
<1>2. Len(m) \in Nat /\ Len(m) >= 1
  BY <1>1, EmptySeq, LenProperties
<1>3. \A k \in 1..Len(m) : m[k] \in 0..255
  BY <1>1, ElementOfSeq DEF Byte
<1>4. m[1] \in 0..255 /\ m[1] >= 128
  BY <1>2, <1>3, FramingAssumption DEF High
<1>5. m[1] \in 128..255
  BY <1>4, LowByte
<1> QED
  BY <1>1, <1>2, <1>3, <1>5

\* A SysEx has data between its F0 and its F7.
LEMMA SysexBytes ==
  ASSUME NEW m \in Messages, IsSysex(m)
  PROVE  /\ Len(m) >= 2 /\ m[1] = 240 /\ m[Len(m)] = 247
         /\ \A k \in 2..Len(m)-1 : m[k] \in 0..127
<1>1. ASSUME NEW k \in 2..Len(m)-1 PROVE m[k] \in 0..127
  <2>1. k \in 2..Len(m) /\ k # Len(m) /\ k \in 1..Len(m)
    BY MessageBytes
  <2>2. m[k] \in 0..255 /\ ~(m[k] >= 128)
    BY <2>1, MessageBytes, FramingAssumption DEF High
  <2>3. PICK w \in 0..255 : w = m[k]
    BY <2>2, Zenon
  <2>4. ~(w >= 128)
    BY <2>2, <2>3, Zenon
  <2>5. w \in 0..127
    BY <2>4
  <2> QED
    BY <2>3, <2>5, Zenon
<1> QED
  BY <1>1 DEF IsSysex, SOX, EOX

\* Any other message is a status and its data.
LEMMA PlainBytes ==
  ASSUME NEW m \in Messages, ~IsSysex(m)
  PROVE  /\ m[1] # 240 /\ Len(m) = 1 + dataLen(m[1])
         /\ dataLen(m[1]) \in 0..2
         /\ \A k \in 2..Len(m) : m[k] \in 0..127
<1>1. ASSUME NEW k \in 2..Len(m) PROVE m[k] \in 0..127
  <2>1. k \in 1..Len(m)
    BY MessageBytes
  <2>2. m[k] \in 0..255 /\ ~(m[k] >= 128)
    BY <2>1, MessageBytes, FramingAssumption DEF High
  <2>3. PICK w \in 0..255 : w = m[k]
    BY <2>2, Zenon
  <2>4. ~(w >= 128)
    BY <2>2, <2>3, Zenon
  <2>5. w \in 0..127
    BY <2>4
  <2> QED
    BY <2>3, <2>5, Zenon
<1>2. m[1] # 240 /\ Len(m) = 1 + dataLen(m[1])
  BY FramingAssumption DEF SOX
<1>3. m[1] \in 128..255
  BY MessageBytes
<1>4. dataLen(m[1]) \in 0..2
  BY <1>3, DataLenBound DEF Byte
<1> QED
  BY <1>1, <1>2, <1>4, Zenon

\* What may be framed is well formed.
LEMMA MessageShape ==
  ASSUME NEW m \in Messages
  PROVE  /\ m \in Seq(Byte) /\ Len(m) >= 1
         /\ ~IsSysex(m) => Len(m) <= 3
         /\ \A k \in 2..Len(m)-1 : m[k] \in Data
<1>1. CASE IsSysex(m)
  BY <1>1, MessageBytes, SysexBytes DEF Data
<1>2. CASE ~IsSysex(m)
  BY <1>2, MessageBytes, PlainBytes DEF Data
<1> QED
  BY <1>1, <1>2

\* A packet that is put on the wire.
LEMMA PutKeeps ==
  ASSUME wire \in Seq(Packet), PacketsFit,
         NEW from \in {"frame", "device", "noise"}, NEW bytes \in Seq(Byte),
         from = "frame" /\ Mtu >= 5 => Len(bytes) <= Mtu,
         Puts(from, bytes)
  PROVE  wire' \in Seq(Packet) /\ PacketsFit'
<1> DEFINE q == [from |-> from, bytes |-> bytes]
<1>1. q \in Packet /\ q.from = from /\ q.bytes = bytes
  BY DEF Packet
<1> HIDE DEF q
<1>2. wire' = Append(wire, q)
  BY DEF Puts, q
<1>3. /\ wire' \in Seq(Packet) /\ Len(wire') = Len(wire) + 1
      /\ \A k \in 1..Len(wire) : wire'[k] = wire[k]
      /\ wire'[Len(wire) + 1] = q
  BY <1>1, <1>2, AppendProperties
<1>4. PacketsFit'
  <2> SUFFICES ASSUME Mtu >= 5, NEW k \in 1..Len(wire'), wire'[k].from = "frame"
               PROVE  Len(wire'[k].bytes) <= Mtu
    BY DEF PacketsFit
  <2>1. CASE k \in 1..Len(wire)
    BY <2>1, <1>3 DEF PacketsFit
  <2>2. CASE k = Len(wire) + 1
    BY <2>2, <1>1, <1>3
  <2> QED
    BY <2>1, <2>2, <1>3, LenProperties
<1> QED
  BY <1>3, <1>4

\* A packet that leaves it.
LEMMA TailKeeps ==
  ASSUME wire \in Seq(Packet), PacketsFit, wire # <<>>, wire' = Tail(wire)
  PROVE  wire' \in Seq(Packet) /\ PacketsFit'
<1>1. /\ wire' \in Seq(Packet) /\ Len(wire') = Len(wire) - 1
      /\ \A k \in 1..Len(wire') : wire'[k] = wire[k + 1]
  BY HeadTailProperties
<1>2. Len(wire) \in Nat
  BY LenProperties
<1>3. PacketsFit'
  BY <1>1, <1>2 DEF PacketsFit
<1> QED
  BY <1>1, <1>3

\* A message that the decoder hands on.
LEMMA EmitKeeps ==
  ASSUME out \in Seq(Seq(Byte)), MessagesDelimited,
         NEW m \in Seq(Byte), Delimited(m), out' = Append(out, m)
  PROVE  out' \in Seq(Seq(Byte)) /\ MessagesDelimited'
<1>1. /\ out' \in Seq(Seq(Byte)) /\ Len(out') = Len(out) + 1
      /\ \A k \in 1..Len(out) : out'[k] = out[k]
      /\ out'[Len(out) + 1] = m
  BY AppendProperties
<1>2. Len(out) \in Nat
  BY LenProperties
<1>3. ASSUME NEW k \in 1..Len(out') PROVE Delimited(out'[k])
  <2>1. CASE k \in 1..Len(out)
    BY <2>1, <1>1 DEF MessagesDelimited
  <2>2. CASE k = Len(out) + 1
    BY <2>2, <1>1
  <2> QED
    BY <2>1, <2>2, <1>1, <1>2
<1> QED
  BY <1>1, <1>3 DEF MessagesDelimited

-----------------------------------------------------------------------------
(* The types of the packets. *)

\* A message in a bundle is a sequence of bytes.
LEMMA StampedType ==
  ASSUME NEW m \in Messages, NEW ts \in Byte, NEW runs \in BOOLEAN
  PROVE  Stamped(m, ts, runs) \in Seq(Byte)
<1>1. m \in Seq(Byte) /\ m # <<>> /\ Len(m) \in Nat
  BY MessageShape, EmptySeq, LenProperties
<1>2. Tail(m) \in Seq(Byte)
  BY <1>1, HeadTailProperties
<1>3. SubSeq(m, 1, Len(m) - 1) \in Seq(Byte)
  <2>1. \A k \in 1..Len(m)-1 : m[k] \in Byte
    BY <1>1, ElementOfSeq
  <2> QED
    BY <1>1, <2>1, SubSeqProperties
<1>4. <<ts>> \in Seq(Byte) /\ <<ts, EOX>> \in Seq(Byte)
  BY DEF EOX, Byte
<1> DEFINE rest == IF runs THEN Tail(m)
                   ELSE IF IsSysex(m) THEN SubSeq(m, 1, Len(m) - 1) \o <<ts, EOX>>
                   ELSE m
<1>5. rest \in Seq(Byte)
  <2>1. SubSeq(m, 1, Len(m) - 1) \o <<ts, EOX>> \in Seq(Byte)
    BY <1>3, <1>4, ConcatProperties
  <2> QED
    BY <1>1, <1>2, <2>1
<1> HIDE DEF rest
<1>6. <<ts>> \o rest \in Seq(Byte)
  BY <1>4, <1>5, ConcatProperties
<1> QED
  BY <1>6 DEF Stamped, rest

\* A bundle is one.
LEMMA BundleType ==
  ASSUME NEW ms \in Bundles, NEW ts \in Byte, NEW runs \in BOOLEAN
  PROVE  Bundle(ms, ts, runs) \in Seq(Byte)
<1> DEFINE part(k) == IF k > Len(ms) THEN <<>>
                      ELSE Stamped(ms[k], ts, runs /\ Repeats(ms, k))
<1>1. ms \in Seq(Messages) /\ Len(ms) \in Nat
  BY FramingAssumption, LenProperties
<1>2. ASSUME NEW k \in {1, 2, 3} PROVE part(k) \in Seq(Byte)
  <2>1. CASE k > Len(ms)
    BY <2>1, EmptySeq
  <2>2. CASE ~(k > Len(ms))
    <3>1. ms[k] \in Messages
      BY <1>1, <2>2, ElementOfSeq
    <3>2. (runs /\ Repeats(ms, k)) \in BOOLEAN
      BY Zenon
    <3> QED
      BY <2>2, <3>1, <3>2, StampedType
  <2> QED
    BY <2>1, <2>2
<1>3. part(1) \in Seq(Byte) /\ part(2) \in Seq(Byte) /\ part(3) \in Seq(Byte)
  BY <1>2
<1>4. Bundle(ms, ts, runs) = <<Header>> \o part(1) \o part(2) \o part(3)
  BY Zenon DEF Bundle
<1> HIDE DEF part
<1>5. <<Header>> \in Seq(Byte)
  BY DEF Header, Byte
<1>6. <<Header>> \o part(1) \in Seq(Byte)
  BY <1>3, <1>5, ConcatProperties
<1>7. <<Header>> \o part(1) \o part(2) \in Seq(Byte)
  BY <1>3, <1>6, ConcatProperties
<1>8. <<Header>> \o part(1) \o part(2) \o part(3) \in Seq(Byte)
  BY <1>3, <1>7, ConcatProperties
<1> QED
  BY <1>4, <1>8

-----------------------------------------------------------------------------
(* The steps of the framing and of the link. *)

\* Steps that leave the decoder alone, once the wire is taken care of.
LEMMA OutsideDecoder ==
  ASSUME IInv, UNCHANGED decVars,
         wire' \in Seq(Packet) /\ PacketsFit',
         enc' \in {"idle", "chunking"}, body' \in Seq(Data), stamp' \in 128..255,
         ChunkingRoom',
         sent' \in Seq(Messages), noisy' \in BOOLEAN, quiet' \in BOOLEAN,
         aliens' \in 0..MaxAliens
  PROVE  IInv'
<1>1. TypeOK'
  <2>1. inSysex' \in BOOLEAN
    BY Zenon DEF IInv, TypeOK, decVars, decoder
  <2>2. /\ dec' \in {"idle", "sysex", "loop"} /\ p' \in Seq(Byte)
        /\ i' \in Nat /\ (dec' # "idle" => i' \in 2..Len(p')+1)
        /\ running' \in {0} \union 128..239
        /\ sysex' \in Seq(Byte)
        /\ out' \in Seq(Seq(Byte))
    BY DEF IInv, TypeOK, decVars, decoder
  <2> QED
    BY <2>1, <2>2 DEF TypeOK, Packet
<1>2. MessagesDelimited' /\ OpenSysex'
  BY DEF IInv, MessagesDelimited, OpenSysex, decVars, decoder
<1> QED
  BY <1>1, <1>2 DEF IInv

\* The histories when messages are framed.
LEMMA SendsType ==
  ASSUME IInv, NEW ms \in Seq(Messages), Sends(ms)
  PROVE  /\ sent' \in Seq(Messages) /\ quiet' \in BOOLEAN /\ noisy' \in BOOLEAN
         /\ aliens' \in 0..MaxAliens
         /\ UNCHANGED decVars
<1>1. sent' \in Seq(Messages) /\ aliens' \in 0..MaxAliens /\ UNCHANGED decVars
  BY ConcatProperties DEF Sends, IInv, TypeOK
<1>2. quiet' \in BOOLEAN /\ noisy' \in BOOLEAN
  BY Zenon DEF Sends, IInv, TypeOK
<1> QED
  BY <1>1, <1>2

\* A message in one packet.
LEMMA WholeStep ==
  ASSUME IInv, NEW m \in Messages, NEW ts \in Stamps, FrameWhole(m, ts)
  PROVE  IInv'
<1>1. m \in Seq(Byte) /\ Len(m) \in Nat /\ (~IsSysex(m) => Len(m) <= 3)
  BY MessageShape, LenProperties
<1>2. ts \in 128..255 /\ <<Header, ts>> \in Seq(Byte) /\ Len(<<Header, ts>>) = 2
  BY FramingAssumption DEF Header, Byte
<1> DEFINE bytes == <<Header, ts>> \o m
<1>3. bytes \in Seq(Byte) /\ Len(bytes) = 2 + Len(m)
  BY <1>1, <1>2, ConcatProperties
<1>4. Puts("frame", bytes)
  BY DEF FrameWhole
<1>5. Mtu >= 5 => Len(bytes) <= Mtu
  BY <1>1, <1>3, FramingAssumption DEF FrameWhole, OnePacket
<1> HIDE DEF bytes
<1>6. wire' \in Seq(Packet) /\ PacketsFit'
  BY <1>3, <1>4, <1>5, PutKeeps DEF IInv, TypeOK, Packet
<1>7. /\ sent' \in Seq(Messages) /\ quiet' \in BOOLEAN /\ noisy' \in BOOLEAN
      /\ aliens' \in 0..MaxAliens
      /\ UNCHANGED decVars
  <2>1. <<m>> \in Seq(Messages)
    OBVIOUS
  <2> QED
    BY <2>1, SendsType DEF FrameWhole
<1>8. /\ enc' \in {"idle", "chunking"} /\ body' \in Seq(Data)
      /\ stamp' \in 128..255 /\ ChunkingRoom'
  BY DEF ChunkingRoom, FrameWhole, encVars, IInv, TypeOK
<1> QED
  BY <1>6, <1>7, <1>8, OutsideDecoder

\* The first packet of a chunked SysEx.
LEMMA FirstStep ==
  ASSUME IInv, NEW m \in Messages, NEW ts \in Stamps, FrameFirst(m, ts)
  PROVE  IInv'
<1>1. /\ m \in Seq(Byte) /\ Len(m) \in Nat
      /\ \A k \in 2..Len(m)-1 : m[k] \in Data
  BY MessageShape, LenProperties
<1>2. Mtu \in Nat /\ Mtu >= 4 /\ Len(m) + 2 > Mtu
  BY <1>1, FramingAssumption DEF FrameFirst, OnePacket
<1>3. /\ ts \in 128..255 /\ <<Header, ts, SOX>> \in Seq(Byte)
      /\ Len(<<Header, ts, SOX>>) = 3
  BY FramingAssumption DEF Header, SOX, Byte
<1> DEFINE piece == SubSeq(m, 2, Mtu - 2)
           bytes == <<Header, ts, SOX>> \o piece
<1>4. piece \in Seq(Byte) /\ Len(piece) = Mtu - 3
  <2>1. \A k \in 2..Mtu-2 : m[k] \in Byte
    BY <1>1, <1>2, SMTT(30) DEF Data, Byte
  <2> QED
    BY <1>2, <2>1, SubSeqProperties
<1> HIDE DEF piece
<1>5. bytes \in Seq(Byte) /\ Len(bytes) = Mtu
  BY <1>2, <1>3, <1>4, ConcatProperties
<1>6. Puts("frame", bytes)
  BY DEF FrameFirst, piece
<1> HIDE DEF bytes
<1>7. wire' \in Seq(Packet) /\ PacketsFit'
  <2>1. Len(bytes) <= Mtu
    BY <1>2, <1>5
  <2>2. wire \in Seq(Packet) /\ PacketsFit
    BY DEF IInv, TypeOK, Packet
  <2> QED
    BY <1>5, <1>6, <2>1, <2>2, PutKeeps
<1>8. /\ sent' \in Seq(Messages) /\ quiet' \in BOOLEAN /\ noisy' \in BOOLEAN
      /\ aliens' \in 0..MaxAliens
      /\ UNCHANGED decVars
  <2>1. <<m>> \in Seq(Messages)
    OBVIOUS
  <2> QED
    BY <2>1, SendsType DEF FrameFirst
<1>9. body' \in Seq(Data)
  <2>1. \A k \in Mtu-1..Len(m)-1 : m[k] \in Data
    BY <1>1, <1>2
  <2> QED
    BY <1>1, <1>2, <2>1, SubSeqProperties DEF FrameFirst
<1>10. enc' \in {"idle", "chunking"} /\ stamp' \in 128..255 /\ ChunkingRoom'
  BY <1>2, <1>3 DEF ChunkingRoom, FrameFirst
<1> QED
  BY <1>7, <1>8, <1>9, <1>10, OutsideDecoder

\* Its other packets.
LEMMA ChunkStep ==
  ASSUME IInv, FrameMiddle \/ FrameLast
  PROVE  IInv'
<1>1. body \in Seq(Data) /\ Len(body) \in Nat /\ stamp \in 128..255 /\ Mtu \in Nat
  BY LenProperties, FramingAssumption DEF IInv, TypeOK
<1>2. /\ UNCHANGED decVars /\ stamp' \in 128..255 /\ sent' \in Seq(Messages)
      /\ aliens' \in 0..MaxAliens
  <2>1. Chunks
    BY DEF FrameMiddle, FrameLast
  <2>2. UNCHANGED decVars /\ UNCHANGED stamp /\ UNCHANGED <<sent, aliens>>
    BY <2>1 DEF Chunks, history
  <2> QED
    BY <1>1, <2>2 DEF IInv, TypeOK
<1>3. noisy' \in BOOLEAN /\ quiet' \in BOOLEAN
  BY Zenon DEF IInv, TypeOK, FrameMiddle, FrameLast, Chunks, history
<1>4. enc' \in {"idle", "chunking"} /\ Mtu >= 4 /\ ChunkingRoom'
  BY DEF FrameMiddle, FrameLast, Chunks, IInv, ChunkingRoom
<1>5. <<Header>> \in Seq(Byte) /\ Len(<<Header>>) = 1
  BY DEF Header, Byte
<1>6. body \in Seq(Byte)
  BY <1>1, SeqMonotonic DEF Data, Byte
<1>7. CASE FrameMiddle
  <2> DEFINE take == IF Room > Len(body) THEN Len(body) ELSE Room
             piece == SubSeq(body, 1, take)
             bytes == <<Header>> \o piece
  <2>1. take \in Nat /\ take <= Len(body) /\ take <= Mtu - 1
    BY <1>1, <1>4 DEF Room
  <2>2. Puts("frame", bytes) /\ body' = SubSeq(body, take + 1, Len(body))
    BY <1>7 DEF FrameMiddle
  <2> HIDE DEF take
  <2>3. \A k \in 1..take : body[k] \in Byte
    BY <1>1, <1>6, <2>1, ElementOfSeq
  <2>4. piece \in Seq(Byte) /\ (Mtu >= 5 => Len(piece) <= Mtu - 1)
    BY <1>1, <2>1, <2>3, SubSeqProperties
  <2> HIDE DEF piece
  <2>5. bytes \in Seq(Byte) /\ (Mtu >= 5 => Len(bytes) <= Mtu)
    <3>1. bytes \in Seq(Byte) /\ Len(bytes) = 1 + Len(piece) /\ Len(piece) \in Nat
      BY <1>5, <2>4, ConcatProperties, LenProperties
    <3> QED
      BY <1>1, <2>4, <3>1
  <2> HIDE DEF bytes
  <2>6. wire' \in Seq(Packet) /\ PacketsFit'
    BY <2>2, <2>5, PutKeeps DEF IInv, TypeOK, Packet
  <2>7. body' \in Seq(Data)
    <3>1. \A k \in take+1..Len(body) : body[k] \in Data
      BY <1>1, <2>1, ElementOfSeq
    <3>2. take + 1 \in Int /\ Len(body) \in Int
      BY <1>1, <2>1
    <3>3. SubSeq(body, take + 1, Len(body)) \in Seq(Data)
      BY <3>1, <3>2, SubSeqProperties
    <3> QED
      BY <2>2, <3>3
  <2> QED
    BY <1>2, <1>3, <1>4, <2>6, <2>7, OutsideDecoder
<1>8. CASE FrameLast
  <2> DEFINE tail == <<stamp, EOX>>
             bytes == <<Header>> \o body \o tail
  <2>1. tail \in Seq(Byte) /\ Len(tail) = 2
    BY <1>1 DEF EOX, Byte
  <2>2. Puts("frame", bytes) /\ body' = <<>>
    BY <1>8 DEF FrameLast
  <2> HIDE DEF tail
  <2>3. /\ <<Header>> \o body \in Seq(Byte)
        /\ Len(<<Header>> \o body) = 1 + Len(body)
    BY <1>5, <1>6, ConcatProperties
  <2>4. bytes \in Seq(Byte) /\ Len(bytes) = 3 + Len(body)
    <3> DEFINE front == <<Header>> \o body
    <3>1. front \in Seq(Byte) /\ Len(front) = 1 + Len(body)
      BY <2>3
    <3> HIDE DEF front
    <3>2. front \o tail \in Seq(Byte) /\ Len(front \o tail) = Len(front) + Len(tail)
      BY <2>1, <3>1, ConcatProperties
    <3>3. bytes = front \o tail
      BY DEF front
    <3> HIDE DEF bytes
    <3> QED
      BY <1>1, <2>1, <3>1, <3>2, <3>3
  <2>5. Mtu >= 5 => Len(bytes) <= Mtu
    <3>1. body = <<>> => Len(body) = 0
      BY EmptySeq
    <3> QED
      BY <1>1, <1>8, <2>4, <3>1 DEF FrameLast, Room
  <2> HIDE DEF bytes
  <2>6. wire' \in Seq(Packet) /\ PacketsFit'
    BY <2>2, <2>4, <2>5, PutKeeps DEF IInv, TypeOK, Packet
  <2>7. body' \in Seq(Data)
    BY <2>2, EmptySeq
  <2> QED
    BY <1>2, <1>3, <1>4, <2>6, <2>7, OutsideDecoder
<1> QED
  BY <1>7, <1>8

\* The device and the link.
LEMMA LinkStep ==
  ASSUME IInv, Link
  PROVE  IInv'
<1>1. ASSUME NEW ms \in Bundles, NEW ts \in DeviceStamps, NEW runs \in BOOLEAN,
             DeviceSends(ms, ts, runs)
      PROVE  IInv'
  <2>1. ts \in Byte /\ ms \in Seq(Messages)
    BY FramingAssumption DEF Byte
  <2>2. Bundle(ms, ts, runs) \in Seq(Byte)
    BY <2>1, BundleType
  <2>3. wire' \in Seq(Packet) /\ PacketsFit'
    BY <1>1, <2>2, PutKeeps DEF DeviceSends, IInv, TypeOK, Packet
  <2>4. /\ sent' \in Seq(Messages) /\ quiet' \in BOOLEAN /\ noisy' \in BOOLEAN
        /\ aliens' \in 0..MaxAliens
        /\ UNCHANGED decVars
    BY <1>1, <2>1, SendsType DEF DeviceSends
  <2>5. /\ enc' \in {"idle", "chunking"} /\ body' \in Seq(Data)
        /\ stamp' \in 128..255 /\ ChunkingRoom'
    BY <1>1 DEF DeviceSends, encVars, IInv, TypeOK, ChunkingRoom
  <2> QED
    BY <2>3, <2>4, <2>5, OutsideDecoder
<1>2. ASSUME Disturbs, wire' \in Seq(Packet) /\ PacketsFit',
             aliens' \in 0..MaxAliens
      PROVE  IInv'
  <2>1. /\ enc' \in {"idle", "chunking"} /\ body' \in Seq(Data)
        /\ stamp' \in 128..255 /\ sent' \in Seq(Messages)
        /\ UNCHANGED decVars /\ ChunkingRoom'
    BY <1>2 DEF Disturbs, encVars, IInv, TypeOK, ChunkingRoom
  <2>2. noisy' \in BOOLEAN /\ quiet' \in BOOLEAN
    BY <1>2, Zenon DEF Disturbs
  <2> QED
    BY <1>2, <2>1, <2>2, OutsideDecoder
<1>3. CASE Lose
  <2>1. wire' \in Seq(Packet) /\ PacketsFit'
    BY <1>3, TailKeeps DEF Lose, IInv, TypeOK, Packet
  <2>2. aliens' \in 0..MaxAliens
    BY <1>3 DEF Lose, IInv, TypeOK
  <2> QED
    BY <1>2, <1>3, <2>1, <2>2 DEF Lose
<1>4. ASSUME NEW q \in Noise, Alien(q) PROVE IInv'
  <2>1. q \in Seq(Byte)
    BY FramingAssumption
  <2>2. wire' \in Seq(Packet) /\ PacketsFit'
    BY <1>4, <2>1, PutKeeps DEF Alien, IInv, TypeOK, Packet
  <2>3. aliens' \in 0..MaxAliens
    BY <1>4, FramingAssumption DEF Alien, IInv, TypeOK
  <2> QED
    BY <1>2, <1>4, <2>2, <2>3 DEF Alien
<1> QED
  BY <1>1, <1>3, <1>4 DEF Link

-----------------------------------------------------------------------------
(* The steps of the decoder. *)

\* Steps that leave the framing and the link alone.
LEMMA InsideDecoder ==
  ASSUME IInv, UNCHANGED <<encVars, history>>,
         wire' \in Seq(Packet) /\ PacketsFit',
         dec' \in {"idle", "sysex", "loop"}, p' \in Seq(Byte),
         i' \in Nat, dec' # "idle" => i' \in 2..Len(p')+1,
         running' \in {0} \union 128..239, sysex' \in Seq(Byte),
         inSysex' \in BOOLEAN,
         out' \in Seq(Seq(Byte)) /\ MessagesDelimited',
         OpenSysex'
  PROVE  IInv'
<1>1. /\ enc' \in {"idle", "chunking"} /\ body' \in Seq(Data)
      /\ stamp' \in 128..255 /\ sent' \in Seq(Messages)
      /\ aliens' \in 0..MaxAliens
  BY DEF IInv, TypeOK, encVars, history
<1>2. noisy' \in BOOLEAN /\ quiet' \in BOOLEAN
  BY Zenon DEF IInv, TypeOK, history
<1>3. ChunkingRoom'
  BY DEF IInv, ChunkingRoom, encVars
<1>4. TypeOK'
  BY <1>1, <1>2 DEF TypeOK, Packet
<1> QED
  BY <1>3, <1>4 DEF IInv

\* A packet is received.
LEMMA ReceiveStep ==
  ASSUME IInv, Receive
  PROVE  IInv'
<1>1. wire \in Seq(Packet) /\ wire # <<>> /\ PacketsFit
  BY DEF IInv, TypeOK, Packet, Receive
<1>2. wire' \in Seq(Packet) /\ PacketsFit'
  BY <1>1, TailKeeps DEF Receive
<1>3. p' \in Seq(Byte) /\ Len(p') \in Nat
  <2>1. Head(wire) \in Packet
    BY <1>1, HeadTailProperties
  <2> QED
    BY <2>1, LenProperties DEF Receive, Packet
<1>4. i' = 2 /\ (dec' # "idle" => Len(p') >= 2 /\ i' \in 2..Len(p')+1)
  BY <1>3 DEF Receive
<1>5. dec' \in {"idle", "sysex", "loop"} /\ (dec' = "sysex" => inSysex)
  BY DEF Receive
<1>6. /\ running' \in {0} \union 128..239 /\ sysex' \in Seq(Byte)
      /\ out' \in Seq(Seq(Byte)) /\ MessagesDelimited' /\ OpenSysex'
  BY <1>5 DEF Receive, decoder, IInv, TypeOK, MessagesDelimited, OpenSysex
<1>7. inSysex' \in BOOLEAN
  BY Zenon DEF Receive, decoder, IInv, TypeOK
<1>8. UNCHANGED <<encVars, history>>
  BY DEF Receive
<1> QED
  BY <1>2, <1>3, <1>4, <1>5, <1>6, <1>7, <1>8, InsideDecoder

\* What every other step of the decoder has in common.
LEMMA DecodesKeeps ==
  ASSUME IInv, NEW at \in {"sysex", "loop"}, NEW next \in {"idle", "sysex", "loop"},
         Decodes(at, next)
  PROVE  /\ dec = at /\ dec' = next /\ dec' \in {"idle", "sysex", "loop"}
         /\ wire' \in Seq(Packet) /\ PacketsFit'
         /\ p' = p /\ p \in Seq(Byte) /\ Len(p) \in Nat
         /\ i \in 2..Len(p)+1
         /\ UNCHANGED <<encVars, history>>
<1>1. /\ dec = at /\ dec' = next /\ p' = p /\ wire' = wire
      /\ UNCHANGED <<encVars, history>>
  BY DEF Decodes
<1>2. p \in Seq(Byte) /\ Len(p) \in Nat
  BY LenProperties DEF IInv, TypeOK
<1>3. i \in 2..Len(p)+1
  BY <1>1 DEF IInv, TypeOK
<1>4. wire' \in Seq(Packet) /\ PacketsFit'
  BY <1>1 DEF IInv, TypeOK, Packet, PacketsFit
<1> QED
  BY <1>1, <1>2, <1>3, <1>4

\* The F7 of a SysEx.
LEMMA SysexEndsStep ==
  ASSUME IInv, SysexEnds
  PROVE  IInv'
<1>1. Decodes("sysex", "loop")
  BY DEF SysexEnds
<1>2. inSysex /\ sysex \in Seq(Byte) /\ Len(sysex) \in Nat
  BY <1>1, DecodesKeeps, LenProperties DEF IInv, OpenSysex, TypeOK
<1> DEFINE m == Append(sysex, EOX)
<1>3. /\ m \in Seq(Byte) /\ Len(m) = Len(sysex) + 1
      /\ m[Len(m)] = EOX
      /\ \A k \in 1..Len(sysex) : m[k] = sysex[k]
  <2>1. EOX \in Byte
    BY DEF EOX, Byte
  <2> QED
    BY <1>2, <2>1, AppendProperties
<1> HIDE DEF m
<1>4. Delimited(m)
  <2>1. Len(sysex) >= 1 /\ sysex[1] = SOX /\ \A k \in 2..Len(sysex) : ~High(sysex[k])
    BY <1>2 DEF IInv, OpenSysex
  <2>2. m # <<>> /\ m[1] = SOX /\ Len(m) >= 2
    BY <1>2, <1>3, <2>1, EmptySeq
  <2>3. High(m[1]) /\ IsSysex(m)
    BY <1>3, <2>2 DEF High, SOX, IsSysex
  <2>4. \A k \in 2..Len(m)-1 : ~High(m[k])
    BY <1>2, <1>3, <2>1
  <2> QED
    BY <2>2, <2>3, <2>4 DEF Delimited
<1>5. out' = Append(out, m)
  BY DEF SysexEnds, m
<1>6. out' \in Seq(Seq(Byte)) /\ MessagesDelimited'
  BY <1>3, <1>4, <1>5, EmitKeeps DEF IInv, TypeOK
<1>7. /\ i' \in Nat /\ (dec' # "idle" => i' \in 2..Len(p')+1)
      /\ running' \in {0} \union 128..239
  BY <1>1, DecodesKeeps DEF SysexEnds
<1>8. sysex' \in Seq(Byte) /\ inSysex' = FALSE
  BY EmptySeq DEF SysexEnds
<1>9. inSysex' \in BOOLEAN
  BY <1>8, Zenon
<1>10. OpenSysex'
  BY <1>1, <1>8, DecodesKeeps DEF OpenSysex
<1> QED
  BY <1>1, <1>6, <1>7, <1>8, <1>9, <1>10, DecodesKeeps, InsideDecoder

\* A byte that is skipped or added, and the end of the packet.
LEMMA SysexByteStep ==
  ASSUME IInv, SysexSkips \/ SysexData \/ SysexPauses
  PROVE  IInv'
<1>1. Decodes("sysex", "sysex") \/ Decodes("sysex", "loop")
  BY DEF SysexSkips, SysexData, SysexPauses
<1>2. /\ dec = "sysex" /\ dec' \in {"idle", "sysex", "loop"}
      /\ wire' \in Seq(Packet) /\ PacketsFit'
      /\ p' = p /\ p \in Seq(Byte) /\ Len(p) \in Nat
      /\ i \in 2..Len(p)+1
      /\ UNCHANGED <<encVars, history>>
  BY <1>1, DecodesKeeps
<1>3. inSysex /\ sysex \in Seq(Byte) /\ Len(sysex) \in Nat
  BY <1>2, LenProperties DEF IInv, OpenSysex, TypeOK
<1>4. UNCHANGED <<running, inSysex, out>>
  BY DEF SysexSkips, SysexData, SysexPauses, decoder
<1>5. i' \in Nat /\ i' \in 2..Len(p')+1
  BY <1>2 DEF SysexSkips, SysexData, SysexPauses
<1>6. sysex' \in Seq(Byte) /\ OpenSysex'
  <2>1. CASE SysexData
    <3>1. p[i] \in Byte /\ ~High(p[i]) /\ sysex' = Append(sysex, p[i])
      BY <1>2, <2>1, ElementOfSeq DEF SysexData
    <3>2. /\ sysex' \in Seq(Byte) /\ Len(sysex') = Len(sysex) + 1
          /\ sysex'[Len(sysex) + 1] = p[i]
          /\ \A k \in 1..Len(sysex) : sysex'[k] = sysex[k]
      BY <1>3, <3>1, AppendProperties
    <3>3. Len(sysex) >= 1 /\ sysex[1] = SOX /\ \A k \in 2..Len(sysex) : ~High(sysex[k])
      BY <1>3 DEF IInv, OpenSysex
    <3>4. ASSUME NEW k \in 2..Len(sysex') PROVE ~High(sysex'[k])
      <4>1. CASE k \in 2..Len(sysex)
        BY <1>3, <3>2, <3>3, <4>1
      <4>2. CASE k = Len(sysex) + 1
        BY <3>1, <3>2, <4>2
      <4> QED
        BY <1>3, <3>2, <4>1, <4>2
    <3> QED
      BY <1>3, <1>4, <3>2, <3>3, <3>4 DEF OpenSysex
  <2>2. CASE SysexSkips \/ SysexPauses
    BY <1>3, <2>2 DEF SysexSkips, SysexPauses, decoder, IInv, OpenSysex
  <2> QED
    BY <2>1, <2>2
<1>7. /\ running' \in {0} \union 128..239 /\ out' \in Seq(Seq(Byte))
      /\ MessagesDelimited'
  BY <1>4 DEF IInv, TypeOK, MessagesDelimited
<1>8. inSysex' \in BOOLEAN
  BY <1>4, Zenon DEF IInv, TypeOK
<1> QED
  BY <1>2, <1>5, <1>6, <1>7, <1>8, InsideDecoder

\* What a turn of the loop finds, whatever the packet.
LEMMA TurnFinds ==
  ASSUME IInv, dec = "loop", HasMessage
  PROVE  /\ Status \in 128..255 /\ dataLen(Status) \in 0..2
         /\ First \in Nat /\ First \in 2..Len(p)+1
<1>1. /\ p \in Seq(Byte) /\ Len(p) \in Nat /\ i \in 2..Len(p)+1
      /\ running \in {0} \union 128..239
  BY LenProperties DEF IInv, TypeOK
<1>2. At \in Nat /\ At \in 2..Len(p)
  BY <1>1 DEF At, HasMessage
<1>3. p[At] \in Byte
  BY <1>1, <1>2, ElementOfSeq
<1>4. Status \in 128..255
  <2>1. CASE Explicit
    <3>1. Status = p[At] /\ p[At] >= 128
      BY <2>1 DEF Status, Explicit, High
    <3> QED
      BY <1>3, <3>1 DEF Byte
  <2>2. CASE ~Explicit
    <3>1. Status = running /\ running # 0
      BY <2>2 DEF Status, HasMessage
    <3> QED
      BY <1>1, <3>1
  <2> QED
    BY <2>1, <2>2
<1>5. First \in Nat /\ First \in 2..Len(p)+1
  BY <1>1, <1>2 DEF First, Explicit
<1>6. dataLen(Status) \in 0..2
  BY <1>4, DataLenBound DEF Byte
<1> QED
  BY <1>4, <1>5, <1>6

\* The F0 of a SysEx.
LEMMA OpensStep ==
  ASSUME IInv, LoopOpensSysex
  PROVE  IInv'
<1>1. Decodes("loop", "sysex") /\ HasMessage
  BY DEF LoopOpensSysex
<1>2. /\ i' \in Nat /\ i' \in 2..Len(p')+1
  BY <1>1, DecodesKeeps, TurnFinds DEF LoopOpensSysex
<1>3. sysex' \in Seq(Byte) /\ Len(sysex') = 1 /\ sysex'[1] = SOX /\ inSysex' = TRUE
  BY DEF LoopOpensSysex, SOX, Byte
<1>4. inSysex' \in BOOLEAN
  BY <1>3, Zenon
<1>5. OpenSysex'
  BY <1>3 DEF OpenSysex
<1>6. /\ running' \in {0} \union 128..239 /\ out' \in Seq(Seq(Byte))
      /\ MessagesDelimited'
  BY DEF LoopOpensSysex, IInv, TypeOK, MessagesDelimited
<1> QED
  BY <1>1, <1>2, <1>3, <1>4, <1>5, <1>6, DecodesKeeps, InsideDecoder

\* A message of the loop.
LEMMA MessageStep ==
  ASSUME IInv, LoopMessage
  PROVE  IInv'
<1>1. Decodes("loop", "loop") /\ HasMessage /\ Status # SOX /\ Complete
  BY DEF LoopMessage
<1>2. /\ Status \in 128..255 /\ dataLen(Status) \in 0..2
      /\ First \in Nat /\ First \in 2..Len(p)+1
      /\ p \in Seq(Byte) /\ Len(p) \in Nat
  BY <1>1, DecodesKeeps, TurnFinds
<1> DEFINE data == SubSeq(p, First, First + dataLen(Status) - 1)
           m == <<Status>> \o data
<1>3. data \in Seq(Byte) /\ Len(data) = dataLen(Status)
  <2>1. \A k \in First..First+dataLen(Status)-1 : p[k] \in Byte
    <3> SUFFICES ASSUME NEW k \in First..First+dataLen(Status)-1
                 PROVE  p[k] \in Byte
      OBVIOUS
    <3>1. k \in 1..Len(p)
      BY <1>1, <1>2 DEF Complete
    <3> QED
      BY <1>2, <3>1, ElementOfSeq
  <2>2. First \in Int /\ First + dataLen(Status) - 1 \in Int
    BY <1>2
  <2> QED
    BY <1>2, <2>1, <2>2, SubSeqProperties
<1>4. <<Status>> \in Seq(Byte) /\ Len(<<Status>>) = 1 /\ <<Status>>[1] = Status
  BY <1>2 DEF Byte
<1>5. out' = Append(out, m)
  BY DEF LoopMessage
<1> HIDE DEF data
<1>6. m \in Seq(Byte) /\ Len(m) = 1 + dataLen(Status) /\ m[1] = Status
  BY <1>2, <1>3, <1>4, ConcatProperties
<1> HIDE DEF m
<1>7. Delimited(m)
  BY <1>1, <1>2, <1>6, EmptySeq DEF Delimited, High
<1>8. out' \in Seq(Seq(Byte)) /\ MessagesDelimited'
  BY <1>5, <1>6, <1>7, EmitKeeps DEF IInv, TypeOK
<1>9. i' \in Nat /\ i' \in 2..Len(p')+1
  <2>1. i' = First + dataLen(Status) /\ p' = p
    BY <1>1, DecodesKeeps DEF LoopMessage
  <2>2. First + dataLen(Status) <= Len(p) + 1
    BY <1>1 DEF Complete
  <2> QED
    BY <1>2, <2>1, <2>2
<1>10. running' \in {0} \union 128..239
  BY <1>2 DEF LoopMessage, RunningAfter, SOX, IInv, TypeOK
<1>11. sysex' \in Seq(Byte) /\ OpenSysex'
  BY <1>1, DecodesKeeps DEF LoopMessage, IInv, TypeOK, OpenSysex
<1>12. inSysex' \in BOOLEAN
  BY Zenon DEF LoopMessage, IInv, TypeOK
<1> QED
  BY <1>1, <1>8, <1>9, <1>10, <1>11, <1>12, DecodesKeeps, InsideDecoder

\* The loop stops.
LEMMA StopsStep ==
  ASSUME IInv, LoopStops
  PROVE  IInv'
<1>1. Decodes("loop", "idle")
  BY DEF LoopStops
<1>2. /\ i' \in Nat /\ running' \in {0} \union 128..239
      /\ sysex' \in Seq(Byte) /\ out' \in Seq(Seq(Byte))
      /\ MessagesDelimited'
  BY DEF LoopStops, decoder, IInv, TypeOK, MessagesDelimited
<1>3. dec' = "idle" /\ OpenSysex'
  BY <1>1, DecodesKeeps DEF LoopStops, decoder, IInv, OpenSysex
<1>4. inSysex' \in BOOLEAN
  BY Zenon DEF LoopStops, decoder, IInv, TypeOK
<1> QED
  BY <1>1, <1>2, <1>3, <1>4, DecodesKeeps, InsideDecoder

-----------------------------------------------------------------------------

LEMMA InitEstablishes == Init => IInv
<1> SUFFICES ASSUME Init PROVE IInv
  OBVIOUS
<1>1. TypeOK
  <2>1. inSysex \in BOOLEAN /\ noisy \in BOOLEAN /\ quiet \in BOOLEAN
    BY Zenon DEF Init
  <2> QED
    BY <2>1, EmptySeq, FramingAssumption DEF Init, TypeOK
<1>2. PacketsFit /\ MessagesDelimited /\ OpenSysex /\ ChunkingRoom
  BY EmptySeq DEF Init, PacketsFit, MessagesDelimited, OpenSysex, ChunkingRoom
<1> QED
  BY <1>1, <1>2 DEF IInv

LEMMA StepPreserves == IInv /\ [Next]_vars => IInv'
<1> SUFFICES ASSUME IInv, [Next]_vars PROVE IInv'
  OBVIOUS
<1>1. CASE Frame
  BY <1>1, WholeStep, FirstStep, ChunkStep DEF Frame
<1>2. CASE Link
  BY <1>2, LinkStep
<1>3. CASE Decode
  BY <1>3, ReceiveStep, SysexEndsStep, SysexByteStep, OpensStep, MessageStep,
     StopsStep DEF Decode
<1>4. CASE UNCHANGED vars
  <2>1. UNCHANGED decVars /\ UNCHANGED encVars /\ UNCHANGED history /\ wire' = wire
    BY <1>4 DEF vars
  <2>2. /\ wire' \in Seq(Packet) /\ PacketsFit' /\ ChunkingRoom'
        /\ enc' \in {"idle", "chunking"} /\ body' \in Seq(Data)
        /\ stamp' \in 128..255 /\ sent' \in Seq(Messages)
        /\ aliens' \in 0..MaxAliens
    BY <2>1 DEF encVars, history, IInv, TypeOK, Packet, PacketsFit, ChunkingRoom
  <2>3. noisy' \in BOOLEAN /\ quiet' \in BOOLEAN
    BY <2>1, Zenon DEF history, IInv, TypeOK
  <2> QED
    BY <2>1, <2>2, <2>3, OutsideDecoder
<1> QED
  BY <1>1, <1>2, <1>3, <1>4 DEF Next

LEMMA Invariance == Spec => []IInv
  BY InitEstablishes, StepPreserves, PTL DEF Spec

\* The decoder's index stays within the packet and running status within the
\* channel statuses, whatever bytes arrive: Decode never slices out of range.
THEOREM TypeCorrect == Spec => []TypeOK
<1>1. IInv => TypeOK
  BY DEF IInv
<1> QED
  BY <1>1, Invariance, PTL

\* No packet of FrameMessageMTU is larger than the MTU, for every MTU from 5
\* on and SysEx of every length.
THEOREM FramesFit == Spec => []PacketsFit
<1>1. IInv => PacketsFit
  BY DEF IInv
<1> QED
  BY <1>1, Invariance, PTL

\* Whatever packets arrive, alien ones in any place and number, and whichever
\* are lost: each message that Decode hands on has as many bytes behind its
\* status as dataLen gives it, or is a SysEx of data bytes from F0 to F7.
THEOREM OnlyDelimitedDecoded == Spec => []MessagesDelimited
<1>1. IInv => MessagesDelimited
  BY DEF IInv
<1> QED
  BY <1>1, Invariance, PTL

-----------------------------------------------------------------------------

(* The round trip.  Every packet takes the decoder from one place in sent   *)
(* to a later one: so many messages, and so many bytes of the next, which   *)
(* then is a SysEx.  Line says that the packets on the wire lead, one after *)
(* the other, from where the decoder is to where FrameMessageMTU is.        *)

\* b, from position x + lo on, is m from lo to hi.
Copies(b, x, m, lo, hi) == \A a \in lo..hi : b[x + a] = m[a]

\* Message m takes the positions of b from x up to y: after a timestamp, with
\* or without its status, and if it is a SysEx with or without a second
\* timestamp.
Segment(b, x, y, m) ==
  /\ High(b[x])
  /\ \/ y = x + 1 + Len(m) /\ Copies(b, x, m, 1, Len(m))
     \/ /\ IsSysex(m)
        /\ y = x + 2 + Len(m)
        /\ Copies(b, x, m, 1, Len(m) - 1)
        /\ High(b[y - 2]) /\ b[y - 2] # EOX /\ b[y - 1] = EOX
     \/ y = x + Len(m) /\ Copies(b, x - 1, m, 2, Len(m))

\* From message k + 1 on, with status r running before it, the status of
\* message q + 1 is the running one.
Ready(s, k, q, r) ==
  /\ s[q + 1][1] < SOX
  /\ \/ r = s[q + 1][1] /\ \A n \in k+1..q : s[n][1] >= 248
     \/ \E j \in k+1..q : /\ s[j][1] = s[q + 1][1]
                          /\ \A n \in j+1..q : s[n][1] >= 248

\* What is running after a message, if r was before.
Runs(r, status) == IF status < SOX THEN status ELSE IF status < 248 THEN 0 ELSE r

\* Message k + 1 of s is a SysEx of which j bytes are behind.
Within(s, k, j) == k < Len(s) /\ IsSysex(s[k + 1]) /\ j \in 1..Len(s[k + 1])-1

\* Messages k + 1 to t are in b, message q + 1 from c[q] on; then b ends, or
\* ends after the first j bytes of one more.
Laid(s, b, c, k, t, j, r) ==
  /\ k <= t /\ t <= Len(s)
  /\ \A q \in k..t : c[q] \in 2..Len(b)+1
  /\ \A q \in k..t-1 : /\ Segment(b, c[q], c[q + 1], s[q + 1])
                       /\ c[q + 1] = c[q] + Len(s[q + 1]) => Ready(s, k, q, r)
  /\ \/ j = 0 /\ c[t] = Len(b) + 1
     \/ /\ Within(s, t, j)
        /\ Len(b) = c[t] + j
        /\ High(b[c[t]]) /\ Copies(b, c[t], s[t + 1], 1, j)

\* What a packet of whole messages holds from x on, and then perhaps the first
\* j bytes of one more, which is a SysEx.
Starts(s, b, x, k, t, j, r) ==
  \E c \in [Nat -> Nat] : c[k] = x /\ Laid(s, b, c, k, t, j, r)

\* The SysEx ends at position e of b, after a timestamp or not; then k
\* messages are behind.  A timestamp that looks like F7 ends it as well, if
\* nothing but the F7 follows.
Closes(s, b, e, k, t, j) ==
  \/ e <= Len(b) /\ b[e] = EOX /\ Starts(s, b, e + 1, k, t, j, 0)
  \/ /\ e < Len(b)
     /\ High(b[e]) /\ b[e] # EOX /\ b[e + 1] = EOX
     /\ Starts(s, b, e + 2, k, t, j, 0)
  \/ Len(b) = e + 1 /\ b[e] = EOX /\ b[e + 1] = EOX /\ t = k /\ j = 0

\* From position x on, b goes on with message k + 1, of which j bytes are
\* behind: with some more of it, or with all the rest.
Continues(s, b, x, k, j, t, j2) ==
  /\ Within(s, k, j)
  /\ \/ /\ t = k /\ Within(s, k, j2) /\ j <= j2
        /\ Len(b) = x + (j2 - j) - 1
        /\ Copies(b, x - j - 1, s[k + 1], j + 1, j2)
     \/ /\ Copies(b, x - j - 1, s[k + 1], j + 1, Len(s[k + 1]) - 1)
        /\ Closes(s, b, x + Len(s[k + 1]) - 1 - j, k + 1, t, j2)

\* Status bytes, F7 among them, from data bytes.
LEMMA HighBytes == /\ \A w \in 0..127 : ~High(w)
                   /\ \A w \in 128..255 : High(w)
                   /\ High(SOX) /\ High(EOX) /\ SOX # EOX
  BY DEF High, SOX, EOX

\* A SysEx of which j bytes are behind.
Inside(m, j) == /\ IsSysex(m)
                /\ Len(m) \in Nat /\ Len(m) >= 2
                /\ j >= 1 /\ j <= Len(m) - 1
                /\ m[1] = SOX /\ m[Len(m)] = EOX
                /\ \A a \in 2..Len(m)-1 : ~High(m[a])

\* The bytes of a SysEx of which some are behind and some are not.
LEMMA WithinBytes ==
  ASSUME NEW s \in Seq(Messages), NEW k \in Nat, NEW j \in Nat, Within(s, k, j)
  PROVE  \E m \in Messages : m = s[k + 1] /\ Inside(m, j)
<1>1. Len(s) \in Nat /\ k < Len(s)
  BY LenProperties DEF Within
<1>2. s[k + 1] \in Messages
  BY <1>1, ElementOfSeq
<1>3. PICK m \in Messages : m = s[k + 1]
  BY <1>2
<1>4. IsSysex(m) /\ j \in 1..Len(m)-1
  BY <1>3 DEF Within
<1>5. /\ Len(m) \in Nat /\ Len(m) >= 2
      /\ m[1] = SOX /\ m[Len(m)] = EOX
  BY <1>4, MessageBytes DEF IsSysex
<1>6. ASSUME NEW a \in 2..Len(m)-1 PROVE ~High(m[a])
  <2>1. m[a] \in 0..127
    BY <1>4, SysexBytes
  <2> QED
    BY <2>1, HighBytes
<1>7. j >= 1 /\ j <= Len(m) - 1
  BY <1>4, <1>5
<1>8. Inside(m, j)
  BY <1>4, <1>5, <1>6, <1>7, Zenon DEF Inside
<1> QED
  BY <1>3, <1>8

\* What Continues says of message m and its last data byte n.
GoesOn(s, b, x, k, j, t, j2, m, n) ==
  /\ m = s[k + 1] /\ Inside(m, j) /\ Within(s, k, j)
  /\ n = Len(m) - 1 /\ j <= n
  /\ \/ /\ t = k /\ Within(s, k, j2) /\ j <= j2 /\ j2 <= n
        /\ Len(b) = x + (j2 - j) - 1
        /\ Copies(b, x - j - 1, m, j + 1, j2)
     \/ /\ Copies(b, x - j - 1, m, j + 1, n)
        /\ Closes(s, b, x + (n - j), k + 1, t, j2)

\* A SysEx goes on with a data byte, with its F7, with a timestamp before the
\* F7, or not at all in this packet.
LEMMA ContinuesShape ==
  ASSUME NEW s \in Seq(Messages), NEW b \in Seq(Byte), NEW x \in Nat,
         NEW k \in Nat, NEW j \in Nat, NEW t \in Nat, NEW j2 \in Nat
  PROVE  Continues(s, b, x, k, j, t, j2) =>
           \E m \in Messages, n \in Nat : GoesOn(s, b, x, k, j, t, j2, m, n)
<1>0. SUFFICES ASSUME Continues(s, b, x, k, j, t, j2)
               PROVE  \E m \in Messages, n \in Nat :
                        GoesOn(s, b, x, k, j, t, j2, m, n)
  BY Zenon
<1>1. Within(s, k, j)
  BY <1>0 DEF Continues
<1>2. PICK m \in Messages : m = s[k + 1] /\ Inside(m, j)
  BY <1>1, WithinBytes
<1>3. PICK n \in Nat : n = Len(m) - 1 /\ j <= n /\ x + Len(m) - 1 - j = x + (n - j)
  <2>1. Len(m) \in Nat /\ j >= 1 /\ j <= Len(m) - 1
    BY <1>2, Zenon DEF Inside
  <2>2. Len(m) - 1 \in Nat /\ x + Len(m) - 1 - j = x + ((Len(m) - 1) - j)
    BY <2>1
  <2> QED
    BY <2>1, <2>2
<1>4. Within(s, k, j2) => j2 <= n
  <2>1. Within(s, k, j2) => j2 \in 1..n
    BY <1>2, <1>3, Zenon DEF Within
  <2> QED
    BY <2>1
<1>5. \/ /\ t = k /\ Within(s, k, j2) /\ j <= j2
         /\ Len(b) = x + (j2 - j) - 1
         /\ Copies(b, x - j - 1, m, j + 1, j2)
      \/ /\ Copies(b, x - j - 1, m, j + 1, n)
         /\ Closes(s, b, x + (n - j), k + 1, t, j2)
  BY <1>0, <1>2, <1>3, Zenon DEF Continues
<1> QED
  BY <1>1, <1>2, <1>3, <1>4, <1>5, Zenon DEF GoesOn

\* The bytes of a SysEx up to n are data.
LEMMA NextIsData ==
  ASSUME NEW m \in Messages, NEW b \in Seq(Byte), NEW x \in Nat,
         NEW j \in Nat, NEW n \in Nat, NEW h \in Nat,
         Inside(m, j), n = Len(m) - 1, j < h, h <= n,
         Copies(b, x - j - 1, m, j + 1, h)
  PROVE  b[x] = m[j + 1] /\ ~High(b[x])
<1>1. b[(x - j - 1) + (j + 1)] = m[j + 1]
  BY DEF Copies
<1>2. (x - j - 1) + (j + 1) = x
  OBVIOUS
<1>3. Len(m) \in Nat /\ j >= 1
  BY Zenon DEF Inside
<1>4. j + 1 \in 2..Len(m)-1
  BY <1>3
<1>5. ~High(m[j + 1])
  BY <1>4, Zenon DEF Inside
<1> QED
  BY <1>1, <1>2, <1>5

\* A SysEx goes on with a data byte.
LEMMA ContinuesData ==
  ASSUME NEW s \in Seq(Messages), NEW b \in Seq(Byte), NEW x \in Nat,
         NEW k \in Nat, NEW j \in Nat, NEW t \in Nat, NEW j2 \in Nat,
         x <= Len(b), ~High(b[x])
  PROVE  Continues(s, b, x, k, j, t, j2)
           => /\ Continues(s, b, x + 1, k, j + 1, t, j2)
              /\ b[x] = s[k + 1][j + 1]
              /\ Within(s, k, j + 1)
<1>0. SUFFICES ASSUME NEW m \in Messages, NEW n \in Nat,
                      GoesOn(s, b, x, k, j, t, j2, m, n)
               PROVE  /\ Continues(s, b, x + 1, k, j + 1, t, j2)
                      /\ b[x] = s[k + 1][j + 1]
                      /\ Within(s, k, j + 1)
  BY ContinuesShape, Zenon
<1>1. m = s[k + 1] /\ Within(s, k, j)
  BY <1>0, Zenon DEF GoesOn
<1>m. Inside(m, j) /\ n = Len(m) - 1 /\ j <= n
  BY <1>0, Zenon DEF GoesOn
<1>2. /\ (x - j - 1) + (j + 1) = x
      /\ (x + 1) - (j + 1) - 1 = x - j - 1
      /\ (x + 1) + (n - (j + 1)) = x + (n - j)
      /\ j = n => x + (n - j) = x
      /\ Len(b) \in Nat
  BY LenProperties
<1>3. Len(m) \in Nat
  BY <1>m, Zenon DEF Inside
<1>4. (x + 1) + Len(m) - 1 - (j + 1) = x + (n - j)
  BY <1>m, <1>3
<1>5. j + 1 <= n => Within(s, k, j + 1)
  <2>1. j + 1 <= n => j + 1 \in 1..Len(m)-1
    BY <1>m, <1>3
  <2> QED
    BY <1>1, <2>1, Zenon DEF Within
<1>6. \A h \in Nat : Copies(b, x - j - 1, m, j + 1, h)
                     => Copies(b, (x + 1) - (j + 1) - 1, m, (j + 1) + 1, h)
  <2>1. \A h \in Nat : \A a \in (j+1)+1..h : a \in j+1..h
    OBVIOUS
  <2> QED
    BY <1>2, <2>1, Zenon DEF Copies
<1>7. CASE /\ t = k /\ Within(s, k, j2) /\ j <= j2 /\ j2 <= n
           /\ Len(b) = x + (j2 - j) - 1
           /\ Copies(b, x - j - 1, m, j + 1, j2)
  <2>1. j < j2
    BY <1>2, <1>7
  <2>0. Copies(b, x - j - 1, m, j + 1, j2) /\ j2 <= n
    BY <1>7, Zenon
  <2>2. b[x] = m[j + 1]
    <3>1. j + 1 \in j+1..j2
      BY <2>1
    <3> QED
      BY <1>2, <2>0, <3>1, Zenon DEF Copies
  <2>3. j + 1 <= j2 /\ j + 1 <= n /\ Len(b) = (x + 1) + (j2 - (j + 1)) - 1
    BY <1>7, <2>1
  <2> QED
    BY <1>1, <1>m, <1>5, <1>6, <1>7, <2>2, <2>3, Zenon DEF Continues
<1>8. CASE /\ Copies(b, x - j - 1, m, j + 1, n)
           /\ Closes(s, b, x + (n - j), k + 1, t, j2)
  <2>1. j # n
    BY <1>2, <1>8, HighBytes, Zenon DEF Closes
  <2>2. j < n /\ j + 1 <= n /\ n <= n
    BY <1>m, <2>1
  <2>3. b[x] = m[j + 1]
    <3>1. j + 1 \in j+1..n
      BY <2>2
    <3> QED
      BY <1>2, <1>8, <3>1, Zenon DEF Copies
  <2> QED
    BY <1>1, <1>m, <1>4, <1>5, <1>6, <1>8, <2>2, <2>3, Zenon DEF Continues
<1> QED
  BY <1>0, <1>7, <1>8, Zenon DEF GoesOn

\* The F7 at x ends message k + 1, and the next message starts.
Ended(s, b, x, k, j, t, j2) ==
  /\ Within(s, k, j) /\ j = Len(s[k + 1]) - 1
  /\ \/ Starts(s, b, x + 1, k + 1, t, j2, 0)
     \/ x + 1 = Len(b) /\ High(b[x + 1]) /\ t = k + 1 /\ j2 = 0

\* A SysEx goes on with F7: all its data are behind.
LEMMA ContinuesEnds ==
  ASSUME NEW s \in Seq(Messages), NEW b \in Seq(Byte), NEW x \in Nat,
         NEW k \in Nat, NEW j \in Nat, NEW t \in Nat, NEW j2 \in Nat,
         x <= Len(b), b[x] = EOX
  PROVE  Continues(s, b, x, k, j, t, j2)
           => Ended(s, b, x, k, j, t, j2)
<1>0. SUFFICES ASSUME NEW m \in Messages, NEW n \in Nat,
                      GoesOn(s, b, x, k, j, t, j2, m, n)
               PROVE  Ended(s, b, x, k, j, t, j2)
  BY ContinuesShape, Zenon
<1>1. m = s[k + 1] /\ Within(s, k, j)
  BY <1>0, Zenon DEF GoesOn
<1>m. Inside(m, j) /\ n = Len(m) - 1 /\ j <= n
  BY <1>0, Zenon DEF GoesOn
<1>2. Len(b) \in Nat /\ High(b[x])
  BY LenProperties, HighBytes
<1>3. CASE /\ t = k /\ Within(s, k, j2) /\ j <= j2 /\ j2 <= n
           /\ Len(b) = x + (j2 - j) - 1
           /\ Copies(b, x - j - 1, m, j + 1, j2)
  <2>1. j < j2
    BY <1>2, <1>3
  <2>2. Copies(b, x - j - 1, m, j + 1, j2) /\ j2 <= n
    BY <1>3, Zenon
  <2> QED
    BY <1>m, <1>2, <2>1, <2>2, NextIsData
<1>4. CASE /\ Copies(b, x - j - 1, m, j + 1, n)
           /\ Closes(s, b, x + (n - j), k + 1, t, j2)
  <2>1. j = n
    <3>1. Copies(b, x - j - 1, m, j + 1, n)
      BY <1>4, Zenon
    <3>2. j < n => FALSE
      BY <1>m, <1>2, <3>1, NextIsData
    <3> QED
      BY <1>m, <3>2
  <2>2. x + (n - j) = x
    BY <2>1
  <2> QED
    BY <1>1, <1>m, <1>4, <2>1, <2>2, HighBytes, Zenon DEF Closes, Ended
<1> QED
  BY <1>0, <1>3, <1>4, Zenon DEF GoesOn

\* It goes on with a timestamp: the F7 comes next.
LEMMA ContinuesSkips ==
  ASSUME NEW s \in Seq(Messages), NEW b \in Seq(Byte), NEW x \in Nat,
         NEW k \in Nat, NEW j \in Nat, NEW t \in Nat, NEW j2 \in Nat,
         x <= Len(b), High(b[x]), b[x] # EOX
  PROVE  Continues(s, b, x, k, j, t, j2) => Continues(s, b, x + 1, k, j, t, j2)
<1>0. SUFFICES ASSUME NEW m \in Messages, NEW n \in Nat,
                      GoesOn(s, b, x, k, j, t, j2, m, n)
               PROVE  Continues(s, b, x + 1, k, j, t, j2)
  BY ContinuesShape, Zenon
<1>1. m = s[k + 1] /\ Within(s, k, j)
  BY <1>0, Zenon DEF GoesOn
<1>m. Inside(m, j) /\ n = Len(m) - 1 /\ j <= n
  BY <1>0, Zenon DEF GoesOn
<1>2. Len(b) \in Nat
  BY LenProperties
<1>3. CASE /\ t = k /\ Within(s, k, j2) /\ j <= j2 /\ j2 <= n
           /\ Len(b) = x + (j2 - j) - 1
           /\ Copies(b, x - j - 1, m, j + 1, j2)
  <2>1. j < j2
    BY <1>2, <1>3
  <2>2. Copies(b, x - j - 1, m, j + 1, j2) /\ j2 <= n
    BY <1>3, Zenon
  <2> QED
    BY <1>m, <2>1, <2>2, NextIsData
<1>4. CASE /\ Copies(b, x - j - 1, m, j + 1, n)
           /\ Closes(s, b, x + (n - j), k + 1, t, j2)
  <2>1. j = n
    <3>1. Copies(b, x - j - 1, m, j + 1, n)
      BY <1>4, Zenon
    <3>2. j < n => FALSE
      BY <1>m, <3>1, NextIsData
    <3> QED
      BY <1>m, <3>2
  <2>2. x + (n - j) = x /\ x + 2 = (x + 1) + 1
    BY <2>1
  <2>3. x < Len(b) /\ b[x + 1] = EOX /\ Starts(s, b, (x + 1) + 1, k + 1, t, j2, 0)
    BY <1>4, <2>2, Zenon DEF Closes
  <2>4. x + 1 <= Len(b)
    BY <1>2, <2>3
  <2>5. Closes(s, b, x + 1, k + 1, t, j2)
    BY <2>3, <2>4, Zenon DEF Closes
  <2>6. (x + 1) + Len(m) - 1 - j = x + 1
    <3>1. Len(m) \in Nat
      BY <1>m, Zenon DEF Inside
    <3> QED
      BY <1>m, <2>1, <3>1
  <2>7. Copies(b, (x + 1) - j - 1, m, j + 1, Len(m) - 1)
    <3>1. \A a \in j+1..Len(m)-1 : FALSE
      BY <1>m, <2>1
    <3> QED
      BY <3>1, Zenon DEF Copies
  <2> QED
    BY <1>1, <2>5, <2>6, <2>7, Zenon DEF Continues
<1> QED
  BY <1>0, <1>3, <1>4, Zenon DEF GoesOn

\* The packet ends with the SysEx open.
LEMMA ContinuesPauses ==
  ASSUME NEW s \in Seq(Messages), NEW b \in Seq(Byte), NEW x \in Nat,
         NEW k \in Nat, NEW j \in Nat, NEW t \in Nat, NEW j2 \in Nat,
         x = Len(b) + 1
  PROVE  Continues(s, b, x, k, j, t, j2) => t = k /\ j2 = j /\ Within(s, k, j)
<1>0. SUFFICES ASSUME NEW m \in Messages, NEW n \in Nat,
                      GoesOn(s, b, x, k, j, t, j2, m, n)
               PROVE  t = k /\ j2 = j /\ Within(s, k, j)
  BY ContinuesShape, Zenon
<1>1. Within(s, k, j)
  BY <1>0, Zenon DEF GoesOn
<1>m. j <= n
  BY <1>0, Zenon DEF GoesOn
<1>2. Len(b) \in Nat
  BY LenProperties
<1>3. CASE t = k /\ j <= j2 /\ Len(b) = x + (j2 - j) - 1
  <2>1. j2 = j
    BY <1>2, <1>3
  <2> QED
    BY <1>1, <1>3, <2>1
<1>4. CASE Closes(s, b, x + (n - j), k + 1, t, j2)
  <2>0. PICK d \in Nat : d = n - j
    BY <1>m
  <2>1. PICK e \in Nat : e = x + d /\ e > Len(b)
    BY <1>2
  <2>2. ~(e <= Len(b)) /\ ~(e < Len(b)) /\ ~(Len(b) = e + 1)
    BY <1>2, <2>1
  <2> QED
    BY <1>4, <2>0, <2>1, <2>2, Zenon DEF Closes
<1> QED
  BY <1>0, <1>3, <1>4, Zenon DEF GoesOn

-----------------------------------------------------------------------------
(* Messages framed later do not move what is laid out. *)

\* s2 is s, perhaps with more messages behind.
Extends(s, s2) == Len(s) <= Len(s2) /\ \A a \in 1..Len(s) : s2[a] = s[a]

\* Messages framed later leave the open SysEx where it was.
LEMMA WithinGrows ==
  ASSUME NEW s \in Seq(Messages), NEW s2 \in Seq(Messages), Extends(s, s2),
         NEW k \in Nat, NEW j \in Nat, Within(s, k, j)
  PROVE  Within(s2, k, j) /\ s2[k + 1] = s[k + 1]
<1>1. Len(s) \in Nat /\ Len(s2) \in Nat /\ k < Len(s) /\ Len(s) <= Len(s2)
  BY LenProperties DEF Within, Extends
<1>2. k + 1 \in 1..Len(s) /\ k < Len(s2)
  BY <1>1
<1>3. s2[k + 1] = s[k + 1]
  BY <1>2, Zenon DEF Extends
<1> QED
  BY <1>2, <1>3, Zenon DEF Within

\* A packet stays laid out as it was.
LEMMA LaidGrows ==
  ASSUME NEW s \in Seq(Messages), NEW s2 \in Seq(Messages), Extends(s, s2),
         NEW b \in Seq(Byte), NEW c \in [Nat -> Nat], NEW k \in Nat,
         NEW t \in Nat, NEW j \in Nat, NEW r \in Nat
  PROVE  Laid(s, b, c, k, t, j, r) => Laid(s2, b, c, k, t, j, r)
<1>0. SUFFICES ASSUME Laid(s, b, c, k, t, j, r) PROVE Laid(s2, b, c, k, t, j, r)
  OBVIOUS
<1>1. k <= t /\ t <= Len(s)
  BY <1>0, Zenon DEF Laid
<1>2. Len(s) \in Nat /\ Len(s2) \in Nat /\ Len(s) <= Len(s2)
  BY LenProperties DEF Extends
<1>3. t <= Len(s2)
  BY <1>1, <1>2
<1>4. \A q \in k..t-1 : q + 1 \in 1..Len(s) /\ q \in Nat
  BY <1>1, <1>2
<1>5. \A q \in k..t-1 : s2[q + 1] = s[q + 1]
  BY <1>4, Zenon DEF Extends
<1>6. \A q \in k..t-1 : Ready(s, k, q, r) => Ready(s2, k, q, r)
  <2> SUFFICES ASSUME NEW q \in k..t-1 PROVE Ready(s, k, q, r) => Ready(s2, k, q, r)
    OBVIOUS
  <2>1. \A n \in k+1..q : n \in 1..Len(s)
    BY <1>1, <1>2
  <2>2. \A j1 \in k+1..q : \A n \in j1+1..q : n \in 1..Len(s)
    BY <1>1, <1>2
  <2>3. \A n \in k+1..q : s2[n] = s[n]
    BY <2>1, Zenon DEF Extends
  <2>4. \A j1 \in k+1..q : \A n \in j1+1..q : s2[n] = s[n]
    BY <2>2, Zenon DEF Extends
  <2>5. s2[q + 1] = s[q + 1]
    BY <1>5
  <2>6. CASE r = s[q + 1][1] /\ \A n \in k+1..q : s[n][1] >= 248
    BY <2>3, <2>5, <2>6, Zenon DEF Ready
  <2>7. ASSUME NEW j1 \in k+1..q, s[j1][1] = s[q + 1][1],
               \A n \in j1+1..q : s[n][1] >= 248, s[q + 1][1] < SOX
        PROVE  Ready(s2, k, q, r)
    <3>1. \A n \in j1+1..q : s2[n][1] >= 248
      BY <2>4, <2>7
    <3>2. s2[j1][1] = s2[q + 1][1] /\ s2[q + 1][1] < SOX
      BY <2>3, <2>5, <2>7
    <3> QED
      BY <3>1, <3>2, Zenon DEF Ready
  <2> QED
    BY <2>6, <2>7, Zenon DEF Ready
<1>7. Within(s, t, j) => Within(s2, t, j) /\ s2[t + 1] = s[t + 1]
  BY WithinGrows
<1> QED
  BY <1>0, <1>1, <1>3, <1>5, <1>6, <1>7, Zenon DEF Laid

\* What runs after a channel, a system common and a real-time message.
LEMMA RunsFacts ==
  \A r, status : status \in 128..255 =>
    /\ status < SOX => Runs(r, status) = status
    /\ status >= 248 => Runs(r, status) = r
    /\ status = SOX => Runs(r, status) = 0
  BY DEF Runs, SOX

\* When a message is behind, the rest is laid out from the next one on.
LEMMA LaidNext ==
  ASSUME NEW s \in Seq(Messages), NEW b \in Seq(Byte), NEW c \in [Nat -> Nat],
         NEW k \in Nat, NEW t \in Nat, NEW j \in Nat, NEW r \in Nat, k < t
  PROVE  Laid(s, b, c, k, t, j, r)
           => Laid(s, b, c, k + 1, t, j, Runs(r, s[k + 1][1]))
<1>0. SUFFICES ASSUME Laid(s, b, c, k, t, j, r)
               PROVE  Laid(s, b, c, k + 1, t, j, Runs(r, s[k + 1][1]))
  OBVIOUS
<1>1. t <= Len(s)
  BY <1>0, Zenon DEF Laid
<1>2. Len(s) \in Nat
  BY LenProperties
<1>3. k + 1 \in 1..Len(s) /\ k + 1 <= t
  BY <1>1, <1>2
<1>4. PICK status \in 128..255 : status = s[k + 1][1]
  <2>1. s[k + 1] \in Messages
    BY <1>3, ElementOfSeq
  <2> QED
    BY <2>1, MessageBytes
<1>5. \A q \in k+1..t : q \in k..t
  OBVIOUS
<1>6. \A q \in k+1..t-1 : q \in k..t-1
  OBVIOUS
<1>7. ASSUME NEW q \in k+1..t-1, Ready(s, k, q, r)
      PROVE  Ready(s, k + 1, q, Runs(r, s[k + 1][1]))
  <2>1. \A n \in (k+1)+1..q : n \in k+1..q
    OBVIOUS
  <2>2. k + 1 \in k+1..q
    OBVIOUS
  <2>3. CASE r = s[q + 1][1] /\ \A n \in k+1..q : s[n][1] >= 248
    <3>1. status >= 248
      BY <1>4, <2>2, <2>3
    <3>2. Runs(r, status) = r
      BY <3>1, RunsFacts
    <3> QED
      BY <1>4, <1>7, <2>1, <2>3, <3>2, Zenon DEF Ready
  <2>4. ASSUME NEW j1 \in k+1..q, s[j1][1] = s[q + 1][1],
               \A n \in j1+1..q : s[n][1] >= 248
        PROVE  Ready(s, k + 1, q, Runs(r, s[k + 1][1]))
    <3>1. CASE j1 = k + 1
      <4>1. status < SOX
        BY <1>4, <1>7, <2>4, <3>1, Zenon DEF Ready
      <4>2. Runs(r, status) = status
        BY <4>1, RunsFacts
      <4> QED
        BY <1>4, <1>7, <2>4, <3>1, <4>2, Zenon DEF Ready
    <3>2. CASE j1 # k + 1
      <4>1. j1 \in (k+1)+1..q
        BY <3>2
      <4> QED
        BY <1>7, <2>4, <4>1, Zenon DEF Ready
    <3> QED
      BY <3>1, <3>2
  <2> QED
    BY <1>7, <2>3, <2>4, Zenon DEF Ready
<1> QED
  BY <1>0, <1>3, <1>5, <1>6, <1>7, Zenon DEF Laid

\* Nothing has to be running before the first message of a packet.
LEMMA LaidAnyRunning ==
  ASSUME NEW s \in Seq(Messages), NEW b \in Seq(Byte), NEW c \in [Nat -> Nat],
         NEW k \in Nat, NEW t \in Nat, NEW j \in Nat, NEW r \in Nat
  PROVE  Laid(s, b, c, k, t, j, 0) => Laid(s, b, c, k, t, j, r)
<1>0. SUFFICES ASSUME Laid(s, b, c, k, t, j, 0) PROVE Laid(s, b, c, k, t, j, r)
  OBVIOUS
<1>1. t <= Len(s) /\ Len(s) \in Nat
  BY <1>0, LenProperties, Zenon DEF Laid
<1>2. ASSUME NEW q \in k..t-1, Ready(s, k, q, 0)
      PROVE  Ready(s, k, q, r)
  <2>1. q + 1 \in 1..Len(s)
    BY <1>1
  <2>2. s[q + 1] \in Messages
    BY <2>1, ElementOfSeq
  <2>a. PICK status \in 128..255 : status = s[q + 1][1]
    BY <2>2, MessageBytes
  <2>b. status # 0
    OBVIOUS
  <2>3. s[q + 1][1] # 0
    BY <2>a, <2>b, Zenon
  <2> QED
    BY <1>2, <2>3, Zenon DEF Ready
<1> QED
  BY <1>0, <1>2, Zenon DEF Laid

\* A packet that starts messages stays laid out as it was.
LEMMA StartsGrows ==
  ASSUME NEW s \in Seq(Messages), NEW s2 \in Seq(Messages), Extends(s, s2),
         NEW b \in Seq(Byte), NEW x \in Nat, NEW k \in Nat,
         NEW t \in Nat, NEW j \in Nat, NEW r \in Nat
  PROVE  Starts(s, b, x, k, t, j, r) => Starts(s2, b, x, k, t, j, r)
<1> SUFFICES ASSUME NEW c \in [Nat -> Nat], c[k] = x, Laid(s, b, c, k, t, j, r)
             PROVE  \E c2 \in [Nat -> Nat] : c2[k] = x /\ Laid(s2, b, c2, k, t, j, r)
  BY Zenon DEF Starts
<1>1. Laid(s2, b, c, k, t, j, r)
  BY LaidGrows
<1> QED
  BY <1>1, Zenon

\* Nothing has to be running where a packet starts.
LEMMA StartsAnyRunning ==
  ASSUME NEW s \in Seq(Messages), NEW b \in Seq(Byte), NEW x \in Nat,
         NEW k \in Nat, NEW t \in Nat, NEW j \in Nat, NEW r \in Nat
  PROVE  Starts(s, b, x, k, t, j, 0) => Starts(s, b, x, k, t, j, r)
<1> SUFFICES ASSUME NEW c \in [Nat -> Nat], c[k] = x, Laid(s, b, c, k, t, j, 0)
             PROVE  \E c2 \in [Nat -> Nat] : c2[k] = x /\ Laid(s, b, c2, k, t, j, r)
  BY Zenon DEF Starts
<1>1. Laid(s, b, c, k, t, j, r)
  BY LaidAnyRunning
<1> QED
  BY <1>1, Zenon

\* A packet that continues a SysEx stays laid out as it was.
LEMMA ContinuesGrows ==
  ASSUME NEW s \in Seq(Messages), NEW s2 \in Seq(Messages), Extends(s, s2),
         NEW b \in Seq(Byte), NEW x \in Nat, NEW k \in Nat,
         NEW t \in Nat, NEW j \in Nat, NEW j2 \in Nat
  PROVE  Continues(s, b, x, k, j, t, j2) => Continues(s2, b, x, k, j, t, j2)
<1>0. SUFFICES ASSUME NEW m \in Messages, NEW n \in Nat,
                      GoesOn(s, b, x, k, j, t, j2, m, n)
               PROVE  Continues(s2, b, x, k, j, t, j2)
  BY ContinuesShape, Zenon
<1>1. m = s[k + 1] /\ Within(s, k, j)
  BY <1>0, Zenon DEF GoesOn
<1>m. Inside(m, j) /\ n = Len(m) - 1 /\ j <= n
  BY <1>0, Zenon DEF GoesOn
<1>2. Within(s2, k, j) /\ s2[k + 1] = m
  BY <1>1, WithinGrows
<1>3. Within(s, k, j2) => Within(s2, k, j2)
  BY WithinGrows
<1>4. PICK e \in Nat : e = x + (n - j) /\ e = x + Len(m) - 1 - j
  <2>1. Len(m) \in Nat
    BY <1>m, Zenon DEF Inside
  <2>2. n = Len(m) - 1 /\ j <= n
    BY <1>m
  <2>3. x + (n - j) \in Nat /\ x + (n - j) = x + Len(m) - 1 - j
    BY <2>1, <2>2
  <2> QED
    BY <2>3, Zenon
<1>5. Closes(s, b, e, k + 1, t, j2) => Closes(s2, b, e, k + 1, t, j2)
  <2>1. Starts(s, b, e + 1, k + 1, t, j2, 0) => Starts(s2, b, e + 1, k + 1, t, j2, 0)
    BY StartsGrows, SMTT(30)
  <2>2. Starts(s, b, e + 2, k + 1, t, j2, 0) => Starts(s2, b, e + 2, k + 1, t, j2, 0)
    BY StartsGrows, SMTT(30)
  <2> QED
    BY <2>1, <2>2, Zenon DEF Closes
<1>6. CASE /\ t = k /\ Within(s, k, j2) /\ j <= j2 /\ j2 <= n
           /\ Len(b) = x + (j2 - j) - 1
           /\ Copies(b, x - j - 1, m, j + 1, j2)
  BY <1>2, <1>3, <1>6, Zenon DEF Continues
<1>7. CASE /\ Copies(b, x - j - 1, m, j + 1, n)
           /\ Closes(s, b, x + (n - j), k + 1, t, j2)
  BY <1>m, <1>2, <1>4, <1>5, <1>7, Zenon DEF Continues
<1> QED
  BY <1>0, <1>6, <1>7, Zenon DEF GoesOn

\* A turn of the loop at a message: its status is found, and if the message
\* is no SysEx all of it.
Turns(m, y) ==
  /\ HasMessage /\ Status = m[1]
  /\ IF IsSysex(m) THEN First = i + 2
     ELSE /\ Status # SOX /\ Complete
          /\ First + dataLen(Status) = y
          /\ <<Status>> \o SubSeq(p, First, First + dataLen(Status) - 1) = m

\* One turn of the decoder's loop takes a message that is no SysEx, elided status
\* or not, and ends where the next one begins.
LEMMA PlainTurn ==
  ASSUME p \in Seq(Byte), i \in Nat,
         NEW m \in Messages, ~IsSysex(m), NEW y \in Nat, y <= Len(p) + 1,
         NEW f \in Nat, f >= 2, f + (Len(m) - 1) = y,
         Copies(p, f - 2, m, 2, Len(m)),
         HasMessage, Status = m[1], First = f
  PROVE  Turns(m, y)
<1>1. /\ m \in Seq(Byte) /\ Len(m) \in Nat /\ Len(m) >= 1 /\ Len(p) \in Nat
  BY MessageBytes, LenProperties
<1>2. PICK d \in 0..2 : d = dataLen(m[1]) /\ Len(m) = 1 + d
  BY PlainBytes
<1>3. m[1] # SOX
  BY PlainBytes DEF SOX
<1>4. f + d = y
  BY <1>1, <1>2
<1>c. Complete
  BY <1>2, <1>4 DEF Complete
<1> DEFINE data == SubSeq(p, f, f + d - 1)
<1>5. /\ data \in Seq(Byte) /\ Len(data) = d
      /\ \A a \in 1..d : data[a] = p[f + a - 1]
  <2>1. \A a \in f..f+d-1 : a \in 1..Len(p)
    BY <1>1, <1>4
  <2>2. \A a \in f..f+d-1 : p[a] \in Byte
    BY <2>1, ElementOfSeq
  <2>3. f \in Int /\ f + d - 1 \in Int
    OBVIOUS
  <2>4. data \in Seq(Byte) /\ Len(data) = IF f <= f + d - 1 THEN (f + d - 1) - f + 1 ELSE 0
    BY <2>2, <2>3, SubSeqProperties
  <2>5. Len(data) = d
    BY <2>4
  <2>6. \A a \in 1..(f + d - 1) - f + 1 : data[a] = p[f + a - 1]
    BY <2>2, <2>3, SubSeqProperties
  <2>7. \A a \in 1..d : a \in 1..(f + d - 1) - f + 1
    <3>1. (f + d - 1) - f + 1 = d
      OBVIOUS
    <3> QED
      BY <3>1, Zenon
  <2> QED
    BY <2>4, <2>5, <2>6, <2>7
<1>6. PICK w \in Byte : w = m[1]
  <2>1. m[1] \in Byte
    BY MessageBytes DEF Byte
  <2> QED
    BY <2>1, Zenon
<1>7. /\ <<w>> \in Seq(Byte) /\ Len(<<w>>) = 1 /\ <<w>>[1] = w
  OBVIOUS
<1>8. /\ <<w>> \o data \in Seq(Byte) /\ Len(<<w>> \o data) = 1 + d
      /\ (<<w>> \o data)[1] = w
      /\ \A a \in 2..1+d : (<<w>> \o data)[a] = data[a - 1]
  <2> HIDE DEF data
  <2> QED
    BY <1>5, <1>7, ConcatProperties
<1>9. \A a \in 2..1+d : (<<w>> \o data)[a] = m[a]
  <2> SUFFICES ASSUME NEW a \in 2..1+d PROVE (<<w>> \o data)[a] = m[a]
    OBVIOUS
  <2>1. a - 1 \in 1..d /\ a \in 2..Len(m) /\ (f - 2) + a = f + (a - 1) - 1
    BY <1>2
  <2>2. p[(f - 2) + a] = m[a]
    BY <2>1, Zenon DEF Copies
  <2> QED
    BY <1>5, <1>8, <2>1, <2>2, Zenon
<1>10. <<w>> \o data = m
  <2> HIDE DEF data
  <2>1. \A a \in 1..Len(m) : a = 1 \/ a \in 2..1+d
    BY <1>2
  <2>3. \A a \in 1..Len(m) : (<<w>> \o data)[a] = m[a]
    BY <1>6, <1>8, <1>9, <2>1, Zenon
  <2>2. Len(<<w>> \o data) = Len(m)
    BY <1>2, <1>8
  <2> QED
    BY <1>1, <1>8, <2>2, <2>3, SeqEqual
<1>11. Status = w /\ dataLen(Status) = d
  BY <1>2, <1>6
<1> QED
  BY <1>3, <1>4, <1>c, <1>10, <1>11, <1>6, Zenon DEF Turns

\* A channel message has data.
LEMMA ChannelLength == \A w \in 128..255 : w < SOX => dataLen(w) >= 1
  BY DEF dataLen, SOX

\* One turn takes a whole message up to the next boundary, or only F0 of a SysEx.
LEMMA SegmentTurn ==
  ASSUME p \in Seq(Byte), i \in Nat, i >= 2, running \in Nat,
         NEW m \in Messages, NEW y \in Nat, y <= Len(p) + 1,
         Segment(p, i, y, m),
         y = i + Len(m) => running = m[1] /\ m[1] < SOX
  PROVE  Turns(m, y) /\ (IsSysex(m) => y # i + Len(m))
<1>1. /\ m \in Seq(Byte) /\ Len(m) \in Nat /\ Len(m) >= 1 /\ Len(p) \in Nat
  BY MessageBytes, LenProperties
<1>2. High(p[i])
  BY DEF Segment
<1>3. PICK w \in 128..255 : w = m[1]
  BY MessageBytes
<1>4. High(w) /\ w # 0
  <2>1. w # 0
    OBVIOUS
  <2> QED
    BY <2>1, HighBytes, Zenon
<1>5. IsSysex(m) => y # i + Len(m) /\ Len(m) >= 2 /\ w = SOX
  <2>1. IsSysex(m) => m[1] = 240 /\ Len(m) >= 2
    BY SysexBytes
  <2> QED
    BY <1>3, <2>1 DEF SOX
<1>6. ASSUME i + 1 <= Len(p), p[i + 1] = m[1]
      PROVE  HasMessage /\ Status = m[1] /\ First = i + 2
  <2>1. i <= Len(p)
    BY <1>1, <1>6
  <2>2. At = i + 1
    BY <1>2, <2>1 DEF At
  <2>3. Explicit
    BY <1>3, <1>4, <1>6, <2>2, Zenon DEF Explicit
  <2>4. Status = w
    BY <1>3, <1>6, <2>2, <2>3, Zenon DEF Status
  <2>5. First = i + 2
    BY <2>2, <2>3 DEF First
  <2> QED
    BY <1>3, <1>4, <1>6, <2>2, <2>4, <2>5, Zenon DEF HasMessage
<1>7. CASE y = i + 1 + Len(m) /\ Copies(p, i, m, 1, Len(m))
  <2>1. i + 1 <= Len(p) /\ 1 \in 1..Len(m)
    BY <1>1, <1>7
  <2>2. p[i + 1] = m[1]
    BY <1>7, <2>1, Zenon DEF Copies
  <2>3. HasMessage /\ Status = m[1] /\ First = i + 2
    BY <1>6, <2>1, <2>2
  <2>4. CASE IsSysex(m)
    BY <1>5, <2>3, <2>4, Zenon DEF Turns
  <2>5. CASE ~IsSysex(m)
    <3>1. (i + 2) - 2 = i /\ (i + 2) + (Len(m) - 1) = y /\ i + 2 \in Nat /\ i + 2 >= 2
      BY <1>1, <1>7
    <3>2. \A a \in 2..Len(m) : a \in 1..Len(m)
      OBVIOUS
    <3>3. Copies(p, (i + 2) - 2, m, 2, Len(m))
      BY <1>7, <3>1, <3>2, Zenon DEF Copies
    <3> QED
      BY <2>3, <2>5, <3>1, <3>3, PlainTurn
  <2> QED
    BY <2>4, <2>5
<1>8. CASE /\ IsSysex(m)
           /\ y = i + 2 + Len(m)
           /\ Copies(p, i, m, 1, Len(m) - 1)
  <2>1. i + 1 <= Len(p) /\ 1 \in 1..Len(m)-1
    BY <1>1, <1>5, <1>8
  <2>2. p[i + 1] = m[1]
    BY <1>8, <2>1, Zenon DEF Copies
  <2>3. HasMessage /\ Status = m[1] /\ First = i + 2
    BY <1>6, <2>1, <2>2
  <2> QED
    BY <1>5, <1>8, <2>3, Zenon DEF Turns
<1>9. CASE y = i + Len(m) /\ Copies(p, i - 1, m, 2, Len(m))
  <2>0. running = w /\ w < SOX
    BY <1>3, <1>9
  <2>1. ~IsSysex(m)
    BY <1>5, <1>9
  <2>2. PICK d \in 0..2 : d = dataLen(m[1]) /\ Len(m) = 1 + d
    BY <2>1, PlainBytes
  <2>3. d >= 1
    <3>1. d = dataLen(w)
      BY <1>3, <2>2
    <3>2. dataLen(w) >= 1
      BY <2>0, ChannelLength
    <3> QED
      BY <3>1, <3>2
  <2>4. i + 1 <= Len(p) /\ i <= Len(p) /\ (i - 1) + 2 = i + 1 /\ 2 \in 2..Len(m)
    <3>1. PICK l \in Nat : l = Len(m) /\ l = 1 + d
      BY <2>2
    <3>2. PICK lp \in Nat : lp = Len(p)
      BY LenProperties
    <3>3. y = i + l /\ y <= lp + 1
      BY <1>9, <3>1, <3>2
    <3>4. i + 1 <= lp /\ i <= lp /\ (i - 1) + 2 = i + 1 /\ 2 \in 2..l
      BY <2>3, <3>1, <3>3
    <3> QED
      BY <3>1, <3>2, <3>4, Zenon
  <2>5. p[i + 1] = m[2]
    BY <1>9, <2>4, Zenon DEF Copies
  <2>6. m[2] \in 0..127
    BY <2>1, <2>4, PlainBytes
  <2>7. ~High(p[i + 1])
    BY <2>5, <2>6, HighBytes
  <2>8. At = i + 1
    BY <1>2, <2>4 DEF At
  <2>9. ~Explicit
    BY <2>7, <2>8, Zenon DEF Explicit
  <2>10. Status = m[1] /\ First = i + 1
    BY <1>3, <2>0, <2>8, <2>9, Zenon DEF Status, First
  <2>11. HasMessage
    BY <1>3, <1>4, <2>4, <2>8, <2>10, Zenon DEF HasMessage
  <2>12. /\ i + 1 \in Nat /\ i + 1 >= 2 /\ (i + 1) + (Len(m) - 1) = y
         /\ (i + 1) - 2 = i - 1
    BY <1>1, <1>9
  <2>13. Copies(p, (i + 1) - 2, m, 2, Len(m))
    BY <1>9, <2>12, Zenon
  <2>14. Turns(m, y)
    BY <2>1, <2>10, <2>11, <2>12, <2>13, PlainTurn
  <2> QED
    BY <2>1, <2>14
<1> QED
  BY <1>5, <1>7, <1>8, <1>9, Zenon DEF Segment

\* A turn at a SysEx of which the first j bytes end the packet.
LEMMA OpeningTurn ==
  ASSUME p \in Seq(Byte), i \in Nat, NEW m \in Messages, NEW j \in Nat,
         IsSysex(m), j >= 1, Len(p) = i + j, High(p[i]), Copies(p, i, m, 1, j)
  PROVE  HasMessage /\ Status = SOX /\ First = i + 2
<1>1. i + 1 <= Len(p) /\ i <= Len(p) /\ 1 \in 1..j
  OBVIOUS
<1>2. p[i + 1] = SOX
  BY <1>1, SysexBytes DEF Copies, SOX
<1>3. At = i + 1
  BY <1>1 DEF At
<1>4. Explicit
  BY <1>1, <1>2, <1>3, HighBytes, Zenon DEF Explicit
<1>5. Status = SOX /\ SOX # 0
  BY <1>2, <1>3, <1>4 DEF Status, SOX
<1>6. First = i + 2
  BY <1>3, <1>4 DEF First
<1> QED
  BY <1>1, <1>3, <1>5, <1>6, Zenon DEF HasMessage

-----------------------------------------------------------------------------
(* One turn of the decoder's loop. *)

\* The decoder holds the first bytes of the next message.
Collected == /\ Within(sent, Len(out), Len(sysex))
             /\ \A a \in 1..Len(sysex) : sysex[a] = sent[Len(out) + 1][a]

\* When the packet is used up t messages are behind and j bytes of the next.
DecAt(t, j) ==
  \/ /\ dec = "idle" /\ t = Len(out)
     /\ inSysex => j = Len(sysex) /\ Collected
     /\ ~inSysex => j = 0
  \/ /\ dec = "sysex" /\ Collected
     /\ Continues(sent, p, i, Len(out), Len(sysex), t, j)
  \/ /\ dec = "loop"
     /\ \/ ~inSysex /\ Starts(sent, p, i, Len(out), t, j, running)
        \/ ~inSysex /\ i = Len(p) /\ High(p[i]) /\ t = Len(out) /\ j = 0
        \/ inSysex /\ i = Len(p) + 1 /\ t = Len(out) /\ j = Len(sysex) /\ Collected

\* What was handed on is what was framed, as far as it goes.
Matches == Len(out) <= Len(sent) /\ \A a \in 1..Len(out) : out[a] = sent[a]

\* The types of the sequences the proof reasons about.
LEMMA Types ==
  ASSUME IInv
  PROVE  /\ sent \in Seq(Messages) /\ Len(sent) \in Nat
         /\ out \in Seq(Seq(Byte)) /\ Len(out) \in Nat
         /\ sysex \in Seq(Byte) /\ Len(sysex) \in Nat
         /\ p \in Seq(Byte) /\ Len(p) \in Nat
         /\ i \in Nat /\ running \in Nat
         /\ dec # "idle" => i >= 2 /\ i <= Len(p) + 1
  BY LenProperties DEF IInv, TypeOK

\* The next message is handed on.
LEMMA Emits ==
  ASSUME IInv, Matches, Len(out) < Len(sent), sent' = sent,
         out' = Append(out, sent[Len(out) + 1])
  PROVE  Matches' /\ Len(out') = Len(out) + 1
<1>1. /\ sent \in Seq(Messages) /\ Len(sent) \in Nat
      /\ out \in Seq(Seq(Byte)) /\ Len(out) \in Nat
  BY Types
<1>2. Len(out) + 1 \in 1..Len(sent)
  BY <1>1
<1>3. sent[Len(out) + 1] \in Seq(Byte)
  <2>1. sent[Len(out) + 1] \in Messages
    BY <1>1, <1>2, ElementOfSeq
  <2> QED
    BY <2>1, MessageBytes
<1>4. /\ Len(out') = Len(out) + 1
      /\ out'[Len(out) + 1] = sent[Len(out) + 1]
      /\ \A a \in 1..Len(out) : out'[a] = out[a]
  BY <1>1, <1>3, AppendProperties
<1>5. \A a \in 1..Len(out') : a \in 1..Len(out) \/ a = Len(out) + 1
  BY <1>1, <1>4
<1>6. \A a \in 1..Len(out') : out'[a] = sent'[a]
  BY <1>4, <1>5, Zenon DEF Matches
<1>7. Len(out') <= Len(sent')
  BY <1>1, <1>4
<1> QED
  BY <1>4, <1>6, <1>7, Zenon DEF Matches

\* What a step inside the packet leaves alone.
LEMMA DecodesLeaves ==
  ASSUME IInv, NEW at \in {"sysex", "loop"}, NEW next \in {"idle", "sysex", "loop"},
         Decodes(at, next)
  PROVE  /\ dec = at /\ dec' = next /\ p' = p /\ sent' = sent
         /\ wire' = wire /\ enc' = enc /\ body' = body
         /\ stamp' = stamp /\ noisy' = noisy
  BY DEF Decodes, encVars, history

\* Line at a data byte of a SysEx.
LEMMA DataTracks ==
  ASSUME IInv, Matches, NEW t \in Nat, NEW j \in Nat, DecAt(t, j), SysexData
  PROVE  DecAt(t, j)' /\ Matches'
<1>1. /\ dec = "sysex" /\ dec' = "sysex" /\ p' = p /\ sent' = sent
      /\ i <= Len(p) /\ ~High(p[i])
      /\ sysex' = Append(sysex, p[i]) /\ i' = i + 1
      /\ out' = out
  <2>1. Decodes("sysex", "sysex")
    BY DEF SysexData
  <2> QED
    BY <2>1, DecodesLeaves DEF SysexData
<1>2. Collected /\ Continues(sent, p, i, Len(out), Len(sysex), t, j)
  BY <1>1, Zenon DEF DecAt
<1>3. /\ Continues(sent, p, i + 1, Len(out), Len(sysex) + 1, t, j)
      /\ p[i] = sent[Len(out) + 1][Len(sysex) + 1]
      /\ Within(sent, Len(out), Len(sysex) + 1)
  BY <1>1, <1>2, Types, ContinuesData
<1>4. /\ Len(sysex') = Len(sysex) + 1
      /\ sysex'[Len(sysex) + 1] = p[i]
      /\ \A a \in 1..Len(sysex) : sysex'[a] = sysex[a]
  <2>1. i \in 1..Len(p)
    BY <1>1, Types
  <2>2. p[i] \in Byte
    BY <2>1, Types, ElementOfSeq
  <2> QED
    BY <1>1, <2>2, Types, AppendProperties
<1>5. \A a \in 1..Len(sysex') : a \in 1..Len(sysex) \/ a = Len(sysex) + 1
  BY <1>4, Types
<1>6. \A a \in 1..Len(sysex') : sysex'[a] = sent[Len(out) + 1][a]
  BY <1>2, <1>3, <1>4, <1>5, Zenon DEF Collected
<1>7. Collected'
  BY <1>1, <1>3, <1>4, <1>6, Zenon DEF Collected
<1>8. DecAt(t, j)'
  BY <1>1, <1>3, <1>4, <1>7, Zenon DEF DecAt
<1>9. Matches'
  BY <1>1, Zenon DEF Matches
<1> QED
  BY <1>8, <1>9

\* Line at a timestamp inside a SysEx, which is skipped.
LEMMA SkipTracks ==
  ASSUME IInv, Matches, NEW t \in Nat, NEW j \in Nat, DecAt(t, j), SysexSkips
  PROVE  DecAt(t, j)' /\ Matches'
<1>1. /\ dec = "sysex" /\ dec' = "sysex" /\ p' = p /\ sent' = sent
      /\ i <= Len(p) /\ High(p[i]) /\ p[i] # EOX
      /\ sysex' = sysex /\ i' = i + 1
      /\ out' = out
  <2>1. Decodes("sysex", "sysex")
    BY DEF SysexSkips
  <2> QED
    BY <2>1, DecodesLeaves DEF SysexSkips, decoder
<1>2. Collected /\ Continues(sent, p, i, Len(out), Len(sysex), t, j)
  BY <1>1, Zenon DEF DecAt
<1>3. Continues(sent, p, i + 1, Len(out), Len(sysex), t, j)
  BY <1>1, <1>2, Types, ContinuesSkips
<1>4. Collected' /\ Matches'
  BY <1>1, <1>2, Zenon DEF Collected, Matches
<1>5. DecAt(t, j)'
  BY <1>1, <1>3, <1>4, Zenon DEF DecAt
<1> QED
  BY <1>4, <1>5

\* Line when a packet ends inside a SysEx.
LEMMA PauseTracks ==
  ASSUME IInv, Matches, NEW t \in Nat, NEW j \in Nat, DecAt(t, j), SysexPauses
  PROVE  DecAt(t, j)' /\ Matches'
<1>1. /\ dec = "sysex" /\ dec' = "loop" /\ p' = p /\ sent' = sent
      /\ i > Len(p)
      /\ sysex' = sysex /\ i' = i /\ out' = out /\ (inSysex' <=> inSysex)
  <2>1. Decodes("sysex", "loop")
    BY DEF SysexPauses
  <2>2. inSysex' <=> inSysex
    BY Zenon DEF SysexPauses, decoder
  <2>3. i > Len(p) /\ sysex' = sysex /\ i' = i /\ out' = out
    BY DEF SysexPauses, decoder
  <2> QED
    BY <2>1, <2>2, <2>3, DecodesLeaves
<1>2. Collected /\ Continues(sent, p, i, Len(out), Len(sysex), t, j)
  BY <1>1, Zenon DEF DecAt
<1>3. i = Len(p) + 1
  BY <1>1, Types
<1>4. t = Len(out) /\ j = Len(sysex)
  BY <1>2, <1>3, Types, ContinuesPauses, SMTT(30)
<1>5. Collected' /\ Matches'
  BY <1>1, <1>2, Zenon DEF Collected, Matches
<1>6. inSysex
  BY <1>1 DEF IInv, OpenSysex
<1>7. DecAt(t, j)'
  BY <1>1, <1>3, <1>4, <1>5, <1>6, Zenon DEF DecAt
<1> QED
  BY <1>5, <1>7

\* Line at the F7: the message is handed on and the next one is due.
LEMMA EndTracks ==
  ASSUME IInv, Matches, NEW t \in Nat, NEW j \in Nat, DecAt(t, j), SysexEnds
  PROVE  DecAt(t, j)' /\ Matches'
<1>1. /\ dec = "sysex" /\ dec' = "loop" /\ p' = p /\ sent' = sent
      /\ i <= Len(p) /\ p[i] = EOX
      /\ out' = Append(out, Append(sysex, EOX))
      /\ running' = 0 /\ i' = i + 1 /\ ~inSysex'
  <2>1. Decodes("sysex", "loop")
    BY DEF SysexEnds
  <2> QED
    BY <2>1, DecodesLeaves DEF SysexEnds
<1>2. Collected /\ Continues(sent, p, i, Len(out), Len(sysex), t, j)
  BY <1>1, Zenon DEF DecAt
<1>3. /\ Len(sysex) = Len(sent[Len(out) + 1]) - 1
      /\ Within(sent, Len(out), Len(sysex))
      /\ \/ Starts(sent, p, i + 1, Len(out) + 1, t, j, 0)
         \/ i + 1 = Len(p) /\ High(p[i + 1]) /\ t = Len(out) + 1 /\ j = 0
  <2>1. Ended(sent, p, i, Len(out), Len(sysex), t, j)
    BY <1>1, <1>2, Types, ContinuesEnds
  <2> QED
    BY <2>1, Zenon DEF Ended
<1>4. PICK m \in Messages : m = sent[Len(out) + 1] /\ Inside(m, Len(sysex))
  BY <1>3, Types, WithinBytes
<1>5. Append(sysex, EOX) = m
  <2>1. m \in Seq(Byte)
    BY MessageBytes
  <2>2. Len(m) \in Nat /\ Len(m) >= 2 /\ m[Len(m)] = EOX
    BY <1>4, Zenon DEF Inside
  <2>3. Len(sysex) = Len(m) - 1
    BY <1>3, <1>4
  <2>4. \A a \in 1..Len(sysex) : sysex[a] = m[a]
    BY <1>2, <1>4, Zenon DEF Collected
  <2> DEFINE q == Append(sysex, EOX)
  <2>5. /\ q \in Seq(Byte) /\ Len(q) = Len(sysex) + 1
        /\ q[Len(sysex) + 1] = EOX
        /\ \A a \in 1..Len(sysex) : q[a] = sysex[a]
    <3>1. EOX \in Byte
      BY DEF EOX, Byte
    <3> QED
      BY <3>1, Types, AppendProperties
  <2> HIDE DEF q
  <2>6. Len(q) = Len(m) /\ Len(sysex) + 1 = Len(m)
    BY <2>2, <2>3, <2>5
  <2>7. \A a \in 1..Len(m) : a \in 1..Len(sysex) \/ a = Len(m)
    BY <2>2, <2>3
  <2>8. \A a \in 1..Len(m) : q[a] = m[a]
    BY <2>2, <2>4, <2>5, <2>6, <2>7, Zenon
  <2>9. q = m
    BY <2>1, <2>5, <2>6, <2>8, SeqEqual
  <2> QED
    BY <2>9 DEF q
<1>6. Len(out) < Len(sent) /\ out' = Append(out, sent[Len(out) + 1])
  BY <1>1, <1>3, <1>4, <1>5, Zenon DEF Within
<1>7. Matches' /\ Len(out') = Len(out) + 1
  BY <1>1, <1>6, Emits
<1>8. DecAt(t, j)'
  BY <1>1, <1>3, <1>7, Zenon DEF DecAt
<1> QED
  BY <1>7, <1>8

-----------------------------------------------------------------------------
(* Where the decoder is, and a SysEx as it goes on. *)

\* The last message of a packet begins at x and goes on in the next packet.
Opens(s, b, x, t, j, m) ==
  /\ Within(s, t, j) /\ m = s[t + 1]
  /\ Len(b) = x + j /\ High(b[x]) /\ Copies(b, x, m, 1, j)

\* Message k + 1 takes the positions of b from x up to y.
Begins(s, b, x, y, k, t, j, r, m) ==
  /\ k < t /\ k < Len(s) /\ m = s[k + 1]
  /\ y <= Len(b) + 1 /\ Segment(b, x, y, m)
  /\ y = x + Len(m) => r = m[1] /\ m[1] < SOX
  /\ Starts(s, b, y, k + 1, t, j, Runs(r, m[1]))

\* Where a packet starts a message it either ends there or holds the message or
\* the head of it.
LEMMA StartsShape ==
  ASSUME NEW s \in Seq(Messages), NEW b \in Seq(Byte), NEW x \in Nat,
         NEW k \in Nat, NEW t \in Nat, NEW j \in Nat, NEW r \in Nat
  PROVE  Starts(s, b, x, k, t, j, r)
           => \/ k = t /\ j = 0 /\ x = Len(b) + 1
              \/ k = t /\ \E m \in Messages : Opens(s, b, x, t, j, m)
              \/ \E m \in Messages, y \in Nat : Begins(s, b, x, y, k, t, j, r, m)
<1>0. SUFFICES ASSUME NEW c \in [Nat -> Nat], c[k] = x, Laid(s, b, c, k, t, j, r)
               PROVE  \/ k = t /\ j = 0 /\ x = Len(b) + 1
                      \/ k = t /\ \E m \in Messages : Opens(s, b, x, t, j, m)
                      \/ \E m \in Messages, y \in Nat :
                           Begins(s, b, x, y, k, t, j, r, m)
  BY Zenon DEF Starts
<1>1. k <= t /\ t <= Len(s)
  BY <1>0, Zenon DEF Laid
<1>2. Len(s) \in Nat /\ Len(b) \in Nat
  BY LenProperties
<1>3. CASE k = t
  <2>1. CASE j = 0 /\ c[t] = Len(b) + 1
    BY <1>0, <1>3, <2>1, Zenon
  <2>2. CASE /\ Within(s, t, j)
             /\ Len(b) = c[t] + j
             /\ High(b[c[t]]) /\ Copies(b, c[t], s[t + 1], 1, j)
    <3>1. PICK m \in Messages : m = s[t + 1]
      BY <2>2, WithinBytes
    <3>2. Opens(s, b, x, t, j, m)
      BY <1>0, <1>3, <2>2, <3>1, Zenon DEF Opens
    <3> QED
      BY <1>3, <3>2, Zenon
  <2> QED
    BY <1>0, <2>1, <2>2, Zenon DEF Laid
<1>4. CASE k < t
  <2>1. k + 1 \in 1..Len(s) /\ k \in k..t-1 /\ k + 1 \in k..t /\ k < Len(s)
    <3>1. PICK l \in Nat : l = Len(s)
      BY <1>2
    <3>2. t <= l
      BY <1>1, <3>1
    <3>3. k + 1 \in 1..l /\ k \in k..t-1 /\ k + 1 \in k..t /\ k < l
      BY <1>4, <3>2
    <3> QED
      BY <3>1, <3>3
  <2>2. PICK m \in Messages : m = s[k + 1]
    BY <2>1, ElementOfSeq
  <2>3. PICK y \in Nat : y = c[k + 1] /\ y <= Len(b) + 1
    <3>1. c[k + 1] \in 2..Len(b)+1
      BY <1>0, <2>1, Zenon DEF Laid
    <3> QED
      BY <1>2, <3>1
  <2>4. Segment(b, x, y, m)
    BY <1>0, <2>1, <2>2, <2>3, Zenon DEF Laid
  <2>5. y = x + Len(m) => Ready(s, k, k, r)
    BY <1>0, <2>1, <2>2, <2>3, Zenon DEF Laid
  <2>6. Ready(s, k, k, r) => r = m[1] /\ m[1] < SOX
    <3>1. \A n \in k+1..k : FALSE
      OBVIOUS
    <3> QED
      BY <2>2, <3>1, Zenon DEF Ready
  <2>7. Laid(s, b, c, k + 1, t, j, Runs(r, m[1]))
    BY <1>0, <1>4, <2>2, LaidNext
  <2>8. Starts(s, b, y, k + 1, t, j, Runs(r, m[1]))
    BY <2>3, <2>7, Zenon DEF Starts
  <2>9. Begins(s, b, x, y, k, t, j, r, m)
    BY <1>4, <2>1, <2>2, <2>3, <2>4, <2>5, <2>6, <2>8, Zenon DEF Begins
  <2> QED
    BY <2>9, Zenon
<1> QED
  BY <1>1, <1>3, <1>4

\* Of a SysEx at the head of a packet the F0 is behind.
LEMMA OpensContinues ==
  ASSUME NEW s \in Seq(Messages), NEW b \in Seq(Byte), NEW x \in Nat,
         NEW t \in Nat, NEW j \in Nat, NEW m \in Messages
  PROVE  Opens(s, b, x, t, j, m) => Continues(s, b, x + 2, t, 1, t, j)
<1>0. SUFFICES ASSUME Opens(s, b, x, t, j, m)
               PROVE  Continues(s, b, x + 2, t, 1, t, j)
  OBVIOUS
<1>1. Within(s, t, j) /\ m = s[t + 1]
  BY <1>0, Zenon DEF Opens
<1>2. Len(b) = x + j /\ Copies(b, x, m, 1, j)
  BY <1>0, Zenon DEF Opens
<1>3. PICK n \in Nat : n = Len(m) - 1 /\ 1 <= j /\ j <= n /\ 1 <= n
  <2>1. Len(m) \in Nat /\ j \in 1..Len(m)-1
    BY <1>1, MessageBytes, Zenon DEF Within
  <2> QED
    BY <2>1
<1>4. Within(s, t, 1)
  <2>1. 1 \in 1..Len(m)-1
    BY <1>3
  <2> QED
    BY <1>1, <2>1, Zenon DEF Within
<1>5. (x + 2) - 1 - 1 = x /\ Len(b) = (x + 2) + (j - 1) - 1
  BY <1>2
<1>6. \A a \in 1+1..j : a \in 1..j
  OBVIOUS
<1>7. Copies(b, (x + 2) - 1 - 1, m, 1 + 1, j)
  BY <1>2, <1>5, <1>6, Zenon DEF Copies
<1> QED
  BY <1>1, <1>3, <1>4, <1>5, <1>7, Zenon DEF Continues

\* Of a SysEx that is whole in the packet the F0 is behind.
LEMMA BeginsContinues ==
  ASSUME NEW s \in Seq(Messages), NEW b \in Seq(Byte), NEW x \in Nat,
         NEW y \in Nat, NEW k \in Nat, NEW t \in Nat, NEW j \in Nat,
         NEW r \in Nat, NEW m \in Messages, IsSysex(m), y # x + Len(m)
  PROVE  Begins(s, b, x, y, k, t, j, r, m)
           => Continues(s, b, x + 2, k, 1, t, j) /\ Within(s, k, 1)
<1>0. SUFFICES ASSUME Begins(s, b, x, y, k, t, j, r, m)
               PROVE  Continues(s, b, x + 2, k, 1, t, j) /\ Within(s, k, 1)
  OBVIOUS
<1>1. k < Len(s) /\ m = s[k + 1] /\ Segment(b, x, y, m) /\ y <= Len(b) + 1
  BY <1>0, Zenon DEF Begins
<1>s. Segment(b, x, y, m) /\ y <= Len(b) + 1
  BY <1>1
<1>2. PICK n \in Nat : n = Len(m) - 1 /\ 1 <= n /\ Len(m) = n + 1
  <2>1. Len(m) \in Nat /\ Len(m) >= 2
    BY MessageBytes, SysexBytes
  <2> QED
    BY <2>1
<1>3. Within(s, k, 1)
  <2>1. 1 \in 1..Len(m)-1
    BY <1>2
  <2> QED
    BY <1>1, <2>1, Zenon DEF Within
<1>4. Starts(s, b, y, k + 1, t, j, 0)
  <2>1. m[1] = SOX /\ SOX \in 128..255
    BY SysexBytes DEF SOX
  <2>2. Runs(r, m[1]) = 0
    BY <2>1, RunsFacts
  <2>3. Starts(s, b, y, k + 1, t, j, Runs(r, m[1]))
    BY <1>0, Zenon DEF Begins
  <2> QED
    BY <2>2, <2>3
<1> DEFINE e == (x + 2) + Len(m) - 1 - 1
<1>5. e = x + Len(m) /\ e = x + n + 1 /\ (x + 2) - 1 - 1 = x /\ e \in Nat
  BY <1>2
<1>6. Len(b) \in Nat
  BY LenProperties
<1> HIDE DEF e
<1>7. CASE y = x + 1 + Len(m) /\ Copies(b, x, m, 1, Len(m))
  <2>1. e <= Len(b) /\ y = e + 1
    BY <1>s, <1>2, <1>5, <1>6, <1>7
  <2>2. b[e] = EOX
    <3>1. Len(m) \in 1..Len(m) /\ m[Len(m)] = EOX
      BY <1>2, SysexBytes DEF EOX
    <3> QED
      BY <1>5, <1>7, <3>1, Zenon DEF Copies
  <2>3. Closes(s, b, e, k + 1, t, j)
    BY <1>4, <2>1, <2>2, Zenon DEF Closes
  <2>4. Copies(b, (x + 2) - 1 - 1, m, 1 + 1, Len(m) - 1)
    <3>1. \A a \in 1+1..Len(m)-1 : a \in 1..Len(m)
      BY <1>2
    <3> QED
      BY <1>5, <1>7, <3>1, Zenon DEF Copies
  <2> QED
    BY <1>1, <1>3, <2>3, <2>4, Zenon DEF Continues, e
<1>8. CASE /\ y = x + 2 + Len(m)
           /\ Copies(b, x, m, 1, Len(m) - 1)
           /\ High(b[y - 2]) /\ b[y - 2] # EOX /\ b[y - 1] = EOX
  <2>1. e < Len(b) /\ y = e + 2 /\ y - 2 = e /\ y - 1 = e + 1
    BY <1>s, <1>2, <1>5, <1>6, <1>8
  <2>2. Closes(s, b, e, k + 1, t, j)
    BY <1>4, <1>8, <2>1, Zenon DEF Closes
  <2>3. Copies(b, (x + 2) - 1 - 1, m, 1 + 1, Len(m) - 1)
    <3>1. \A a \in 1+1..Len(m)-1 : a \in 1..Len(m)-1
      BY <1>2
    <3> QED
      BY <1>5, <1>8, <3>1, Zenon DEF Copies
  <2> QED
    BY <1>1, <1>3, <2>2, <2>3, Zenon DEF Continues, e
<1> QED
  BY <1>s, <1>7, <1>8, Zenon DEF Segment

-----------------------------------------------------------------------------
(* A packet from its first byte. *)

\* Where a turn of the loop may be: nothing is left of the packet but perhaps
\* a timestamp, or the last message of it opens, or one of it begins.
LEMMA LoopAt ==
  ASSUME IInv, dec = "loop", NEW t \in Nat, NEW j \in Nat, DecAt(t, j)
  PROVE  \/ /\ ~HasMessage /\ t = Len(out)
            /\ inSysex => j = Len(sysex) /\ Collected
            /\ ~inSysex => j = 0
         \/ /\ ~inSysex /\ t = Len(out)
            /\ \E m \in Messages : Opens(sent, p, i, t, j, m)
         \/ /\ ~inSysex
            /\ \E m \in Messages, y \in Nat :
                 Begins(sent, p, i, y, Len(out), t, j, running, m)
<1>1. /\ sent \in Seq(Messages) /\ p \in Seq(Byte) /\ i \in Nat /\ running \in Nat
      /\ Len(out) \in Nat /\ Len(p) \in Nat
  BY Types
<1>2. ASSUME i = Len(p) + 1 \/ (i = Len(p) /\ High(p[i])) PROVE ~HasMessage
  BY <1>1, <1>2 DEF HasMessage, At
<1>3. CASE ~inSysex /\ Starts(sent, p, i, Len(out), t, j, running)
  <2>1. \/ Len(out) = t /\ j = 0 /\ i = Len(p) + 1
        \/ Len(out) = t /\ \E m \in Messages : Opens(sent, p, i, t, j, m)
        \/ \E m \in Messages, y \in Nat :
             Begins(sent, p, i, y, Len(out), t, j, running, m)
    BY <1>1, <1>3, StartsShape
  <2> QED
    BY <1>2, <1>3, <2>1, Zenon
<1>4. CASE ~inSysex /\ i = Len(p) /\ High(p[i]) /\ t = Len(out) /\ j = 0
  BY <1>2, <1>4, Zenon
<1>5. CASE inSysex /\ i = Len(p) + 1 /\ t = Len(out) /\ j = Len(sysex) /\ Collected
  BY <1>2, <1>5, Zenon
<1> QED
  BY <1>3, <1>4, <1>5, Zenon DEF DecAt

\* The turn at a SysEx that goes on in the next packet takes F0 only.
LEMMA OpensTurn ==
  ASSUME IInv, dec = "loop", NEW t \in Nat, NEW j \in Nat,
         NEW m \in Messages, Opens(sent, p, i, t, j, m)
  PROVE  HasMessage /\ Status = SOX /\ First = i + 2 /\ Within(sent, t, 1)
<1>1. Within(sent, t, j) /\ m = sent[t + 1]
  BY Zenon DEF Opens
<1>2. Len(p) = i + j /\ High(p[i]) /\ Copies(p, i, m, 1, j)
  BY Zenon DEF Opens
<1>3. IsSysex(m) /\ j \in 1..Len(m)-1
  BY <1>1, Zenon DEF Within
<1>4. p \in Seq(Byte) /\ i \in Nat /\ j >= 1 /\ Len(m) \in Nat /\ 1 \in 1..Len(m)-1
  BY <1>3, Types, MessageBytes
<1>5. HasMessage /\ Status = SOX /\ First = i + 2
  BY <1>2, <1>3, <1>4, OpeningTurn
<1> QED
  BY <1>1, <1>3, <1>4, <1>5, Zenon DEF Within

\* The turn at a message that is whole in the packet.
LEMMA BeginsTurn ==
  ASSUME IInv, dec = "loop", NEW k \in Nat, NEW t \in Nat, NEW j \in Nat,
         NEW m \in Messages, NEW y \in Nat,
         Begins(sent, p, i, y, k, t, j, running, m)
  PROVE  /\ Turns(m, y) /\ (IsSysex(m) => y # i + Len(m))
         /\ k < Len(sent) /\ m = sent[k + 1]
         /\ Starts(sent, p, y, k + 1, t, j, Runs(running, m[1]))
<1>1. /\ y <= Len(p) + 1 /\ Segment(p, i, y, m)
      /\ y = i + Len(m) => running = m[1] /\ m[1] < SOX
      /\ k < Len(sent) /\ m = sent[k + 1]
      /\ Starts(sent, p, y, k + 1, t, j, Runs(running, m[1]))
  BY Zenon DEF Begins
<1>2. p \in Seq(Byte) /\ i \in Nat /\ i >= 2 /\ running \in Nat
  BY Types
<1>3. Turns(m, y) /\ (IsSysex(m) => y # i + Len(m))
  BY <1>1, <1>2, SegmentTurn
<1> QED
  BY <1>1, <1>3, Zenon

\* Line where the loop stops, at the end of a packet.
LEMMA StopTracks ==
  ASSUME IInv, Matches, NEW t \in Nat, NEW j \in Nat, DecAt(t, j), LoopStops
  PROVE  DecAt(t, j)' /\ Matches'
<1>1. /\ dec = "loop" /\ dec' = "idle" /\ sent' = sent
      /\ sysex' = sysex /\ out' = out
      /\ ~HasMessage \/ (Status # SOX /\ ~Complete)
  <2>1. Decodes("loop", "idle")
    BY DEF LoopStops
  <2> QED
    BY <2>1, DecodesLeaves DEF LoopStops, decoder
<1>2. inSysex' <=> inSysex
  BY Zenon DEF LoopStops, decoder
<1>3. \A m \in Messages : ~Opens(sent, p, i, t, j, m)
  BY <1>1, OpensTurn
<1>4. \A m \in Messages, y \in Nat : ~Begins(sent, p, i, y, Len(out), t, j, running, m)
  <2>1. SUFFICES ASSUME NEW m \in Messages, NEW y \in Nat,
                        Begins(sent, p, i, y, Len(out), t, j, running, m)
                 PROVE  FALSE
    OBVIOUS
  <2>2. Turns(m, y)
    BY <1>1, <2>1, Types, BeginsTurn
  <2>3. CASE IsSysex(m)
    <3>1. m[1] = SOX
      BY <2>3, SysexBytes DEF SOX
    <3> QED
      BY <1>1, <2>2, <2>3, <3>1, Zenon DEF Turns
  <2> QED
    BY <1>1, <2>2, <2>3, Zenon DEF Turns
<1>5. /\ t = Len(out)
      /\ inSysex => j = Len(sysex) /\ Collected
      /\ ~inSysex => j = 0
  BY <1>1, <1>3, <1>4, LoopAt, Zenon
<1>6. Collected => Collected'
  BY <1>1, Zenon DEF Collected
<1>7. DecAt(t, j)'
  BY <1>1, <1>2, <1>5, <1>6, Zenon DEF DecAt
<1>8. Matches'
  BY <1>1, Zenon DEF Matches
<1> QED
  BY <1>7, <1>8

\* Line where the loop meets F0.
LEMMA OpenTracks ==
  ASSUME IInv, Matches, NEW t \in Nat, NEW j \in Nat, DecAt(t, j), LoopOpensSysex
  PROVE  DecAt(t, j)' /\ Matches'
<1>1. /\ dec = "loop" /\ dec' = "sysex" /\ sent' = sent /\ p' = p
      /\ HasMessage /\ Status = SOX
      /\ sysex' = <<SOX>> /\ i' = First /\ out' = out
  <2>1. Decodes("loop", "sysex")
    BY DEF LoopOpensSysex
  <2> QED
    BY <2>1, DecodesLeaves DEF LoopOpensSysex
<1>2. Len(sysex') = 1 /\ sysex'[1] = SOX
  BY <1>1
<1>3. /\ First = i + 2 /\ Within(sent, Len(out), 1)
      /\ Continues(sent, p, i + 2, Len(out), 1, t, j)
  <2>1. ASSUME t = Len(out), NEW m \in Messages, Opens(sent, p, i, t, j, m)
        PROVE  /\ First = i + 2 /\ Within(sent, Len(out), 1)
               /\ Continues(sent, p, i + 2, Len(out), 1, t, j)
    <3>1. First = i + 2 /\ Within(sent, t, 1)
      BY <1>1, <2>1, OpensTurn
    <3>2. Continues(sent, p, i + 2, t, 1, t, j)
      BY <2>1, Types, OpensContinues
    <3> QED
      BY <2>1, <3>1, <3>2, Zenon
  <2>2. ASSUME NEW m \in Messages, NEW y \in Nat,
               Begins(sent, p, i, y, Len(out), t, j, running, m)
        PROVE  /\ First = i + 2 /\ Within(sent, Len(out), 1)
               /\ Continues(sent, p, i + 2, Len(out), 1, t, j)
    <3>1. Turns(m, y) /\ (IsSysex(m) => y # i + Len(m))
      BY <1>1, <2>2, Types, BeginsTurn
    <3>2. IsSysex(m) /\ y # i + Len(m) /\ First = i + 2
      BY <1>1, <3>1, Zenon DEF Turns
    <3>3. Continues(sent, p, i + 2, Len(out), 1, t, j) /\ Within(sent, Len(out), 1)
      BY <2>2, <3>2, Types, BeginsContinues
    <3> QED
      BY <3>2, <3>3, Zenon
  <2> QED
    BY <1>1, <2>1, <2>2, LoopAt, Zenon
<1>4. Collected'
  <2>1. PICK m \in Messages : m = sent[Len(out) + 1] /\ Inside(m, 1)
    BY <1>3, Types, WithinBytes
  <2>2. m[1] = SOX
    BY <2>1, Zenon DEF Inside
  <2>3. \A a \in 1..Len(sysex') : a = 1
    BY <1>2
  <2>4. \A a \in 1..Len(sysex') : sysex'[a] = sent'[Len(out') + 1][a]
    BY <1>1, <1>2, <2>1, <2>2, <2>3, Zenon
  <2> QED
    BY <1>1, <1>2, <1>3, <2>4, Zenon DEF Collected
<1>5. DecAt(t, j)'
  BY <1>1, <1>2, <1>3, <1>4, Zenon DEF DecAt
<1>6. Matches'
  BY <1>1, Zenon DEF Matches
<1> QED
  BY <1>5, <1>6

\* The decoder's running status is what runs after the message.
LEMMA RunningIsRuns ==
  ASSUME NEW status \in 128..255
  PROVE  RunningAfter(status) = Runs(running, status)
  BY DEF RunningAfter, Runs

\* Line where the loop takes a message that is no SysEx.
LEMMA MessageTracks ==
  ASSUME IInv, Matches, NEW t \in Nat, NEW j \in Nat, DecAt(t, j), LoopMessage
  PROVE  DecAt(t, j)' /\ Matches'
<1>1. /\ dec = "loop" /\ dec' = "loop" /\ sent' = sent /\ p' = p
      /\ HasMessage /\ Status # SOX
      /\ out' = Append(out, <<Status>> \o SubSeq(p, First, First + dataLen(Status) - 1))
      /\ i' = First + dataLen(Status)
      /\ running' = RunningAfter(Status)
      /\ sysex' = sysex
  <2>1. Decodes("loop", "loop")
    BY DEF LoopMessage
  <2> QED
    BY <2>1, DecodesLeaves DEF LoopMessage
<1>2. inSysex' <=> inSysex
  BY Zenon DEF LoopMessage
<1>3. \A m \in Messages : ~Opens(sent, p, i, t, j, m)
  BY <1>1, OpensTurn
<1>4. /\ ~inSysex
      /\ \E m \in Messages, y \in Nat :
           Begins(sent, p, i, y, Len(out), t, j, running, m)
  BY <1>1, <1>3, LoopAt, Zenon
<1>5. PICK m \in Messages, y \in Nat :
        Begins(sent, p, i, y, Len(out), t, j, running, m)
  BY <1>4, Zenon
<1>6. /\ Turns(m, y)
      /\ Len(out) < Len(sent) /\ m = sent[Len(out) + 1]
      /\ Starts(sent, p, y, Len(out) + 1, t, j, Runs(running, m[1]))
  BY <1>1, <1>5, Types, BeginsTurn
<1>7. /\ Status = m[1]
      /\ First + dataLen(Status) = y
      /\ <<Status>> \o SubSeq(p, First, First + dataLen(Status) - 1) = m
  <2>1. IsSysex(m) => m[1] = SOX
    BY SysexBytes DEF SOX
  <2> QED
    BY <1>1, <1>6, <2>1, Zenon DEF Turns
<1>8. Matches' /\ Len(out') = Len(out) + 1
  BY <1>1, <1>6, <1>7, Emits
<1>9. running' = Runs(running, m[1])
  <2>1. m[1] \in 128..255
    BY MessageBytes
  <2> QED
    BY <1>1, <1>7, <2>1, RunningIsRuns
<1>10. Starts(sent', p', i', Len(out'), t, j, running')
  BY <1>1, <1>6, <1>7, <1>8, <1>9, Zenon
<1>11. DecAt(t, j)'
  BY <1>1, <1>2, <1>4, <1>10, Zenon DEF DecAt
<1> QED
  BY <1>8, <1>11

\* A packet takes the decoder from k messages and j bytes to t and j2.
Carries(s, b, k, j, t, j2) ==
  /\ Len(b) >= 2
  /\ j = 0 => Starts(s, b, 2, k, t, j2, 0)
  /\ j # 0 => Continues(s, b, 2, k, j, t, j2)

\* Line when the decoder is given the next packet.
LEMMA ReceiveTracks ==
  ASSUME IInv, Matches, NEW k \in Nat, NEW j \in Nat, NEW t \in Nat, NEW j2 \in Nat,
         DecAt(k, j), Receive, Carries(sent, wire[1].bytes, k, j, t, j2)
  PROVE  DecAt(t, j2)' /\ Matches'
<1>1. /\ dec = "idle" /\ sent' = sent /\ p' = Head(wire).bytes /\ i' = 2
      /\ sysex' = sysex /\ out' = out /\ running' = running /\ wire # <<>>
  BY DEF Receive, decoder, history
<1>2. inSysex' <=> inSysex
  BY Zenon DEF Receive, decoder
<1>3. p' = wire[1].bytes /\ p' \in Seq(Byte) /\ Len(p') \in Nat
  <2>1. wire \in Seq(Packet)
    BY DEF IInv, TypeOK, Packet
  <2>2. Head(wire) = wire[1] /\ Head(wire) \in Packet
    BY <1>1, <2>1, HeadTailProperties
  <2> QED
    BY <1>1, <2>2, LenProperties DEF Packet
<1>4. ~(Len(p') < 2)
  <2>1. Len(p') >= 2
    BY <1>3, Zenon DEF Carries
  <2> QED
    BY <1>3, <2>1
<1>5. dec' = IF inSysex THEN "sysex" ELSE "loop"
  BY <1>4, Zenon DEF Receive
<1>6. k = Len(out) /\ (inSysex => j = Len(sysex) /\ Collected) /\ (~inSysex => j = 0)
  BY <1>1, Zenon DEF DecAt
<1>7. Matches'
  BY <1>1, Zenon DEF Matches
<1>8. CASE inSysex
  <2>1. j # 0
    <3>1. Len(sysex) >= 1
      BY <1>8 DEF IInv, OpenSysex
    <3>2. Len(sysex) \in Nat /\ Len(sysex) # 0
      BY <3>1, Types
    <3> QED
      BY <1>6, <1>8, <3>2
  <2>2. Continues(sent, p', 2, Len(out), Len(sysex), t, j2)
    BY <1>3, <1>6, <1>8, <2>1, Zenon DEF Carries
  <2>3. Collected'
    BY <1>1, <1>6, <1>8, Zenon DEF Collected
  <2>4. dec' = "sysex"
    BY <1>5, <1>8
  <2>5. DecAt(t, j2)'
    BY <1>1, <2>2, <2>3, <2>4, Zenon DEF DecAt
  <2> QED
    BY <1>7, <2>5
<1>9. CASE ~inSysex
  <2>1. Starts(sent, p', 2, Len(out), t, j2, 0)
    BY <1>3, <1>6, <1>9, Zenon DEF Carries
  <2>2. Starts(sent, p', 2, Len(out), t, j2, running)
    BY <1>3, <2>1, Types, StartsAnyRunning
  <2>3. dec' = "loop"
    BY <1>5, <1>9
  <2>4. DecAt(t, j2)'
    BY <1>1, <1>2, <1>9, <2>2, <2>3, Zenon DEF DecAt
  <2> QED
    BY <1>7, <2>4
<1> QED
  BY <1>8, <1>9

\* What of message m, a SysEx, is in no packet yet when j bytes of it are.
Rests(d, m, j) == /\ IsSysex(m) /\ j \in 1..Len(m)-1
                  /\ Len(d) = Len(m) - 1 - j
                  /\ \A a \in 1..Len(d) : d[a] = m[j + a]

\* FrameMessageMTU has made the packets of k messages and of j bytes of the
\* next.
EncAt(k, j) ==
  /\ enc = "idle" => k = Len(sent) /\ j = 0
  /\ enc = "chunking" =>
       k + 1 = Len(sent) /\ Rests(body, sent[k + 1], j)

\* Every packet on the wire leads from cn[q - 1], cj[q - 1] to cn[q], cj[q]: from so
\* many messages and so many bytes of the next to so many.
Path(w, s, cn, cj) ==
  \A q \in 1..Len(w) : Carries(s, w[q].bytes, cn[q - 1], cj[q - 1], cn[q], cj[q])

\* The inductive invariant: the wire leads from where the decoder is to where
\* the sender is, until a packet is lost or an alien one arrives.
Line == ~noisy =>
  /\ Matches
  /\ \E cn, cj \in [Nat -> Nat] :
       /\ DecAt(cn[0], cj[0])
       /\ Path(wire, sent, cn, cj)
       /\ EncAt(cn[Len(wire)], cj[Len(wire)])

\* What a packet carries does not depend on what is framed later.
LEMMA CarriesGrows ==
  ASSUME NEW s \in Seq(Messages), NEW s2 \in Seq(Messages), Extends(s, s2),
         NEW b \in Seq(Byte), NEW k \in Nat, NEW j \in Nat,
         NEW t \in Nat, NEW j2 \in Nat
  PROVE  Carries(s, b, k, j, t, j2) => Carries(s2, b, k, j, t, j2)
<1>1. Starts(s, b, 2, k, t, j2, 0) => Starts(s2, b, 2, k, t, j2, 0)
  BY StartsGrows
<1>2. Continues(s, b, 2, k, j, t, j2) => Continues(s2, b, 2, k, j, t, j2)
  BY ContinuesGrows
<1> QED
  BY <1>1, <1>2, Zenon DEF Carries

\* Where the decoder is does not depend on what is framed later.
LEMMA DecAtGrows ==
  ASSUME IInv, NEW t \in Nat, NEW j \in Nat, DecAt(t, j), UNCHANGED decVars,
         sent' \in Seq(Messages), Extends(sent, sent')
  PROVE  DecAt(t, j)'
<1>1. /\ dec' = dec /\ p' = p /\ i' = i /\ running' = running
      /\ sysex' = sysex /\ out' = out
  BY DEF decVars, decoder
<1>2. inSysex' <=> inSysex
  BY Zenon DEF decVars, decoder
<1>3. Collected => Collected'
  <2>1. Within(sent, Len(out), Len(sysex))
          => /\ Within(sent', Len(out), Len(sysex))
             /\ sent'[Len(out) + 1] = sent[Len(out) + 1]
    BY Types, WithinGrows
  <2> QED
    BY <1>1, <2>1, Zenon DEF Collected
<1>4. Starts(sent, p, i, Len(out), t, j, running)
        => Starts(sent', p, i, Len(out), t, j, running)
  BY Types, StartsGrows
<1>5. Continues(sent, p, i, Len(out), Len(sysex), t, j)
        => Continues(sent', p, i, Len(out), Len(sysex), t, j)
  BY Types, ContinuesGrows
<1> QED
  BY <1>1, <1>2, <1>3, <1>4, <1>5, Zenon DEF DecAt

\* What was handed on stays a prefix of what was framed.
LEMMA MatchesGrows ==
  ASSUME IInv, Matches, out' = out, sent' \in Seq(Messages), Extends(sent, sent')
  PROVE  Matches'
<1>1. Len(sent) \in Nat /\ Len(sent') \in Nat /\ Len(out) \in Nat
  BY Types, LenProperties
<1>2. Len(out) <= Len(sent) /\ Len(sent) <= Len(sent')
  BY Zenon DEF Matches, Extends
<1>3. Len(out) <= Len(sent') /\ \A a \in 1..Len(out) : a \in 1..Len(sent)
  BY <1>1, <1>2
<1>4. \A a \in 1..Len(out) : out[a] = sent'[a]
  BY <1>3, Zenon DEF Matches, Extends
<1> QED
  BY <1>3, <1>4, Zenon DEF Matches

\* A bundle is appended to what was framed.
LEMMA ExtendsConcat ==
  ASSUME NEW s \in Seq(Messages), NEW ms \in Seq(Messages)
  PROVE  /\ s \o ms \in Seq(Messages) /\ Extends(s, s \o ms)
         /\ Len(s \o ms) = Len(s) + Len(ms)
         /\ \A a \in 1..Len(ms) : (s \o ms)[Len(s) + a] = ms[a]
<1> DEFINE s2 == s \o ms
<1>1. /\ s2 \in Seq(Messages) /\ Len(s2) = Len(s) + Len(ms)
      /\ \A a \in 1..Len(s)+Len(ms) :
           s2[a] = IF a <= Len(s) THEN s[a] ELSE ms[a - Len(s)]
  BY ConcatProperties
<1>2. Len(s) \in Nat /\ Len(ms) \in Nat
  BY LenProperties
<1> HIDE DEF s2
<1>3. \A a \in 1..Len(s) : a \in 1..Len(s)+Len(ms) /\ a <= Len(s)
  BY <1>2
<1>4. Len(s) <= Len(s2)
  BY <1>1, <1>2
<1>5. Extends(s, s2)
  BY <1>1, <1>3, <1>4, Zenon DEF Extends
<1>6. \A a \in 1..Len(ms) : /\ Len(s) + a \in 1..Len(s)+Len(ms)
                            /\ ~(Len(s) + a <= Len(s)) /\ (Len(s) + a) - Len(s) = a
  BY <1>2
<1>7. \A a \in 1..Len(ms) : s2[Len(s) + a] = ms[a]
  BY <1>1, <1>6, Zenon
<1> QED
  BY <1>1, <1>5, <1>7 DEF s2

\* A step that frames nothing extends the sequence trivially.
LEMMA ExtendsSelf == ASSUME NEW s \in Seq(Messages) PROVE Extends(s, s)
  BY LenProperties DEF Extends

\* A packet that FrameMessageMTU or a device puts on the wire, and that
\* carries from where the last one ended to where its sender now is.
LEMMA PutTracks ==
  ASSUME IInv, Matches, UNCHANGED decVars,
         sent' \in Seq(Messages), Extends(sent, sent'),
         NEW cn \in [Nat -> Nat], NEW cj \in [Nat -> Nat],
         DecAt(cn[0], cj[0]), Path(wire, sent, cn, cj),
         NEW from \in {"frame", "device", "noise"}, NEW bytes \in Seq(Byte),
         Puts(from, bytes),
         NEW t \in Nat, NEW j \in Nat,
         Carries(sent', bytes, cn[Len(wire)], cj[Len(wire)], t, j),
         EncAt(t, j)'
  PROVE  Line'
<1>1. wire \in Seq(Packet) /\ Len(wire) \in Nat /\ sent \in Seq(Messages)
  BY LenProperties DEF IInv, TypeOK, Packet
<1> DEFINE q1 == [from |-> from, bytes |-> bytes]
<1>2. q1 \in Packet /\ q1.bytes = bytes
  BY DEF Packet
<1>3. wire' = Append(wire, q1)
  BY DEF Puts
<1> HIDE DEF q1
<1>4. /\ Len(wire') = Len(wire) + 1
      /\ \A q \in 1..Len(wire) : wire'[q] = wire[q]
      /\ wire'[Len(wire) + 1] = q1
  BY <1>1, <1>2, <1>3, AppendProperties
<1>5. PICK l \in Nat : l = Len(wire)
  BY <1>1
<1>7. PICK dn \in [Nat -> Nat], dj \in [Nat -> Nat] :
        /\ dn[0] = cn[0] /\ dj[0] = cj[0] /\ dn[l + 1] = t /\ dj[l + 1] = j
        /\ \A n \in 0..l : dn[n] = cn[n] /\ dj[n] = cj[n]
  <2> DEFINE d == [n \in Nat |-> IF n = l + 1 THEN t ELSE cn[n]]
             e == [n \in Nat |-> IF n = l + 1 THEN j ELSE cj[n]]
  <2>1. d \in [Nat -> Nat] /\ e \in [Nat -> Nat]
    OBVIOUS
  <2>2. /\ d[0] = cn[0] /\ e[0] = cj[0] /\ d[l + 1] = t /\ e[l + 1] = j
        /\ \A n \in 0..l : d[n] = cn[n] /\ e[n] = cj[n]
    OBVIOUS
  <2> HIDE DEF d, e
  <2> QED
    BY <2>1, <2>2, Zenon
<1>8. DecAt(cn[0], cj[0])'
  <2>1. cn[0] \in Nat /\ cj[0] \in Nat
    OBVIOUS
  <2>2. PICK k0 \in Nat, j0 \in Nat : k0 = cn[0] /\ j0 = cj[0]
    BY <2>1
  <2>3. DecAt(k0, j0)'
    BY <2>2, DecAtGrows
  <2> QED
    BY <2>2, <2>3
<1>9. Matches'
  BY MatchesGrows DEF decVars
<1>10. Path(wire', sent', dn, dj)
  <2> SUFFICES ASSUME NEW q \in 1..Len(wire')
               PROVE  Carries(sent', wire'[q].bytes, dn[q - 1], dj[q - 1], dn[q], dj[q])
    BY DEF Path
  <2>1. CASE q \in 1..l
    <3>1. q - 1 \in 0..l /\ q \in 0..l /\ q - 1 \in Nat /\ q \in Nat
      BY <2>1
    <3>2. wire[q].bytes \in Seq(Byte)
      <4>1. wire[q] \in Packet
        BY <1>1, <1>5, <2>1, ElementOfSeq
      <4> QED
        BY <4>1 DEF Packet
    <3>3. /\ cn[q - 1] \in Nat /\ cj[q - 1] \in Nat /\ cn[q] \in Nat /\ cj[q] \in Nat
      BY <3>1
    <3>4. Carries(sent, wire[q].bytes, cn[q - 1], cj[q - 1], cn[q], cj[q])
      BY <1>5, <2>1, Zenon DEF Path
    <3>p. PICK b \in Seq(Byte), k0 \in Nat, j0 \in Nat, k1 \in Nat, j1 \in Nat :
            /\ b = wire[q].bytes /\ k0 = cn[q - 1] /\ j0 = cj[q - 1]
            /\ k1 = cn[q] /\ j1 = cj[q]
      BY <3>2, <3>3, Zenon
    <3>c. Carries(sent, b, k0, j0, k1, j1)
      BY <3>4, <3>p, Zenon
    <3>d. Carries(sent', b, k0, j0, k1, j1)
      BY <1>1, <3>c, CarriesGrows
    <3>5. Carries(sent', wire[q].bytes, cn[q - 1], cj[q - 1], cn[q], cj[q])
      BY <3>d, <3>p, Zenon
    <3> QED
      BY <1>4, <1>5, <1>7, <2>1, <3>1, <3>5, Zenon
  <2>2. CASE q = l + 1
    <3>1. q - 1 = l /\ l \in 0..l
      BY <2>2
    <3>2. wire'[q].bytes = bytes
      BY <1>2, <1>4, <1>5, <2>2, Zenon
    <3>3. Carries(sent', bytes, cn[l], cj[l], t, j)
      BY <1>5, Zenon
    <3>4. dn[q - 1] = cn[l] /\ dj[q - 1] = cj[l] /\ dn[q] = t /\ dj[q] = j
      BY <1>7, <2>2, <3>1, Zenon
    <3> QED
      BY <3>2, <3>3, <3>4, Zenon
  <2>3. q \in 1..l \/ q = l + 1
    <3>1. Len(wire') = l + 1
      BY <1>4, <1>5
    <3>2. q \in 1..l+1
      BY <3>1
    <3> QED
      BY <3>2
  <2> QED
    BY <2>1, <2>2, <2>3
<1>11. EncAt(dn[Len(wire)], dj[Len(wire)])'
  BY <1>4, <1>5, <1>7, Zenon DEF EncAt
<1>12. DecAt(dn[0], dj[0])'
  BY <1>7, <1>8, Zenon DEF DecAt
<1> QED
  BY <1>9, <1>10, <1>11, <1>12, Zenon DEF Line

-----------------------------------------------------------------------------
(* The wire between the sender and the decoder. *)

\* Where the bytes of a concatenation come from.
LEMMA ConcatBytes ==
  ASSUME NEW v \in Seq(Byte), NEW w \in Seq(Byte)
  PROVE  /\ v \o w \in Seq(Byte) /\ Len(v \o w) = Len(v) + Len(w)
         /\ \A a \in 1..Len(v) : (v \o w)[a] = v[a]
         /\ \A a \in 1..Len(w) : (v \o w)[Len(v) + a] = w[a]
<1> DEFINE u == v \o w
<1>1. /\ u \in Seq(Byte) /\ Len(u) = Len(v) + Len(w)
      /\ \A a \in 1..Len(v)+Len(w) : u[a] = IF a <= Len(v) THEN v[a] ELSE w[a - Len(v)]
  BY ConcatProperties
<1> HIDE DEF u
<1>2. Len(v) \in Nat /\ Len(w) \in Nat
  BY LenProperties
<1>3. \A a \in 1..Len(v) : a \in 1..Len(v)+Len(w) /\ a <= Len(v)
  BY <1>2
<1>4. \A a \in 1..Len(w) : /\ Len(v) + a \in 1..Len(v)+Len(w)
                           /\ ~(Len(v) + a <= Len(v)) /\ (Len(v) + a) - Len(v) = a
  BY <1>2
<1>5. \A a \in 1..Len(v) : u[a] = v[a]
  BY <1>1, <1>3, Zenon
<1>6. \A a \in 1..Len(w) : u[Len(v) + a] = w[a]
  BY <1>1, <1>4, Zenon
<1> QED
  BY <1>1, <1>5, <1>6 DEF u

\* A packet of one message.
LEMMA WholeCarries ==
  ASSUME NEW s \in Seq(Messages), NEW k \in Nat, NEW m \in Messages,
         k + 1 = Len(s), s[k + 1] = m, NEW ts \in 128..255
  PROVE  /\ <<Header, ts>> \o m \in Seq(Byte)
         /\ Carries(s, <<Header, ts>> \o m, k, 0, k + 1, 0)
<1> DEFINE b == <<Header, ts>> \o m
<1>1. m \in Seq(Byte) /\ Len(m) \in Nat /\ Len(m) >= 1
  BY MessageBytes
<1>2. /\ <<Header, ts>> \in Seq(Byte) /\ Len(<<Header, ts>>) = 2
      /\ <<Header, ts>>[2] = ts
  BY DEF Header, Byte
<1>3. /\ b \in Seq(Byte) /\ Len(b) = 2 + Len(m) /\ b[2] = ts
      /\ \A a \in 1..Len(m) : b[2 + a] = m[a]
  <2>1. /\ b \in Seq(Byte) /\ Len(b) = 2 + Len(m)
        /\ \A a \in 1..2+Len(m) : b[a] = IF a <= 2 THEN <<Header, ts>>[a] ELSE m[a - 2]
    BY <1>1, <1>2, ConcatProperties
  <2> HIDE DEF b
  <2>2. \A a \in 1..Len(m) : 2 + a \in 1..2+Len(m) /\ ~(2 + a <= 2) /\ (2 + a) - 2 = a
    BY <1>1
  <2>3. 2 \in 1..2+Len(m) /\ 2 <= 2
    BY <1>1
  <2> QED
    BY <1>2, <2>1, <2>2, <2>3, ZenonT(30)
<1> HIDE DEF b
<1>4. PICK y \in Nat : y = 2 + 1 + Len(m) /\ y = Len(b) + 1 /\ y >= 2 /\ y # 2 + Len(m)
  <2>1. 3 + Len(m) \in Nat
    BY <1>1
  <2> QED
    BY <1>1, <1>3, <2>1
<1>5. Segment(b, 2, y, m)
  <2>1. High(b[2])
    BY <1>3, HighBytes
  <2>2. Copies(b, 2, m, 1, Len(m))
    BY <1>3 DEF Copies
  <2> QED
    BY <1>4, <2>1, <2>2, Zenon DEF Segment
<1>6. PICK c \in [Nat -> Nat] : c[k] = 2 /\ c[k + 1] = y
  <2> DEFINE d == [n \in Nat |-> IF n = k THEN 2 ELSE y]
  <2>1. d \in [Nat -> Nat] /\ d[k] = 2 /\ d[k + 1] = y
    OBVIOUS
  <2> QED
    BY <2>1
<1>7. Laid(s, b, c, k, k + 1, 0, 0)
  <2>1. k <= k + 1 /\ k + 1 <= Len(s)
    BY LenProperties
  <2>2. \A q \in k..k+1 : c[q] \in 2..Len(b)+1
    <3>1. \A q \in k..k+1 : q = k \/ q = k + 1
      OBVIOUS
    <3>2. 2 \in 2..Len(b)+1 /\ y \in 2..Len(b)+1
      BY <1>1, <1>3, <1>4
    <3> QED
      BY <1>6, <3>1, <3>2, Zenon
  <2>3. \A q \in k..(k+1)-1 : /\ Segment(b, c[q], c[q + 1], s[q + 1])
                              /\ c[q + 1] # c[q] + Len(s[q + 1])
    <3>1. \A q \in k..(k+1)-1 : q = k
      OBVIOUS
    <3> QED
      BY <1>4, <1>5, <1>6, <3>1, ZenonT(30)
  <2>4. c[k + 1] = Len(b) + 1
    BY <1>4, <1>6
  <2> QED
    BY <2>1, <2>2, <2>3, <2>4, Zenon DEF Laid
<1>8. Starts(s, b, 2, k, k + 1, 0, 0)
  BY <1>6, <1>7, Zenon DEF Starts
<1>9. Carries(s, b, k, 0, k + 1, 0)
  <2>1. Len(b) >= 2
    BY <1>1, <1>3
  <2> QED
    BY <1>8, <2>1, Zenon DEF Carries
<1> QED
  BY <1>3, <1>9 DEF b

\* The first packet of a SysEx.
LEMMA FirstCarries ==
  ASSUME NEW s \in Seq(Messages), NEW k \in Nat, NEW m \in Messages,
         k + 1 = Len(s), s[k + 1] = m, IsSysex(m), NEW ts \in 128..255,
         NEW j \in Nat, j >= 2, j <= Len(m) - 1
  PROVE  /\ <<Header, ts, SOX>> \o SubSeq(m, 2, j) \in Seq(Byte)
         /\ Carries(s, <<Header, ts, SOX>> \o SubSeq(m, 2, j), k, 0, k, j)
         /\ Within(s, k, j)
<1> DEFINE h == <<Header, ts, SOX>>
           d == SubSeq(m, 2, j)
           b == h \o d
<1>1. m \in Seq(Byte) /\ Len(m) \in Nat /\ Len(m) >= 1 /\ m[1] = SOX
  BY MessageBytes, SysexBytes DEF SOX
<1>2. /\ h \in Seq(Byte) /\ Len(h) = 3 /\ h[2] = ts /\ h[3] = SOX
  BY DEF Header, SOX, Byte
<1>3. /\ d \in Seq(Byte) /\ Len(d) = j - 1
      /\ \A a \in 1..j-1 : d[a] = m[2 + a - 1]
  <2>1. \A a \in 2..j : m[a] \in Byte
    <3>1. \A a \in 2..j : a \in 1..Len(m)
      BY <1>1
    <3> QED
      BY <1>1, <3>1, ElementOfSeq
  <2>2. /\ d \in Seq(Byte) /\ Len(d) = IF 2 <= j THEN j - 2 + 1 ELSE 0
        /\ \A a \in 1..j-2+1 : d[a] = m[2 + a - 1]
    BY <2>1, SubSeqProperties
  <2>3. \A a \in 1..j-1 : a \in 1..j-2+1
    OBVIOUS
  <2> HIDE DEF d
  <2> QED
    BY <2>2, <2>3
<1> HIDE DEF h, d
<1>4. /\ b \in Seq(Byte) /\ Len(b) = 2 + j /\ b[2] = ts
      /\ \A a \in 1..j : b[2 + a] = m[a]
  <2>1. /\ b \in Seq(Byte) /\ Len(b) = Len(h) + Len(d)
        /\ \A a \in 1..Len(h) : b[a] = h[a]
        /\ \A a \in 1..Len(d) : b[Len(h) + a] = d[a]
    BY <1>2, <1>3, ConcatBytes, Zenon
  <2> HIDE DEF b
  <2>2. 2 \in 1..3 /\ 3 \in 1..3 /\ 3 + (j - 1) = 2 + j /\ 3 = 2 + 1
    OBVIOUS
  <2>3. b[2] = ts /\ b[2 + 1] = SOX
    BY <1>2, <2>1, <2>2, Zenon
  <2>4. ASSUME NEW a \in 1..j PROVE b[2 + a] = m[a]
    <3>1. CASE a = 1
      BY <1>1, <2>3, <3>1
    <3>2. CASE a # 1
      <4>1. a - 1 \in 1..j-1 /\ 3 + (a - 1) = 2 + a /\ 2 + (a - 1) - 1 = a
        BY <3>2
      <4>2. d[a - 1] = m[a]
        BY <1>3, <4>1, Zenon
      <4>3. b[Len(h) + (a - 1)] = d[a - 1]
        BY <1>3, <2>1, <4>1, Zenon
      <4> QED
        BY <1>2, <4>1, <4>2, <4>3, Zenon
    <3> QED
      BY <3>1, <3>2
  <2>5. Len(b) = 2 + j
    BY <1>2, <1>3, <2>1, <2>2, Zenon
  <2> QED
    BY <2>1, <2>3, <2>4, <2>5
<1> HIDE DEF b
<1>5. Within(s, k, j)
  <2>1. k < Len(s) /\ j \in 1..Len(m)-1
    BY <1>1, LenProperties
  <2> QED
    BY <2>1, Zenon DEF Within
<1>6. Copies(b, 2, m, 1, j) /\ High(b[2])
  BY <1>4, HighBytes DEF Copies
<1>7. PICK c \in [Nat -> Nat] : c[k] = 2
  <2>1. [n \in Nat |-> 2] \in [Nat -> Nat] /\ [n \in Nat |-> 2][k] = 2
    OBVIOUS
  <2> QED
    BY <2>1
<1>8. Laid(s, b, c, k, k, j, 0)
  <2>1. k <= k /\ k <= Len(s)
    BY LenProperties
  <2>2. \A q \in k..k : c[q] \in 2..Len(b)+1
    <3>1. \A q \in k..k : q = k
      OBVIOUS
    <3>2. 2 \in 2..Len(b)+1
      BY <1>4
    <3> QED
      BY <1>7, <3>1, <3>2, Zenon
  <2>3. \A q \in k..k-1 : FALSE
    OBVIOUS
  <2> QED
    BY <1>4, <1>5, <1>6, <1>7, <2>1, <2>2, <2>3, Zenon DEF Laid
<1>9. Carries(s, b, k, 0, k, j)
  <2>1. Len(b) >= 2
    BY <1>4
  <2> QED
    BY <1>7, <1>8, <2>1, Zenon DEF Carries, Starts
<1> QED
  BY <1>4, <1>5, <1>9 DEF b, h, d

-----------------------------------------------------------------------------
(* What FrameMessageMTU emits is laid out. *)

\* Where the bytes of a slice come from.
LEMMA SubBytes ==
  ASSUME NEW d \in Seq(Byte), NEW lo \in Nat, NEW hi \in Nat,
         lo >= 1, lo <= hi + 1, hi <= Len(d)
  PROVE  /\ SubSeq(d, lo, hi) \in Seq(Byte)
         /\ Len(SubSeq(d, lo, hi)) = hi + 1 - lo
         /\ \A a \in 1..hi+1-lo : SubSeq(d, lo, hi)[a] = d[lo + a - 1]
<1>1. Len(d) \in Nat
  BY LenProperties
<1>2. \A a \in lo..hi : a \in 1..Len(d)
  BY <1>1
<1>3. \A a \in lo..hi : d[a] \in Byte
  BY <1>2, ElementOfSeq
<1>4. /\ SubSeq(d, lo, hi) \in Seq(Byte)
      /\ Len(SubSeq(d, lo, hi)) = IF lo <= hi THEN hi - lo + 1 ELSE 0
      /\ \A a \in 1..hi-lo+1 : SubSeq(d, lo, hi)[a] = d[lo + a - 1]
  BY <1>3, SubSeqProperties
<1>5. \A a \in 1..hi+1-lo : a \in 1..hi-lo+1
  OBVIOUS
<1> QED
  BY <1>4, <1>5

\* After the first packet of a SysEx the rest of it is in body.
LEMMA FirstRests ==
  ASSUME NEW m \in Messages, IsSysex(m), NEW j \in Nat, j >= 1, j <= Len(m) - 1
  PROVE  Rests(SubSeq(m, j + 1, Len(m) - 1), m, j)
<1>1. PICK l \in Nat : l = Len(m) /\ m \in Seq(Byte)
  BY MessageBytes
<1>2. PICK hi \in Nat : hi = l - 1 /\ hi = Len(m) - 1
  BY <1>1
<1>3. /\ j + 1 \in Nat /\ j + 1 >= 1 /\ j + 1 <= hi + 1 /\ hi <= Len(m)
      /\ j \in 1..Len(m)-1 /\ hi + 1 - (j + 1) = hi - j
  BY <1>1, <1>2
<1> DEFINE d == SubSeq(m, j + 1, hi)
<1>4. /\ Len(d) = hi + 1 - (j + 1)
      /\ \A a \in 1..hi+1-(j+1) : d[a] = m[(j + 1) + a - 1]
  BY <1>1, <1>3, SubBytes
<1> HIDE DEF d
<1>5. \A a \in 1..hi-j : (j + 1) + a - 1 = j + a
  OBVIOUS
<1>6. \A a \in 1..Len(d) : d[a] = m[j + a]
  BY <1>3, <1>4, <1>5, Zenon
<1>7. Len(d) = Len(m) - 1 - j
  BY <1>2, <1>3, <1>4, Zenon
<1> QED
  BY <1>2, <1>3, <1>6, <1>7, Zenon DEF Rests, d

\* A middle packet takes the next bytes of body.
LEMMA MiddleRests ==
  ASSUME NEW m \in Messages, NEW j \in Nat, NEW d \in Seq(Byte), Rests(d, m, j),
         NEW take \in Nat, take >= 1, take <= Len(d)
  PROVE  /\ Rests(SubSeq(d, take + 1, Len(d)), m, j + take)
         /\ <<Header>> \o SubSeq(d, 1, take) \in Seq(Byte)
         /\ Len(<<Header>> \o SubSeq(d, 1, take)) = 1 + take
         /\ Copies(<<Header>> \o SubSeq(d, 1, take), 2 - j - 1, m, j + 1, j + take)
<1>1. Len(m) \in Nat /\ Len(d) \in Nat /\ m \in Seq(Byte)
  BY MessageBytes, LenProperties
<1>2. /\ IsSysex(m) /\ j \in 1..Len(m)-1
      /\ Len(d) = Len(m) - 1 - j
      /\ \A a \in 1..Len(d) : d[a] = m[j + a]
  BY Zenon DEF Rests
<1> DEFINE e == SubSeq(d, take + 1, Len(d))
           g == SubSeq(d, 1, take)
           h == <<Header>>
           b == h \o g
<1>3. /\ Len(e) = Len(d) - take
      /\ \A a \in 1..Len(d)-take : e[a] = d[take + a]
  <2>1. take + 1 \in Nat /\ take + 1 >= 1 /\ take + 1 <= Len(d) + 1
    BY <1>1
  <2>2. /\ Len(e) = Len(d) + 1 - (take + 1)
        /\ \A a \in 1..Len(d)+1-(take+1) : e[a] = d[(take + 1) + a - 1]
    BY <1>1, <2>1, SubBytes
  <2> HIDE DEF e
  <2>3. Len(d) + 1 - (take + 1) = Len(d) - take
    BY <1>1
  <2>4. \A a \in 1..Len(d)-take : (take + 1) + a - 1 = take + a
    OBVIOUS
  <2> QED
    BY <2>2, <2>3, <2>4
<1>4. /\ g \in Seq(Byte) /\ Len(g) = take
      /\ \A a \in 1..take : g[a] = d[a]
  <2>1. /\ g \in Seq(Byte) /\ Len(g) = take + 1 - 1
        /\ \A a \in 1..take+1-1 : g[a] = d[1 + a - 1]
    BY <1>1, SubBytes
  <2> HIDE DEF g
  <2> QED
    BY <2>1
<1>5. h \in Seq(Byte) /\ Len(h) = 1
  BY DEF Header, Byte
<1> HIDE DEF e, g, h
<1>6. /\ b \in Seq(Byte) /\ Len(b) = Len(h) + Len(g)
      /\ \A a \in 1..Len(g) : b[Len(h) + a] = g[a]
  BY <1>4, <1>5, ConcatBytes, Zenon
<1> HIDE DEF b
<1>7. Rests(e, m, j + take)
  <2>1. j + take \in 1..Len(m)-1 /\ Len(e) = Len(m) - 1 - (j + take)
    BY <1>1, <1>2, <1>3
  <2>2. \A a \in 1..Len(e) : take + a \in 1..Len(d) /\ a \in 1..Len(d)-take
                             /\ j + (take + a) = (j + take) + a
    BY <1>1, <1>3
  <2>3. \A a \in 1..Len(e) : e[a] = m[(j + take) + a]
    BY <1>2, <1>3, <2>2, Zenon
  <2> QED
    BY <1>2, <2>1, <2>3, Zenon DEF Rests
<1>8. Copies(b, 2 - j - 1, m, j + 1, j + take)
  <2> SUFFICES ASSUME NEW a \in j+1..j+take PROVE b[(2 - j - 1) + a] = m[a]
    BY DEF Copies
  <2>1. PICK c \in 1..take : c = a - j
    OBVIOUS
  <2>2. c \in 1..Len(d) /\ j + c = a /\ (2 - j - 1) + a = 1 + c
    BY <1>1, <2>1
  <2>3. d[c] = m[a]
    BY <1>2, <2>2, Zenon
  <2>4. b[1 + c] = d[c]
    BY <1>4, <1>5, <1>6, Zenon
  <2> QED
    BY <2>2, <2>3, <2>4, Zenon
<1>9. Len(b) = 1 + take
  BY <1>4, <1>5, <1>6
<1> QED
  BY <1>6, <1>7, <1>8, <1>9 DEF b, e, g, h

\* The bytes of the last packet: timestamp, what is left, timestamp and F7.
LEMMA LastBytes ==
  ASSUME NEW m \in Messages, NEW j \in Nat, NEW d \in Seq(Byte), Rests(d, m, j),
         NEW ts \in 128..255
  PROVE  \E b \in Seq(Byte), e \in Nat :
           /\ b = <<Header>> \o d \o <<ts, EOX>>
           /\ e = 2 + Len(m) - 1 - j /\ e >= 2 /\ Len(b) = e + 1
           /\ b[e] = ts /\ b[e + 1] = EOX
           /\ Copies(b, 2 - j - 1, m, j + 1, Len(m) - 1)
<1>1. Len(m) \in Nat /\ Len(d) \in Nat
  BY MessageBytes, LenProperties
<1>2. /\ j \in 1..Len(m)-1
      /\ Len(d) = Len(m) - 1 - j
      /\ \A a \in 1..Len(d) : d[a] = m[j + a]
  BY Zenon DEF Rests
<1> DEFINE h == <<Header>>
           f == <<ts, EOX>>
           g == h \o d
           b == g \o f
<1>3. h \in Seq(Byte) /\ Len(h) = 1
  BY DEF Header, Byte
<1>4. f \in Seq(Byte) /\ Len(f) = 2 /\ f[1] = ts /\ f[2] = EOX
  BY DEF EOX, Byte
<1> HIDE DEF h, f
<1>5. /\ g \in Seq(Byte) /\ Len(g) = Len(h) + Len(d)
      /\ \A a \in 1..Len(d) : g[Len(h) + a] = d[a]
  BY <1>3, ConcatBytes, Zenon
<1> HIDE DEF g
<1>6. /\ b \in Seq(Byte) /\ Len(b) = Len(g) + Len(f)
      /\ \A a \in 1..Len(g) : b[a] = g[a]
      /\ \A a \in 1..Len(f) : b[Len(g) + a] = f[a]
  BY <1>4, <1>5, ConcatBytes, Zenon
<1> HIDE DEF b
<1>7. PICK e \in Nat : /\ e = 2 + Len(m) - 1 - j /\ e >= 2
                       /\ e = Len(g) + 1 /\ e + 1 = Len(g) + 2
  <2>1. Len(g) = 1 + Len(d)
    BY <1>3, <1>5
  <2>2. 2 + Len(d) \in Nat /\ 2 + Len(d) = 2 + Len(m) - 1 - j
    BY <1>1, <1>2
  <2> QED
    BY <1>1, <2>1, <2>2
<1>8. b[e] = ts /\ b[e + 1] = EOX /\ Len(b) = e + 1
  <2>1. 1 \in 1..Len(f) /\ 2 \in 1..Len(f)
    BY <1>4
  <2>2. b[Len(g) + 1] = ts /\ b[Len(g) + 2] = EOX
    BY <1>4, <1>6, <2>1, Zenon
  <2> QED
    BY <1>4, <1>6, <1>7, <2>2, Zenon
<1>9. Copies(b, 2 - j - 1, m, j + 1, Len(m) - 1)
  <2> SUFFICES ASSUME NEW a \in j+1..Len(m)-1 PROVE b[(2 - j - 1) + a] = m[a]
    BY DEF Copies
  <2>1. PICK c \in 1..Len(d) : c = a - j
    BY <1>1, <1>2
  <2>2. j + c = a /\ (2 - j - 1) + a = 1 + c
    BY <1>1, <2>1
  <2>3. d[c] = m[a]
    BY <1>2, <2>2, Zenon
  <2>4. g[1 + c] = d[c]
    BY <1>3, <1>5, Zenon
  <2>5. 1 + c \in 1..Len(g)
    BY <1>1, <1>3, <1>5
  <2>6. b[1 + c] = g[1 + c]
    BY <1>6, <2>5, Zenon
  <2> QED
    BY <2>2, <2>3, <2>4, <2>6, Zenon
<1> QED
  BY <1>6, <1>7, <1>8, <1>9, Zenon DEF b, g, h, f

\* A SysEx in body is the message the wire stops in.
LEMMA RestsWithin ==
  ASSUME NEW s \in Seq(Messages), NEW k \in Nat, NEW j \in Nat,
         NEW m \in Messages, k + 1 = Len(s), s[k + 1] = m, NEW d, Rests(d, m, j)
  PROVE  Within(s, k, j)
<1>1. k < Len(s)
  BY LenProperties
<1> QED
  BY <1>1, Zenon DEF Within, Rests

\* Where the wire ends, for a packet to be put.
LEMMA LineEnds ==
  ASSUME IInv, Line, ~noisy
  PROVE  /\ Matches
         /\ \E cn, cj \in [Nat -> Nat], k, j \in Nat :
              /\ DecAt(cn[0], cj[0]) /\ Path(wire, sent, cn, cj)
              /\ k = cn[Len(wire)] /\ j = cj[Len(wire)] /\ EncAt(k, j)
<1>1. PICK cn \in [Nat -> Nat], cj \in [Nat -> Nat] :
        /\ DecAt(cn[0], cj[0]) /\ Path(wire, sent, cn, cj)
        /\ EncAt(cn[Len(wire)], cj[Len(wire)])
  BY Zenon DEF Line
<1>2. Len(wire) \in Nat
  BY LenProperties DEF IInv, TypeOK
<1>3. cn[Len(wire)] \in Nat /\ cj[Len(wire)] \in Nat
  BY <1>2
<1>4. Matches
  BY Zenon DEF Line
<1> QED
  BY <1>1, <1>3, <1>4, Zenon

\* Once a packet was lost nothing is claimed.
LEMMA NoisyTracks ==
  ASSUME noisy'
  PROVE  Line'
BY Zenon DEF Line

\* Line when FrameMessageMTU emits a message in one packet.
LEMMA WholeTracks ==
  ASSUME IInv, Line, NEW m \in Messages, NEW ts \in Stamps, FrameWhole(m, ts)
  PROVE  Line'
<1>0. SUFFICES ASSUME ~noisy PROVE Line'
  <2>1. noisy' <=> noisy
    BY Zenon DEF FrameWhole, Sends
  <2> QED
    BY <2>1, NoisyTracks, Zenon
<1>1. /\ enc = "idle" /\ enc' = enc /\ body' = body /\ sent' = sent \o <<m>>
      /\ Puts("frame", <<Header, ts>> \o m) /\ UNCHANGED decVars
  BY DEF FrameWhole, Sends, encVars
<1>2. PICK cn \in [Nat -> Nat], cj \in [Nat -> Nat], k \in Nat, j \in Nat :
        /\ DecAt(cn[0], cj[0]) /\ Path(wire, sent, cn, cj)
        /\ k = cn[Len(wire)] /\ j = cj[Len(wire)] /\ EncAt(k, j)
  BY <1>0, LineEnds, Zenon
<1>3. k = Len(sent) /\ j = 0
  BY <1>1, <1>2, Zenon DEF EncAt
<1>4. /\ sent' \in Seq(Messages) /\ Extends(sent, sent')
      /\ Len(sent') = k + 1 /\ sent'[k + 1] = m
  <2>1. sent \in Seq(Messages) /\ <<m>> \in Seq(Messages) /\ Len(<<m>>) = 1 /\ <<m>>[1] = m
    BY Types
  <2>2. PICK ms \in Seq(Messages) : ms = <<m>> /\ Len(ms) = 1 /\ ms[1] = m
    BY <2>1
  <2>3. sent' = sent \o ms
    BY <1>1, <2>2, Zenon
  <2>4. /\ sent' \in Seq(Messages) /\ Extends(sent, sent')
        /\ Len(sent') = Len(sent) + Len(ms)
        /\ \A a \in 1..Len(ms) : sent'[Len(sent) + a] = ms[a]
    BY <2>1, <2>3, ExtendsConcat, Zenon
  <2>5. 1 \in 1..Len(ms)
    BY <2>2
  <2> QED
    BY <1>3, <2>2, <2>4, <2>5, Zenon
<1>5. ts \in 128..255
  BY FramingAssumption
<1>6. PICK b \in Seq(Byte) :
        b = <<Header, ts>> \o m /\ Carries(sent', b, k, 0, k + 1, 0)
  BY <1>4, <1>5, WholeCarries, Zenon
<1>7. EncAt(k + 1, 0)'
  BY <1>1, <1>4, Zenon DEF EncAt
<1>8. k + 1 \in Nat /\ 0 \in Nat
  OBVIOUS
<1>9. Puts("frame", b)
  BY <1>1, <1>6
<1>10. Carries(sent', b, cn[Len(wire)], cj[Len(wire)], k + 1, 0)
  BY <1>2, <1>3, <1>6, Zenon
<1> QED
  BY <1>0, <1>1, <1>2, <1>4, <1>7, <1>8, <1>9, <1>10, PutTracks, LineEnds, Zenon

\* Line when it emits the first packet of a SysEx.
LEMMA FirstTracks ==
  ASSUME IInv, Line, NEW m \in Messages, NEW ts \in Stamps, FrameFirst(m, ts)
  PROVE  Line'
<1>0. SUFFICES ASSUME ~noisy PROVE Line'
  <2>1. noisy' <=> noisy
    BY Zenon DEF FrameFirst, Sends
  <2> QED
    BY <2>1, NoisyTracks, Zenon
<1>1. /\ enc = "idle" /\ enc' = "chunking" /\ sent' = sent \o <<m>>
      /\ body' = SubSeq(m, Mtu - 1, Len(m) - 1)
      /\ Puts("frame", <<Header, ts, SOX>> \o SubSeq(m, 2, Mtu - 2))
      /\ UNCHANGED decVars
  BY DEF FrameFirst, Sends
<1>2. PICK cn \in [Nat -> Nat], cj \in [Nat -> Nat], k \in Nat, j \in Nat :
        /\ DecAt(cn[0], cj[0]) /\ Path(wire, sent, cn, cj)
        /\ k = cn[Len(wire)] /\ j = cj[Len(wire)] /\ EncAt(k, j)
  BY <1>0, LineEnds, Zenon
<1>3. k = Len(sent) /\ j = 0
  BY <1>1, <1>2, Zenon DEF EncAt
<1>4. /\ sent' \in Seq(Messages) /\ Extends(sent, sent')
      /\ Len(sent') = k + 1 /\ sent'[k + 1] = m
  <2>1. sent \in Seq(Messages) /\ <<m>> \in Seq(Messages) /\ Len(<<m>>) = 1 /\ <<m>>[1] = m
    BY Types
  <2>2. PICK ms \in Seq(Messages) : ms = <<m>> /\ Len(ms) = 1 /\ ms[1] = m
    BY <2>1
  <2>3. sent' = sent \o ms
    BY <1>1, <2>2, Zenon
  <2>4. /\ sent' \in Seq(Messages) /\ Extends(sent, sent')
        /\ Len(sent') = Len(sent) + Len(ms)
        /\ \A a \in 1..Len(ms) : sent'[Len(sent) + a] = ms[a]
    BY <2>1, <2>3, ExtendsConcat, Zenon
  <2>5. 1 \in 1..Len(ms)
    BY <2>2
  <2> QED
    BY <1>3, <2>2, <2>4, <2>5, Zenon
<1>5. ts \in 128..255
  BY FramingAssumption
<1>6. /\ IsSysex(m) /\ Mtu - 2 \in Nat /\ Mtu - 2 >= 2 /\ Mtu - 2 <= Len(m) - 1
      /\ Mtu \in Nat
  <2>1. Mtu \in Nat /\ ~(Mtu < 4 \/ Len(m) + 2 <= Mtu \/ ~IsSysex(m))
    BY FramingAssumption DEF FrameFirst, OnePacket
  <2>2. Len(m) \in Nat
    BY MessageBytes
  <2> QED
    BY <2>1, <2>2
<1>7. PICK j2 \in Nat : j2 = Mtu - 2 /\ j2 >= 2 /\ j2 <= Len(m) - 1 /\ Mtu - 1 = j2 + 1
  BY <1>6
<1>8. PICK b \in Seq(Byte) :
        b = <<Header, ts, SOX>> \o SubSeq(m, 2, j2) /\ Carries(sent', b, k, 0, k, j2)
  BY <1>4, <1>5, <1>6, <1>7, FirstCarries, Zenon
<1>9. Rests(body', m, j2)
  <2>1. j2 >= 1
    BY <1>7
  <2>2. Rests(SubSeq(m, j2 + 1, Len(m) - 1), m, j2)
    BY <1>6, <1>7, <2>1, FirstRests
  <2> QED
    BY <1>1, <1>7, <2>2, Zenon
<1>10. EncAt(k, j2)'
  BY <1>1, <1>4, <1>9, Zenon DEF EncAt
<1>11. Puts("frame", b)
  BY <1>1, <1>7, <1>8
<1>12. Carries(sent', b, cn[Len(wire)], cj[Len(wire)], k, j2)
  BY <1>2, <1>3, <1>8, Zenon
<1> QED
  BY <1>0, <1>1, <1>2, <1>4, <1>10, <1>11, <1>12, PutTracks, LineEnds, Zenon

-----------------------------------------------------------------------------
(* The sender's steps and the decoder's. *)

\* The SysEx that is being chunked.
LEMMA ChunkingAt ==
  ASSUME IInv, enc = "chunking", NEW k \in Nat, NEW j \in Nat, EncAt(k, j)
  PROVE  \E m \in Messages : /\ k + 1 = Len(sent) /\ sent[k + 1] = m
                             /\ Rests(body, m, j) /\ j # 0
<1>1. k + 1 = Len(sent) /\ Rests(body, sent[k + 1], j)
  BY Zenon DEF EncAt
<1>2. sent \in Seq(Messages) /\ k + 1 \in 1..Len(sent)
  BY <1>1, Types
<1>3. PICK m \in Messages : m = sent[k + 1]
  BY <1>2, ElementOfSeq
<1>4. j \in 1..Len(m)-1
  BY <1>1, <1>3, Zenon DEF Rests
<1>5. j # 0
  BY <1>4
<1> QED
  BY <1>1, <1>3, <1>5, Zenon

\* Line when it emits a middle packet.
LEMMA MiddleTracks ==
  ASSUME IInv, Line, FrameMiddle
  PROVE  Line'
<1>0. SUFFICES ASSUME ~noisy PROVE Line'
  <2>1. noisy' <=> noisy
    BY Zenon DEF FrameMiddle, Chunks, history
  <2> QED
    BY <2>1, NoisyTracks, Zenon
<1>a. /\ enc = "chunking" /\ enc' = enc /\ sent' = sent /\ UNCHANGED decVars
      /\ body # <<>>
  BY DEF FrameMiddle, Chunks, history
<1>4. body \in Seq(Data) /\ body \in Seq(Byte) /\ Len(body) \in Nat
  <2>1. body \in Seq(Data)
    BY DEF IInv, TypeOK
  <2> QED
    BY <2>1, SeqMonotonic, LenProperties DEF Data, Byte
<1>5. PICK take \in Nat : /\ take = IF Room > Len(body) THEN Len(body) ELSE Room
                         /\ take >= 1 /\ take <= Len(body)
  <2>1. Mtu \in Nat /\ Mtu >= 4
    BY <1>a, FramingAssumption DEF IInv, ChunkingRoom
  <2>2. PICK l \in Nat : l = Len(body) /\ l # 0
    BY <1>a, <1>4, EmptySeq
  <2>3. Room \in Nat /\ Room >= 1
    BY <2>1 DEF Room
  <2>4. (IF Room > l THEN l ELSE Room) \in Nat
        /\ (IF Room > l THEN l ELSE Room) >= 1 /\ (IF Room > l THEN l ELSE Room) <= l
    BY <2>2, <2>3
  <2> QED
    BY <2>2, <2>4, Zenon
<1>1. /\ enc = "chunking" /\ enc' = enc /\ sent' = sent /\ UNCHANGED decVars
      /\ Puts("frame", <<Header>> \o SubSeq(body, 1, take))
      /\ body' = SubSeq(body, take + 1, Len(body))
  BY <1>a, <1>5, Zenon DEF FrameMiddle
<1>2. PICK cn \in [Nat -> Nat], cj \in [Nat -> Nat], k \in Nat, j \in Nat :
        /\ DecAt(cn[0], cj[0]) /\ Path(wire, sent, cn, cj)
        /\ k = cn[Len(wire)] /\ j = cj[Len(wire)] /\ EncAt(k, j)
  BY <1>0, LineEnds, Zenon
<1>3. PICK m \in Messages : /\ k + 1 = Len(sent) /\ sent[k + 1] = m
                            /\ Rests(body, m, j) /\ j # 0
  BY <1>1, <1>2, ChunkingAt
<1>r. Rests(body, m, j)
  BY <1>3
<1>b. body \in Seq(Byte) /\ take >= 1 /\ take <= Len(body)
  BY <1>4, <1>5, Zenon
<1>6. /\ Rests(body', m, j + take)
      /\ <<Header>> \o SubSeq(body, 1, take) \in Seq(Byte)
      /\ Len(<<Header>> \o SubSeq(body, 1, take)) = 1 + take
      /\ Copies(<<Header>> \o SubSeq(body, 1, take), 2 - j - 1, m, j + 1, j + take)
  <2>1. /\ Rests(SubSeq(body, take + 1, Len(body)), m, j + take)
        /\ <<Header>> \o SubSeq(body, 1, take) \in Seq(Byte)
        /\ Len(<<Header>> \o SubSeq(body, 1, take)) = 1 + take
        /\ Copies(<<Header>> \o SubSeq(body, 1, take), 2 - j - 1, m, j + 1, j + take)
    BY <1>r, <1>b, MiddleRests
  <2> QED
    BY <1>1, <2>1, Zenon
<1>7. PICK b \in Seq(Byte) :
        /\ b = <<Header>> \o SubSeq(body, 1, take)
        /\ Len(b) = 1 + take /\ Copies(b, 2 - j - 1, m, j + 1, j + take)
  BY <1>6, Zenon
<1>n. take >= 1 /\ Len(b) = 1 + take
  BY <1>5, <1>7, Zenon
<1>8. sent \in Seq(Messages)
  BY Types
<1>9. Within(sent, k, j) /\ Within(sent, k, j + take)
  <2>1. j + take \in Nat
    OBVIOUS
  <2> QED
    BY <1>3, <1>6, <1>8, <2>1, RestsWithin
<1>10. Carries(sent, b, k, j, k, j + take)
  <2>1. j <= j + take /\ Len(b) = 2 + ((j + take) - j) - 1 /\ Len(b) >= 2
    BY <1>n
  <2>2. Continues(sent, b, 2, k, j, k, j + take)
    BY <1>3, <1>7, <1>9, <2>1, Zenon DEF Continues
  <2> QED
    BY <1>3, <2>1, <2>2, Zenon DEF Carries
<1>11. EncAt(k, j + take)'
  BY <1>1, <1>3, <1>6, Zenon DEF EncAt
<1>12. j + take \in Nat
  OBVIOUS
<1>13. sent' \in Seq(Messages) /\ Extends(sent, sent')
  BY <1>1, <1>8, ExtendsSelf
<1>14. Carries(sent', b, cn[Len(wire)], cj[Len(wire)], k, j + take)
  BY <1>1, <1>2, <1>10, Zenon
<1>15. Puts("frame", b)
  BY <1>1, <1>7
<1> QED
  BY <1>0, <1>1, <1>2, <1>11, <1>12, <1>13, <1>14, <1>15, PutTracks, LineEnds, Zenon

\* Line when it emits the last packet.
LEMMA LastTracks ==
  ASSUME IInv, Line, FrameLast
  PROVE  Line'
<1>0. SUFFICES ASSUME ~noisy PROVE Line'
  <2>1. noisy' <=> noisy
    BY Zenon DEF FrameLast, Chunks, history
  <2> QED
    BY <2>1, NoisyTracks, Zenon
<1>1. /\ enc = "chunking" /\ enc' = "idle" /\ sent' = sent /\ UNCHANGED decVars
      /\ Puts("frame", <<Header>> \o body \o <<stamp, EOX>>)
  BY DEF FrameLast, Chunks, history
<1>2. PICK cn \in [Nat -> Nat], cj \in [Nat -> Nat], k \in Nat, j \in Nat :
        /\ DecAt(cn[0], cj[0]) /\ Path(wire, sent, cn, cj)
        /\ k = cn[Len(wire)] /\ j = cj[Len(wire)] /\ EncAt(k, j)
  BY <1>0, LineEnds, Zenon
<1>3. PICK m \in Messages : /\ k + 1 = Len(sent) /\ sent[k + 1] = m
                            /\ Rests(body, m, j) /\ j # 0
  BY <1>1, <1>2, ChunkingAt
<1>4. body \in Seq(Byte) /\ stamp \in 128..255
  <2>1. body \in Seq(Data) /\ stamp \in 128..255
    BY DEF IInv, TypeOK
  <2> QED
    BY <2>1, SeqMonotonic DEF Data, Byte
<1>5. PICK b \in Seq(Byte), e \in Nat :
        /\ b = <<Header>> \o body \o <<stamp, EOX>>
        /\ e = 2 + Len(m) - 1 - j /\ e >= 2 /\ Len(b) = e + 1
        /\ b[e] = stamp /\ b[e + 1] = EOX
        /\ Copies(b, 2 - j - 1, m, j + 1, Len(m) - 1)
  <2>1. Rests(body, m, j)
    BY <1>3
  <2> QED
    BY <1>4, <2>1, LastBytes, ZenonT(30)
<1>n. e >= 2 /\ Len(b) = e + 1
  BY <1>5, Zenon
<1>6. sent \in Seq(Messages)
  BY Types
<1>7. Within(sent, k, j)
  BY <1>3, <1>6, RestsWithin
<1>8. Starts(sent, b, e + 2, k + 1, k + 1, 0, 0)
  <2>1. PICK y \in Nat : y = e + 2 /\ y = Len(b) + 1 /\ y \in 2..Len(b)+1
    BY <1>n
  <2>2. PICK c \in [Nat -> Nat] : c[k + 1] = y
    <3>1. [n \in Nat |-> y] \in [Nat -> Nat] /\ [n \in Nat |-> y][k + 1] = y
      OBVIOUS
    <3> QED
      BY <3>1
  <2>3. /\ k + 1 <= k + 1 /\ k + 1 <= Len(sent)
        /\ \A q \in k+1..k+1 : q = k + 1
        /\ \A q \in k+1..(k+1)-1 : FALSE
    <3>1. PICK l \in Nat : l = Len(sent) /\ k + 1 = l
      BY <1>3, Types, Zenon
    <3>2. k + 1 <= k + 1 /\ k + 1 <= l
      BY <3>1
    <3>3. /\ \A q \in k+1..k+1 : q = k + 1
          /\ \A q \in k+1..(k+1)-1 : FALSE
      OBVIOUS
    <3> QED
      BY <3>1, <3>2, <3>3, Zenon
  <2>4. Laid(sent, b, c, k + 1, k + 1, 0, 0)
    BY <2>1, <2>2, <2>3, Zenon DEF Laid
  <2> QED
    BY <2>1, <2>2, <2>4, Zenon DEF Starts
<1>9. Closes(sent, b, e, k + 1, k + 1, 0)
  <2>1. e < Len(b)
    BY <1>n
  <2>2. CASE stamp = EOX
    BY <1>5, <2>2, Zenon DEF Closes
  <2>3. CASE stamp # EOX
    <3>1. High(b[e])
      <4>1. High(stamp)
        BY <1>4, HighBytes
      <4> QED
        BY <1>5, <4>1, Zenon
    <3> QED
      BY <1>5, <1>8, <2>1, <2>3, <3>1, Zenon DEF Closes
  <2> QED
    BY <2>2, <2>3
<1>10. Carries(sent, b, k, j, k + 1, 0)
  <2>1. Len(b) >= 2
    BY <1>5
  <2>2. Continues(sent, b, 2, k, j, k + 1, 0)
    BY <1>3, <1>5, <1>7, <1>9, Zenon DEF Continues
  <2> QED
    BY <1>3, <2>1, <2>2, Zenon DEF Carries
<1>11. EncAt(k + 1, 0)'
  BY <1>1, <1>3, Zenon DEF EncAt
<1>12. k + 1 \in Nat /\ 0 \in Nat
  OBVIOUS
<1>13. sent' \in Seq(Messages) /\ Extends(sent, sent')
  BY <1>1, <1>6, ExtendsSelf
<1>14. Carries(sent', b, cn[Len(wire)], cj[Len(wire)], k + 1, 0)
  BY <1>1, <1>2, <1>10, Zenon
<1>15. Puts("frame", b)
  BY <1>1, <1>5
<1> QED
  BY <1>0, <1>1, <1>2, <1>11, <1>12, <1>13, <1>14, <1>15, PutTracks, LineEnds, Zenon

\* Line when a packet is lost or an alien one arrives.
LEMMA DisturbsTracks ==
  ASSUME Disturbs
  PROVE  Line'
<1>1. noisy'
  BY Zenon DEF Disturbs
<1> QED
  BY <1>1, NoisyTracks

\* Steps of the decoder inside a packet.
LEMMA DecodesTracks ==
  ASSUME IInv, Line, noisy' <=> noisy,
         sent' = sent, wire' = wire, enc' = enc, body' = body,
         \A t \in Nat, j \in Nat : Matches /\ DecAt(t, j) => DecAt(t, j)' /\ Matches'
  PROVE  Line'
<1>0. SUFFICES ASSUME ~noisy PROVE Line'
  BY NoisyTracks, Zenon
<1>1. PICK cn \in [Nat -> Nat], cj \in [Nat -> Nat] :
        /\ DecAt(cn[0], cj[0]) /\ Path(wire, sent, cn, cj)
        /\ EncAt(cn[Len(wire)], cj[Len(wire)])
  BY <1>0, Zenon DEF Line
<1>2. PICK k \in Nat, j \in Nat : k = cn[0] /\ j = cj[0]
  <2>1. cn[0] \in Nat /\ cj[0] \in Nat
    OBVIOUS
  <2> QED
    BY <2>1
<1>3. Matches
  BY <1>0, Zenon DEF Line
<1>4. DecAt(k, j)' /\ Matches'
  BY <1>1, <1>2, <1>3, Zenon
<1>5. DecAt(cn[0], cj[0])'
  BY <1>2, <1>4, Zenon DEF DecAt
<1>6. Path(wire', sent', cn, cj)
  BY <1>1, Zenon
<1>7. EncAt(cn[Len(wire)], cj[Len(wire)])'
  BY <1>1, Zenon DEF EncAt
<1> QED
  BY <1>4, <1>5, <1>6, <1>7, Zenon DEF Line

\* Line over every step the decoder takes inside a packet.
LEMMA InPacketTracks ==
  ASSUME IInv, Line,
         SysexEnds \/ SysexSkips \/ SysexData \/ SysexPauses
           \/ LoopOpensSysex \/ LoopMessage \/ LoopStops
  PROVE  Line'
<1>1. \A t \in Nat, j \in Nat : Matches /\ DecAt(t, j) => DecAt(t, j)' /\ Matches'
  BY DataTracks, SkipTracks, PauseTracks, EndTracks, StopTracks, OpenTracks,
     MessageTracks
<1>2. \E at \in {"sysex", "loop"}, next \in {"idle", "sysex", "loop"} : Decodes(at, next)
  <2>1. \/ Decodes("sysex", "loop") \/ Decodes("sysex", "sysex")
        \/ Decodes("loop", "sysex") \/ Decodes("loop", "loop") \/ Decodes("loop", "idle")
    BY Zenon DEF SysexEnds, SysexSkips, SysexData, SysexPauses, LoopOpensSysex,
                 LoopMessage, LoopStops
  <2> QED
    BY <2>1
<1>3. sent' = sent /\ wire' = wire /\ enc' = enc /\ body' = body
  BY <1>2, DecodesLeaves
<1>4. noisy' <=> noisy
  <2>1. PICK at \in {"sysex", "loop"}, next \in {"idle", "sysex", "loop"} :
          Decodes(at, next)
    BY <1>2
  <2> QED
    BY <2>1, Zenon DEF Decodes, history
<1> QED
  BY <1>1, <1>3, <1>4, DecodesTracks

-----------------------------------------------------------------------------
(* The bundle of a device. *)

\* b, from x on, is w.
Placed(b, x, w) == \A d \in 1..Len(w) : b[x + d - 1] = w[d]

\* The bytes of a message in a bundle.
StampedAt(b, x, m, ts, r, l) ==
  /\ b[x] = ts /\ l >= 1
  /\ r => l = Len(m) /\ Copies(b, x - 1, m, 2, Len(m))
  /\ ~r /\ IsSysex(m)
     => /\ l = 2 + Len(m) /\ Copies(b, x, m, 1, Len(m) - 1)
        /\ b[x + Len(m)] = ts /\ b[x + (Len(m) + 1)] = EOX
  /\ ~r /\ ~IsSysex(m) => l = 1 + Len(m) /\ Copies(b, x, m, 1, Len(m))

\* A message of a bundle has them where it is placed.
LEMMA StampedBytes ==
  ASSUME NEW m \in Messages, NEW ts \in 128..255, NEW r \in BOOLEAN,
         NEW b \in Seq(Byte), NEW x \in Nat,
         Placed(b, x, Stamped(m, ts, r))
  PROVE  StampedAt(b, x, m, ts, r, Len(Stamped(m, ts, r)))
<1> DEFINE t == <<ts>>
           rest == IF r THEN Tail(m)
                   ELSE IF IsSysex(m) THEN SubSeq(m, 1, Len(m) - 1) \o <<ts, EOX>>
                   ELSE m
           w == t \o rest
<1>1. m \in Seq(Byte) /\ Len(m) \in Nat /\ Len(m) >= 1 /\ m # <<>>
  BY MessageBytes, EmptySeq
<1>2. t \in Seq(Byte) /\ Len(t) = 1 /\ t[1] = ts
  BY DEF Byte
<1>3. w = Stamped(m, ts, r)
  BY Zenon DEF Stamped
<1>4. ts \in Byte
  BY DEF Byte
<1>5. r => /\ rest \in Seq(Byte) /\ Len(rest) = Len(m) - 1
           /\ \A a \in 1..Len(m)-1 : rest[a] = m[a + 1]
  <2>1. /\ Tail(m) \in Seq(Byte) /\ Len(Tail(m)) = Len(m) - 1
        /\ \A a \in 1..Len(Tail(m)) : Tail(m)[a] = m[a + 1]
    BY <1>1, HeadTailProperties
  <2> QED
    BY <2>1, Zenon
<1>6. ~r /\ IsSysex(m)
        => /\ rest \in Seq(Byte) /\ Len(rest) = Len(m) + 1
           /\ \A a \in 1..Len(m)-1 : rest[a] = m[a]
           /\ rest[Len(m)] = ts /\ rest[Len(m) + 1] = EOX
  <2> SUFFICES ASSUME ~r, IsSysex(m)
               PROVE  /\ rest \in Seq(Byte) /\ Len(rest) = Len(m) + 1
                      /\ \A a \in 1..Len(m)-1 : rest[a] = m[a]
                      /\ rest[Len(m)] = ts /\ rest[Len(m) + 1] = EOX
    BY Zenon
  <2> DEFINE g == SubSeq(m, 1, Len(m) - 1)
             f == <<ts, EOX>>
             u == g \o f
  <2>1. PICK hi \in Nat : hi = Len(m) - 1
    BY <1>1
  <2>2. /\ g \in Seq(Byte) /\ Len(g) = hi
        /\ \A a \in 1..hi : g[a] = m[a]
    <3>1. 1 \in Nat /\ 1 <= hi + 1 /\ hi <= Len(m) /\ hi + 1 - 1 = hi
          /\ \A a \in 1..hi : 1 + a - 1 = a
      BY <1>1, <2>1
    <3>2. /\ SubSeq(m, 1, hi) \in Seq(Byte) /\ Len(SubSeq(m, 1, hi)) = hi + 1 - 1
          /\ \A a \in 1..hi+1-1 : SubSeq(m, 1, hi)[a] = m[1 + a - 1]
      BY <1>1, <3>1, SubBytes
    <3>3. g = SubSeq(m, 1, hi)
      BY <2>1
    <3> HIDE DEF g
    <3> QED
      BY <3>1, <3>2, <3>3, Zenon
  <2>3. f \in Seq(Byte) /\ Len(f) = 2 /\ f[1] = ts /\ f[2] = EOX
    BY <1>4 DEF EOX, Byte
  <2> HIDE DEF g, f
  <2>4. /\ u \in Seq(Byte) /\ Len(u) = Len(g) + Len(f)
        /\ \A a \in 1..Len(g) : u[a] = g[a]
        /\ \A a \in 1..Len(f) : u[Len(g) + a] = f[a]
    BY <2>2, <2>3, ConcatBytes, Zenon
  <2>5. rest = u
    BY Zenon DEF g, f
  <2> HIDE DEF u, rest
  <2>6. hi + 1 = Len(m) /\ hi + 2 = Len(m) + 1 /\ 1 \in 1..2 /\ 2 \in 1..2
    BY <1>1, <2>1
  <2>7. u[Len(m)] = ts /\ u[Len(m) + 1] = EOX /\ Len(u) = Len(m) + 1
    BY <2>2, <2>3, <2>4, <2>6, Zenon
  <2>8. \A a \in 1..Len(m)-1 : u[a] = m[a]
    BY <2>1, <2>2, <2>4, Zenon
  <2> QED
    BY <2>4, <2>5, <2>7, <2>8, Zenon
<1>7. ~r /\ ~IsSysex(m) => rest = m
  BY Zenon
<1>8. rest \in Seq(Byte) /\ Len(rest) \in Nat
  BY <1>1, <1>5, <1>6, <1>7, LenProperties
<1> HIDE DEF t, rest
<1>9. /\ w \in Seq(Byte) /\ Len(w) = Len(t) + Len(rest)
      /\ \A a \in 1..Len(t) : w[a] = t[a]
      /\ \A a \in 1..Len(rest) : w[Len(t) + a] = rest[a]
  BY <1>2, <1>8, ConcatBytes, Zenon
<1> HIDE DEF w
<1>10. Len(w) = 1 + Len(rest)
  BY <1>2, <1>9, Zenon
<1>11. \A d \in 1..Len(w) : b[x + d - 1] = w[d]
  BY <1>3, Zenon DEF Placed
<1>12. b[x] = ts
  <2>1. 1 \in 1..Len(t) /\ 1 \in 1..Len(w) /\ x + 1 - 1 = x
    BY <1>2, <1>8, <1>10
  <2> QED
    BY <1>2, <1>9, <1>11, <2>1, Zenon
<1>13. \A a \in 1..Len(rest) : b[x + a] = rest[a]
  <2> SUFFICES ASSUME NEW a \in 1..Len(rest) PROVE b[x + a] = rest[a]
    OBVIOUS
  <2>1. 1 + a \in 1..Len(w) /\ x + (1 + a) - 1 = x + a
    BY <1>8, <1>10
  <2> QED
    BY <1>2, <1>9, <1>11, <2>1, Zenon
<1>14. CASE r
  <2>1. Len(w) = Len(m)
    BY <1>1, <1>5, <1>10, <1>14
  <2>2. Copies(b, x - 1, m, 2, Len(m))
    <3> SUFFICES ASSUME NEW a \in 2..Len(m) PROVE b[(x - 1) + a] = m[a]
      BY DEF Copies
    <3>1. PICK c \in 1..Len(m)-1 : c = a - 1
      BY <1>1
    <3>2. x + c = (x - 1) + a /\ c + 1 = a
      BY <3>1
    <3>3. Len(rest) = Len(m) - 1 /\ rest[c] = m[c + 1]
      BY <1>5, <1>14, Zenon
    <3> QED
      BY <1>13, <3>2, <3>3, Zenon
  <2>3. Len(w) >= 1
    BY <1>1, <2>1
  <2> QED
    BY <1>3, <1>12, <1>14, <2>1, <2>2, <2>3, Zenon DEF StampedAt
<1>15. CASE ~r /\ IsSysex(m)
  <2>0. /\ Len(rest) = Len(m) + 1
        /\ \A a \in 1..Len(m)-1 : rest[a] = m[a]
        /\ rest[Len(m)] = ts /\ rest[Len(m) + 1] = EOX
    BY <1>6, <1>15, Zenon
  <2>1. /\ Len(w) = 2 + Len(m) /\ Len(w) >= 1
        /\ Len(m) \in 1..Len(rest) /\ Len(m) + 1 \in 1..Len(rest)
        /\ \A a \in 1..Len(m)-1 : a \in 1..Len(rest)
    BY <1>1, <1>10, <2>0
  <2>2. Copies(b, x, m, 1, Len(m) - 1)
    BY <1>13, <2>0, <2>1, Zenon DEF Copies
  <2>3. b[x + Len(m)] = ts /\ b[x + (Len(m) + 1)] = EOX
    BY <1>13, <2>0, <2>1, Zenon
  <2> QED
    BY <1>3, <1>12, <1>15, <2>1, <2>2, <2>3, Zenon DEF StampedAt
<1>16. CASE ~r /\ ~IsSysex(m)
  <2>0. rest = m
    BY <1>7, <1>16
  <2>1. Len(w) = 1 + Len(m) /\ Len(w) >= 1
    BY <1>1, <1>10, <2>0
  <2>2. Copies(b, x, m, 1, Len(m))
    BY <1>13, <2>0, Zenon DEF Copies
  <2> QED
    BY <1>3, <1>12, <1>16, <2>1, <2>2, Zenon DEF StampedAt
<1> QED
  BY <1>14, <1>15, <1>16

\* The part of a message in a bundle is a segment.
LEMMA StampedSegment ==
  ASSUME NEW m \in Messages, NEW ts \in 128..255, ts # EOX, NEW r \in BOOLEAN,
         NEW b \in Seq(Byte), NEW x \in Nat,
         Placed(b, x, Stamped(m, ts, r))
  PROVE  /\ Segment(b, x, x + Len(Stamped(m, ts, r)), m)
         /\ Len(Stamped(m, ts, r)) = Len(m) => r
         /\ Len(Stamped(m, ts, r)) >= 1
<1>1. StampedAt(b, x, m, ts, r, Len(Stamped(m, ts, r)))
  BY StampedBytes
<1>2. PICK l \in Nat, n \in Nat : l = Len(Stamped(m, ts, r)) /\ n = Len(m)
  <2>1. ts \in Byte
    BY DEF Byte
  <2>2. Stamped(m, ts, r) \in Seq(Byte)
    BY <2>1, StampedType, Zenon
  <2> QED
    BY <2>2, MessageBytes, LenProperties
<1>3. b[x] = ts /\ High(ts) /\ l >= 1
  BY <1>1, <1>2, HighBytes, Zenon DEF StampedAt
<1>4. CASE r
  <2>1. l = n /\ Copies(b, x - 1, m, 2, n)
    BY <1>1, <1>2, <1>4, Zenon DEF StampedAt
  <2>2. Segment(b, x, x + l, m)
    BY <1>2, <1>3, <2>1, Zenon DEF Segment
  <2> QED
    BY <1>2, <1>3, <1>4, <2>2, Zenon
<1>5. CASE ~r /\ IsSysex(m)
  <2>1. /\ l = 2 + n /\ Copies(b, x, m, 1, n - 1)
        /\ b[x + n] = ts /\ b[x + (n + 1)] = EOX
    BY <1>1, <1>2, <1>5, Zenon DEF StampedAt
  <2>2. /\ l # n /\ x + l = x + 2 + n
        /\ (x + l) - 2 = x + n /\ (x + l) - 1 = x + (n + 1)
    <3>1. l = 2 + n
      BY <2>1
    <3> QED
      BY <3>1
  <2>3. Segment(b, x, x + l, m)
    BY <1>2, <1>3, <1>5, <2>1, <2>2, Zenon DEF Segment
  <2> QED
    BY <1>2, <1>3, <2>2, <2>3, Zenon
<1>6. CASE ~r /\ ~IsSysex(m)
  <2>1. l = 1 + n /\ Copies(b, x, m, 1, n)
    BY <1>1, <1>2, <1>6, Zenon DEF StampedAt
  <2>2. l # n /\ x + l = x + 1 + n
    <3>1. l = 1 + n
      BY <2>1
    <3> QED
      BY <3>1
  <2>3. Segment(b, x, x + l, m)
    BY <1>2, <1>3, <2>1, <2>2, Zenon DEF Segment
  <2> QED
    BY <1>2, <1>3, <2>2, <2>3, Zenon
<1> QED
  BY <1>4, <1>5, <1>6

\* Part a of a bundle.
Part(ms, ts, runs, a) ==
  IF a > Len(ms) THEN <<>> ELSE Stamped(ms[a], ts, runs /\ Repeats(ms, a))

\* Where the parts of a bundle are.
LEMMA BundleParts ==
  ASSUME NEW ms \in Bundles, NEW ts \in 128..255, NEW runs \in BOOLEAN
  PROVE  \E b \in Seq(Byte), x1, x2, x3, x4 \in Nat :
           /\ b = Bundle(ms, ts, runs)
           /\ x1 = 2 /\ x2 = x1 + Len(Part(ms, ts, runs, 1))
           /\ x3 = x2 + Len(Part(ms, ts, runs, 2))
           /\ x4 = x3 + Len(Part(ms, ts, runs, 3)) /\ x4 = Len(b) + 1
           /\ Placed(b, x1, Part(ms, ts, runs, 1))
           /\ Placed(b, x2, Part(ms, ts, runs, 2))
           /\ Placed(b, x3, Part(ms, ts, runs, 3))
<1>1. ASSUME NEW a \in {1, 2, 3} PROVE Part(ms, ts, runs, a) \in Seq(Byte)
  <2>0. ms \in Seq(Messages) /\ Len(ms) \in Nat
    BY FramingAssumption, LenProperties
  <2>1. CASE a > Len(ms)
    BY <2>1, EmptySeq DEF Part
  <2>2. CASE ~(a > Len(ms))
    <3>1. ms[a] \in Messages
      BY <2>0, <2>2, ElementOfSeq
    <3>2. (runs /\ Repeats(ms, a)) \in BOOLEAN
      BY Zenon
    <3>3. ts \in Byte
      BY DEF Byte
    <3> QED
      BY <2>2, <3>1, <3>2, <3>3, StampedType DEF Part
  <2> QED
    BY <2>1, <2>2
<1>2. PICK w1 \in Seq(Byte), w2 \in Seq(Byte), w3 \in Seq(Byte) :
        /\ w1 = Part(ms, ts, runs, 1) /\ w2 = Part(ms, ts, runs, 2)
        /\ w3 = Part(ms, ts, runs, 3)
  <2>1. /\ Part(ms, ts, runs, 1) \in Seq(Byte) /\ Part(ms, ts, runs, 2) \in Seq(Byte)
        /\ Part(ms, ts, runs, 3) \in Seq(Byte)
    BY <1>1
  <2> QED
    BY <2>1, Zenon
<1> DEFINE h == <<Header>>
           u == h \o w1
           v == u \o w2
           b == v \o w3
<1>3. b = Bundle(ms, ts, runs)
  BY <1>2, Zenon DEF Bundle, Part
<1>4. h \in Seq(Byte) /\ Len(h) = 1
  BY DEF Header, Byte
<1> HIDE DEF h
<1>5. /\ u \in Seq(Byte) /\ Len(u) = Len(h) + Len(w1)
      /\ \A a \in 1..Len(w1) : u[Len(h) + a] = w1[a]
  BY <1>4, ConcatBytes, Zenon
<1> HIDE DEF u
<1>6. /\ v \in Seq(Byte) /\ Len(v) = Len(u) + Len(w2)
      /\ \A a \in 1..Len(u) : v[a] = u[a]
      /\ \A a \in 1..Len(w2) : v[Len(u) + a] = w2[a]
  BY <1>5, ConcatBytes, Zenon
<1> HIDE DEF v
<1>7. /\ b \in Seq(Byte) /\ Len(b) = Len(v) + Len(w3)
      /\ \A a \in 1..Len(v) : b[a] = v[a]
      /\ \A a \in 1..Len(w3) : b[Len(v) + a] = w3[a]
  BY <1>6, ConcatBytes, Zenon
<1> HIDE DEF b
<1>8. PICK l1 \in Nat, l2 \in Nat, l3 \in Nat :
        l1 = Len(w1) /\ l2 = Len(w2) /\ l3 = Len(w3)
  BY LenProperties
<1>9. Len(h) = 1 /\ Len(u) = 1 + l1 /\ Len(v) = 1 + l1 + l2 /\ Len(b) = 1 + l1 + l2 + l3
  BY <1>4, <1>5, <1>6, <1>7, <1>8, Zenon
<1>10. Placed(b, 2, w1)
  <2> SUFFICES ASSUME NEW d \in 1..Len(w1) PROVE b[2 + d - 1] = w1[d]
    BY DEF Placed
  <2>1. /\ 2 + d - 1 = 1 + d /\ 1 + d \in 1..1+l1 /\ 1 + d \in 1..1+l1+l2
    BY <1>8
  <2>2. u[1 + d] = w1[d]
    BY <1>5, <1>9, Zenon
  <2>3. v[1 + d] = u[1 + d]
    BY <1>6, <1>9, <2>1, Zenon
  <2>4. b[1 + d] = v[1 + d]
    BY <1>7, <1>9, <2>1, Zenon
  <2> QED
    BY <2>1, <2>2, <2>3, <2>4, Zenon
<1>11. Placed(b, 2 + l1, w2)
  <2> SUFFICES ASSUME NEW d \in 1..Len(w2) PROVE b[(2 + l1) + d - 1] = w2[d]
    BY DEF Placed
  <2>1. (2 + l1) + d - 1 = (1 + l1) + d /\ (1 + l1) + d \in 1..1+l1+l2
    BY <1>8
  <2>2. v[(1 + l1) + d] = w2[d]
    BY <1>6, <1>9, Zenon
  <2>3. b[(1 + l1) + d] = v[(1 + l1) + d]
    BY <1>7, <1>9, <2>1, Zenon
  <2> QED
    BY <2>1, <2>2, <2>3, Zenon
<1>12. Placed(b, 2 + l1 + l2, w3)
  <2> SUFFICES ASSUME NEW d \in 1..Len(w3) PROVE b[(2 + l1 + l2) + d - 1] = w3[d]
    BY DEF Placed
  <2>1. (2 + l1 + l2) + d - 1 = (1 + l1 + l2) + d
    BY <1>8
  <2>2. b[(1 + l1 + l2) + d] = w3[d]
    BY <1>7, <1>9, Zenon
  <2> QED
    BY <2>1, <2>2, Zenon
<1>13. /\ 2 + l1 \in Nat /\ 2 + l1 + l2 \in Nat /\ 2 + l1 + l2 + l3 \in Nat
       /\ 2 + l1 + l2 + l3 = (1 + l1 + l2 + l3) + 1
  OBVIOUS
<1>14. PICK x1 \in Nat, x2 \in Nat, x3 \in Nat, x4 \in Nat :
         /\ x1 = 2 /\ x2 = 2 + l1 /\ x3 = 2 + l1 + l2 /\ x4 = 2 + l1 + l2 + l3
  BY <1>13, Zenon
<1>15. x2 = x1 + l1 /\ x3 = x2 + l2 /\ x4 = x3 + l3 /\ x4 = Len(b) + 1
  BY <1>9, <1>13, <1>14, Zenon
<1>16. Placed(b, x1, w1) /\ Placed(b, x2, w2) /\ Placed(b, x3, w3)
  BY <1>10, <1>11, <1>12, <1>14, Zenon
<1> QED
  BY <1>2, <1>3, <1>7, <1>8, <1>14, <1>15, <1>16, Zenon

\* Part a takes its place and the status it elides is running.
LEMMA PartSegment ==
  ASSUME NEW ms \in Bundles, NEW ts \in 128..255, ts # EOX, NEW runs \in BOOLEAN,
         NEW a \in 1..Len(ms), NEW b \in Seq(Byte), NEW x \in Nat, NEW y \in Nat,
         Placed(b, x, Part(ms, ts, runs, a)), y = x + Len(Part(ms, ts, runs, a))
  PROVE  /\ Segment(b, x, y, ms[a]) /\ y >= x + 1
         /\ y = x + Len(ms[a]) => Repeats(ms, a)
<1>1. ms \in Seq(Messages) /\ Len(ms) \in Nat
  BY FramingAssumption, LenProperties
<1>2. PICK m \in Messages : m = ms[a]
  BY <1>1, ElementOfSeq
<1>3. PICK r \in BOOLEAN : r = (runs /\ Repeats(ms, a))
  BY Zenon
<1>4. Part(ms, ts, runs, a) = Stamped(m, ts, r)
  <2>1. ~(a > Len(ms))
    BY <1>1
  <2> QED
    BY <1>2, <1>3, <2>1, Zenon DEF Part
<1>5. Placed(b, x, Stamped(m, ts, r)) /\ y = x + Len(Stamped(m, ts, r))
  BY <1>4, Zenon
<1>6. /\ Segment(b, x, x + Len(Stamped(m, ts, r)), m)
      /\ Len(Stamped(m, ts, r)) = Len(m) => r
      /\ Len(Stamped(m, ts, r)) >= 1
  BY <1>5, StampedSegment, Zenon
<1>7. PICK l \in Nat : l = Len(Stamped(m, ts, r)) /\ l >= 1 /\ y = x + l
  <2>1. Stamped(m, ts, r) \in Seq(Byte)
    <3>1. ts \in Byte
      BY DEF Byte
    <3> QED
      BY <3>1, StampedType, Zenon
  <2> QED
    BY <1>5, <1>6, <2>1, LenProperties
<1>8. y = x + Len(m) => l = Len(m)
  <2>1. PICK n \in Nat : n = Len(m)
    BY MessageBytes
  <2>2. y = x + n => l = n
    BY <1>7
  <2> QED
    BY <2>1, <2>2, Zenon
<1>9. y >= x + 1
  BY <1>7
<1> QED
  BY <1>2, <1>3, <1>5, <1>6, <1>7, <1>8, <1>9, Zenon

\* The status a part elides is the one that is running there.
LEMMA RepeatsReady ==
  ASSUME NEW s \in Seq(Messages), NEW k \in Nat, NEW ms \in Bundles,
         \A a \in 1..Len(ms) : s[k + a] = ms[a],
         NEW a \in 1..Len(ms), NEW q \in Nat, q + 1 = k + a, Repeats(ms, a)
  PROVE  Ready(s, k, q, 0)
<1>1. PICK j \in 1..a-1 : /\ ms[j][1] = ms[a][1] /\ ms[a][1] < SOX
                          /\ \A n \in j+1..a-1 : ms[n][1] >= 248
  BY Zenon DEF Repeats
<1>2. Len(ms) \in Nat
  BY FramingAssumption, LenProperties
<1>3. j \in 1..Len(ms) /\ k + j \in k+1..q
  BY <1>2
<1>4. s[k + j] = ms[j] /\ s[q + 1] = ms[a]
  BY <1>3
<1>5. ASSUME NEW n \in (k+j)+1..q PROVE s[n][1] >= 248
  <2>1. PICK c \in j+1..a-1 : c = n - k
    <3>1. /\ a \in Nat /\ j \in Nat /\ n \in Nat
          /\ n >= (k + j) + 1 /\ n <= q /\ q + 1 = k + a
      BY <1>2
    <3>2. n - k \in j+1..a-1
      BY <3>1
    <3> QED
      BY <3>2, Zenon
  <2>2. k + c = n /\ c \in 1..Len(ms)
    BY <1>2, <2>1
  <2>3. s[n] = ms[c]
    BY <2>2
  <2> QED
    BY <1>1, <2>3, Zenon
<1>6. s[k + j][1] = s[q + 1][1] /\ s[q + 1][1] < SOX
  BY <1>1, <1>4, Zenon
<1> QED
  BY <1>3, <1>5, <1>6, Zenon DEF Ready

-----------------------------------------------------------------------------
(* The device's step, and the theorem. *)

\* The messages of s behind the first k are those of ms.
Follows(s, k, ms) == \A a \in 1..Len(ms) : s[k + a] = ms[a]

\* The bundle of ms is a packet that carries them, from message k + 1 to t.
Bundled(s, k, ms, t, ts, runs) ==
  \E b \in Seq(Byte) : b = Bundle(ms, ts, runs) /\ Carries(s, b, k, 0, t, 0)

\* The three parts of a bundle of n messages.
LEMMA ThreeParts ==
  ASSUME NEW n \in 1..3
  PROVE  /\ \A a \in 1..3 : a \in Nat /\ a + 1 \in Nat /\ (a \in 1..n \/ a \in n+1..3)
         /\ \A a \in n+1..3 : a > n /\ a \in 1..3 /\ a \in Nat
         /\ \A a \in 1..n+1 : a \in 1..4
  OBVIOUS

\* If ms are the last messages of s, their bundle carries them.
BundleCarries(s, k, ms, t, ts, runs) ==
  t = k + Len(ms) /\ Len(s) = t /\ ts # EOX
  => (Follows(s, k, ms) => Bundled(s, k, ms, t, ts, runs))

\* Every bundle does so.
BundlesCarried ==
  \A s \in Seq(Messages), k \in Nat, ms \in Bundles, t \in Nat,
     ts \in 128..255, runs \in BOOLEAN : BundleCarries(s, k, ms, t, ts, runs)

\* A bundle carries all its messages.
LEMMA BundlesCarry == BundlesCarried
<1> SUFFICES ASSUME NEW s \in Seq(Messages), NEW k \in Nat, NEW ms \in Bundles,
                    NEW t \in Nat, NEW ts \in 128..255, NEW runs \in BOOLEAN
             PROVE  t = k + Len(ms) /\ Len(s) = t /\ ts # EOX
                    => (Follows(s, k, ms) => Bundled(s, k, ms, t, ts, runs))
  BY Zenon DEF BundlesCarried, BundleCarries
<1>0. SUFFICES ASSUME t = k + Len(ms), Len(s) = t, ts # EOX,
                      \A a \in 1..Len(ms) : s[k + a] = ms[a]
               PROVE  \E b \in Seq(Byte) : /\ b = Bundle(ms, ts, runs)
                                           /\ Carries(s, b, k, 0, t, 0)
  BY Zenon DEF Follows, Bundled
<1>1. PICK b \in Seq(Byte), x1 \in Nat, x2 \in Nat, x3 \in Nat, x4 \in Nat :
        /\ b = Bundle(ms, ts, runs)
        /\ x1 = 2 /\ x2 = x1 + Len(Part(ms, ts, runs, 1))
        /\ x3 = x2 + Len(Part(ms, ts, runs, 2))
        /\ x4 = x3 + Len(Part(ms, ts, runs, 3)) /\ x4 = Len(b) + 1
        /\ Placed(b, x1, Part(ms, ts, runs, 1))
        /\ Placed(b, x2, Part(ms, ts, runs, 2))
        /\ Placed(b, x3, Part(ms, ts, runs, 3))
  BY BundleParts, ZenonT(30)
<1>2. PICK n \in 1..3 : n = Len(ms)
  BY FramingAssumption
<1>3. PICK X \in [Nat -> Nat] : X[1] = x1 /\ X[2] = x2 /\ X[3] = x3 /\ X[4] = x4
  <2> DEFINE Y == [a \in Nat |-> IF a = 1 THEN x1 ELSE IF a = 2 THEN x2
                                 ELSE IF a = 3 THEN x3 ELSE x4]
  <2>1. Y \in [Nat -> Nat] /\ Y[1] = x1 /\ Y[2] = x2 /\ Y[3] = x3 /\ Y[4] = x4
    OBVIOUS
  <2> HIDE DEF Y
  <2> QED
    BY <2>1, Zenon
<1>4. ASSUME NEW a \in 1..3
      PROVE  /\ Placed(b, X[a], Part(ms, ts, runs, a))
             /\ X[a + 1] = X[a] + Len(Part(ms, ts, runs, a))
  <2>1. a = 1 \/ a = 2 \/ a = 3
    OBVIOUS
  <2>2. 1 + 1 = 2 /\ 2 + 1 = 3 /\ 3 + 1 = 4
    OBVIOUS
  <2>3. CASE a = 1
    BY <1>1, <1>3, <2>2, <2>3, Zenon
  <2>4. CASE a = 2
    BY <1>1, <1>3, <2>2, <2>4, Zenon
  <2>5. CASE a = 3
    BY <1>1, <1>3, <2>2, <2>5, Zenon
  <2> QED
    BY <2>1, <2>3, <2>4, <2>5
<1>5. ASSUME NEW a \in 1..n
      PROVE  /\ Segment(b, X[a], X[a + 1], ms[a]) /\ X[a + 1] >= X[a] + 1
             /\ X[a + 1] = X[a] + Len(ms[a]) => Repeats(ms, a)
  <2>1. a \in 1..3 /\ a \in 1..Len(ms) /\ a \in Nat /\ a + 1 \in Nat
    <3>1. n \in Nat /\ n <= 3
      OBVIOUS
    <3>2. a \in Nat /\ a >= 1 /\ a <= n /\ a + 1 \in Nat
      OBVIOUS
    <3>3. a \in 1..3
      BY <3>1, <3>2
    <3> QED
      BY <1>2, <3>2, <3>3, Zenon
  <2>2. PICK x \in Nat, y \in Nat : x = X[a] /\ y = X[a + 1]
    BY <2>1
  <2>3. Placed(b, x, Part(ms, ts, runs, a)) /\ y = x + Len(Part(ms, ts, runs, a))
    BY <1>4, <2>1, <2>2, Zenon
  <2>4. /\ Segment(b, x, y, ms[a]) /\ y >= x + 1
        /\ y = x + Len(ms[a]) => Repeats(ms, a)
    BY <1>0, <2>1, <2>3, PartSegment
  <2> QED
    BY <2>2, <2>4, Zenon
<1>6. ASSUME NEW a \in n+1..3 PROVE X[a + 1] = X[a]
  <2>1. a > Len(ms) /\ a \in 1..3 /\ X[a] \in Nat
    <3>1. a > n /\ a \in 1..3 /\ a \in Nat
      BY ThreeParts, Zenon
    <3> QED
      BY <1>2, <3>1, Zenon
  <2>2. Part(ms, ts, runs, a) = <<>>
    BY <2>1, Zenon DEF Part
  <2>3. X[a + 1] = X[a] + 0
    BY <1>4, <2>1, <2>2
  <2> QED
    BY <2>1, <2>3
<1>7. X[1] = 2 /\ X[n + 1] = Len(b) + 1
  <2>1. X[1] = 2 /\ X[4] = Len(b) + 1
    BY <1>1, <1>3, Zenon
  <2>2. X[n + 1] = X[4]
    <3>1. CASE n = 1
      <4>1. X[2 + 1] = X[2] /\ X[3 + 1] = X[3]
        BY <1>6, <3>1
      <4> QED
        BY <3>1, <4>1
    <3>2. CASE n = 2
      <4>1. X[3 + 1] = X[3]
        BY <1>6, <3>2
      <4> QED
        BY <3>2, <4>1
    <3>3. CASE n = 3
      BY <3>3
    <3> QED
      BY <3>1, <3>2, <3>3
  <2> QED
    BY <2>1, <2>2
<1>8. \A a \in 1..n+1 : X[a] \in 2..Len(b)+1
  <2>1. PICK l \in Nat : l = Len(b) /\ x4 = l + 1
    BY <1>1, LenProperties
  <2>2. X[1] = 2 /\ X[4] = l + 1 /\ X[2] \in Nat /\ X[3] \in Nat
    BY <1>1, <1>3, <2>1
  <2>3. \A a \in 1..3 : X[a + 1] >= X[a]
    <3> SUFFICES ASSUME NEW a \in 1..3 PROVE X[a + 1] >= X[a]
      OBVIOUS
    <3>1. PICK x \in Nat, y \in Nat : x = X[a] /\ y = X[a + 1]
      <4>1. a \in Nat /\ a + 1 \in Nat
        BY ThreeParts, Zenon
      <4>2. X[a] \in Nat /\ X[a + 1] \in Nat
        BY <4>1, Zenon
      <4> QED
        BY <4>2, Zenon
    <3>2. CASE a \in 1..n
      <4>1. y >= x + 1
        BY <1>5, <3>1, <3>2, Zenon
      <4>2. y >= x
        BY <4>1
      <4> QED
        BY <3>1, <4>2, Zenon
    <3>3. CASE a \in n+1..3
      <4>1. y = x
        BY <1>6, <3>1, <3>3, Zenon
      <4>2. y >= x
        BY <4>1
      <4> QED
        BY <3>1, <4>2, Zenon
    <3>4. a \in 1..n \/ a \in n+1..3
      BY ThreeParts, Zenon
    <3> QED
      BY <3>2, <3>3, <3>4
  <2>4. X[1 + 1] >= X[1] /\ X[2 + 1] >= X[2] /\ X[3 + 1] >= X[3]
    BY <2>3
  <2>5. X[2] >= 2 /\ X[3] >= X[2] /\ l + 1 >= X[3]
    BY <2>2, <2>4
  <2>6. \A a \in 1..4 : X[a] \in 2..l+1
    <3>1. X[1] \in 2..l+1 /\ X[2] \in 2..l+1 /\ X[3] \in 2..l+1 /\ X[4] \in 2..l+1
      <4>1. x1 = 2 /\ x2 >= 2 /\ x3 >= x2 /\ l + 1 >= x3 /\ x4 = l + 1
        BY <1>1, <1>3, <2>1, <2>5, Zenon
      <4>2. x1 \in 2..l+1 /\ x2 \in 2..l+1 /\ x3 \in 2..l+1 /\ x4 \in 2..l+1
        BY <4>1
      <4> QED
        BY <1>3, <4>2, Zenon
    <3>2. \A a \in 1..4 : a = 1 \/ a = 2 \/ a = 3 \/ a = 4
      OBVIOUS
    <3> QED
      BY <3>1, <3>2, Zenon
  <2>7. \A a \in 1..n+1 : a \in 1..4
    BY ThreeParts, Zenon
  <2> QED
    BY <2>1, <2>6, <2>7
<1>9. PICK c \in [Nat -> Nat] : \A a \in 1..n+1 : c[k + a - 1] = X[a]
  <2> DEFINE d == [q \in Nat |-> IF q >= k THEN X[q - k + 1] ELSE 0]
  <2>1. d \in [Nat -> Nat]
    <3>1. ASSUME NEW q \in Nat PROVE (IF q >= k THEN X[q - k + 1] ELSE 0) \in Nat
      <4>1. q >= k => q - k + 1 \in Nat
        OBVIOUS
      <4>2. 0 \in Nat
        OBVIOUS
      <4> QED
        BY <4>1, <4>2, Zenon
    <3> QED
      BY <3>1, Zenon
  <2>2. ASSUME NEW a \in 1..n+1 PROVE d[k + a - 1] = X[a]
    <3>1. k + a - 1 \in Nat /\ k + a - 1 >= k /\ (k + a - 1) - k + 1 = a
      OBVIOUS
    <3> QED
      BY <3>1
  <2> HIDE DEF d
  <2> QED
    BY <2>1, <2>2, Zenon
<1>10. ASSUME NEW q \in k..t-1
       PROVE  /\ Segment(b, c[q], c[q + 1], s[q + 1])
              /\ c[q + 1] = c[q] + Len(s[q + 1]) => Ready(s, k, q, 0)
  <2>1. PICK a \in 1..n : a = q - k + 1
    BY <1>0, <1>2
  <2>2. /\ q = k + a - 1 /\ q + 1 = k + (a + 1) - 1 /\ q + 1 = k + a
        /\ a \in 1..n+1 /\ a + 1 \in 1..n+1 /\ a \in 1..Len(ms) /\ q \in Nat
    <3>1. /\ q = k + a - 1 /\ q + 1 = k + (a + 1) - 1 /\ q + 1 = k + a
          /\ a \in 1..n+1 /\ a + 1 \in 1..n+1 /\ q \in Nat
      BY <2>1
    <3> QED
      BY <1>2, <3>1, Zenon
  <2>3. c[q] = X[a] /\ c[q + 1] = X[a + 1]
    BY <1>9, <2>2, Zenon
  <2>4. s[q + 1] = ms[a]
    BY <1>0, <2>2, Zenon
  <2>5. Repeats(ms, a) => Ready(s, k, q, 0)
    BY <1>0, <2>2, RepeatsReady
  <2> QED
    BY <1>5, <2>3, <2>4, <2>5, Zenon
<1>11. \A q \in k..t : c[q] \in 2..Len(b)+1
  <2> SUFFICES ASSUME NEW q \in k..t PROVE c[q] \in 2..Len(b)+1
    OBVIOUS
  <2>1. PICK a \in 1..n+1 : a = q - k + 1
    BY <1>0, <1>2
  <2>2. q = k + a - 1
    BY <2>1
  <2> QED
    BY <1>8, <1>9, <2>2, Zenon
<1>12. c[k] = 2 /\ c[t] = Len(b) + 1
  <2>1. k = k + 1 - 1 /\ t = k + (n + 1) - 1 /\ 1 \in 1..n+1 /\ n + 1 \in 1..n+1
    BY <1>0, <1>2
  <2> QED
    BY <1>7, <1>9, <2>1, Zenon
<1>13. Laid(s, b, c, k, t, 0, 0)
  <2>1. k <= t /\ t <= Len(s)
    BY <1>0, <1>2
  <2> QED
    BY <1>10, <1>11, <1>12, <2>1, Zenon DEF Laid
<1>14. Carries(s, b, k, 0, t, 0)
  <2>1. Len(b) >= 2
    <3>1. PICK l \in Nat : l = Len(b)
      BY LenProperties
    <3>2. X[1] \in Nat /\ X[1 + 1] >= X[1] + 1 /\ X[1 + 1] \in 2..Len(b)+1 /\ X[1] = 2
      <4>1. 1 \in 1..n /\ 1 + 1 \in 1..n+1
        OBVIOUS
      <4> QED
        BY <1>5, <1>7, <1>8, <4>1
    <3>3. X[1 + 1] >= 3 /\ X[1 + 1] \in 2..l+1
      BY <3>1, <3>2
    <3>4. l >= 2
      BY <3>3
    <3> QED
      BY <3>1, <3>4
  <2> QED
    BY <1>12, <1>13, <2>1, Zenon DEF Carries, Starts
<1> QED
  BY <1>1, <1>14, Zenon

\* Line when the device sends a bundle.
LEMMA DeviceTracks ==
  ASSUME IInv, Line, EOX \notin DeviceStamps,
         NEW ms \in Bundles, NEW ts \in DeviceStamps, NEW runs \in BOOLEAN,
         DeviceSends(ms, ts, runs)
  PROVE  Line'
<1>0. SUFFICES ASSUME ~noisy PROVE Line'
  <2>1. noisy' <=> noisy
    BY Zenon DEF DeviceSends, Sends
  <2> QED
    BY <2>1, NoisyTracks, Zenon
<1>1. /\ enc = "idle" /\ enc' = enc /\ sent' = sent \o ms
      /\ Puts("device", Bundle(ms, ts, runs)) /\ UNCHANGED decVars
  BY DEF DeviceSends, Sends, encVars
<1>2. PICK cn \in [Nat -> Nat], cj \in [Nat -> Nat], k \in Nat, j \in Nat :
        /\ DecAt(cn[0], cj[0]) /\ Path(wire, sent, cn, cj)
        /\ k = cn[Len(wire)] /\ j = cj[Len(wire)] /\ EncAt(k, j)
  BY <1>0, LineEnds, Zenon
<1>3. k = Len(sent) /\ j = 0
  BY <1>1, <1>2, Zenon DEF EncAt
<1>4. ms \in Seq(Messages) /\ sent \in Seq(Messages)
  BY FramingAssumption, Types
<1>5. PICK t \in Nat : t = k + Len(ms)
  <2>1. Len(ms) \in Nat
    BY <1>4, LenProperties
  <2> QED
    BY <2>1
<1>6. /\ sent' \in Seq(Messages) /\ Extends(sent, sent')
      /\ Len(sent') = t /\ \A a \in 1..Len(ms) : sent'[k + a] = ms[a]
  BY <1>1, <1>3, <1>4, <1>5, ExtendsConcat, Zenon
<1>7. ts \in 128..255 /\ ts # EOX
  BY FramingAssumption
<1>8. PICK b \in Seq(Byte) :
        b = Bundle(ms, ts, runs) /\ Carries(sent', b, k, 0, t, 0)
  <2>1. sent' \in Seq(Messages) /\ Len(sent') = t
    BY <1>6
  <2>2. Follows(sent', k, ms) => Bundled(sent', k, ms, t, ts, runs)
    <3>1. PICK s2 \in Seq(Messages) : s2 = sent'
      BY <2>1, Zenon
    <3>2. PICK w \in 128..255 : w = ts
      BY <1>7, Zenon
    <3>3. t = k + Len(ms) /\ Len(s2) = t /\ w # EOX
      BY <1>5, <1>7, <2>1, <3>1, <3>2, Zenon
    <3>4. t = k + Len(ms) /\ Len(s2) = t /\ w # EOX
          => (Follows(s2, k, ms) => Bundled(s2, k, ms, t, w, runs))
      <4>1. \A k0 \in Nat, ms0 \in Bundles, t0 \in Nat, w0 \in 128..255, r0 \in BOOLEAN :
              BundleCarries(s2, k0, ms0, t0, w0, r0)
        BY BundlesCarry, Zenon DEF BundlesCarried
      <4>2. \A t0 \in Nat, w0 \in 128..255, r0 \in BOOLEAN :
              BundleCarries(s2, k, ms, t0, w0, r0)
        BY <4>1, Zenon
      <4>3. \A r0 \in BOOLEAN : BundleCarries(s2, k, ms, t, w, r0)
        BY <4>2, Zenon
      <4>4. BundleCarries(s2, k, ms, t, w, runs)
        BY <4>3, Zenon
      <4> QED
        BY <4>4, Zenon DEF BundleCarries
    <3> QED
      BY <3>1, <3>2, <3>3, <3>4, Zenon
  <2> QED
    BY <1>6, <2>2, Zenon DEF Follows, Bundled
<1>9. EncAt(t, 0)'
  BY <1>1, <1>6, Zenon DEF EncAt
<1>10. Puts("device", b)
  BY <1>1, <1>8
<1>11. Carries(sent', b, cn[Len(wire)], cj[Len(wire)], t, 0)
  BY <1>2, <1>3, <1>8, Zenon
<1>12. 0 \in Nat
  OBVIOUS
<1> QED
  BY <1>0, <1>1, <1>2, <1>6, <1>9, <1>10, <1>11, <1>12, PutTracks, LineEnds, Zenon

\* Line when the packet at the head of the wire is received.
LEMMA ReceiveMoves ==
  ASSUME IInv, Line, Receive
  PROVE  Line'
<1>0. SUFFICES ASSUME ~noisy PROVE Line'
  <2>1. noisy' <=> noisy
    BY Zenon DEF Receive, history
  <2> QED
    BY <2>1, NoisyTracks, Zenon
<1>1. /\ wire # <<>> /\ wire' = Tail(wire) /\ sent' = sent
      /\ enc' = enc /\ body' = body
  BY DEF Receive, history, encVars
<1>2. PICK cn \in [Nat -> Nat], cj \in [Nat -> Nat] :
        /\ DecAt(cn[0], cj[0]) /\ Path(wire, sent, cn, cj)
        /\ EncAt(cn[Len(wire)], cj[Len(wire)])
  BY <1>0, Zenon DEF Line
<1>3. Matches
  BY <1>0, Zenon DEF Line
<1>4. PICK l \in Nat : l + 1 = Len(wire) /\ l = Len(wire')
                       /\ \A q \in 1..l : wire'[q] = wire[q + 1]
  <2>1. wire \in Seq(Packet)
    BY DEF IInv, TypeOK, Packet
  <2>2. /\ wire' \in Seq(Packet) /\ Len(wire') = Len(wire) - 1
        /\ \A q \in 1..Len(wire') : wire'[q] = wire[q + 1]
    BY <1>1, <2>1, HeadTailProperties
  <2>3. Len(wire') \in Nat /\ Len(wire) \in Nat
    BY <2>1, <2>2, LenProperties
  <2>4. Len(wire') + 1 = Len(wire)
    BY <2>2, <2>3
  <2> QED
    BY <2>2, <2>3, <2>4, Zenon
<1>5. PICK dn \in [Nat -> Nat], dj \in [Nat -> Nat] :
        \A n \in Nat : dn[n] = cn[n + 1] /\ dj[n] = cj[n + 1]
  <2> DEFINE d == [n \in Nat |-> cn[n + 1]]
             e == [n \in Nat |-> cj[n + 1]]
  <2>1. d \in [Nat -> Nat] /\ e \in [Nat -> Nat]
    OBVIOUS
  <2>2. \A n \in Nat : d[n] = cn[n + 1] /\ e[n] = cj[n + 1]
    OBVIOUS
  <2> HIDE DEF d, e
  <2> QED
    BY <2>1, <2>2, Zenon
<1>6. PICK k \in Nat, j \in Nat, t \in Nat, j2 \in Nat :
        /\ k = cn[0] /\ j = cj[0] /\ t = cn[1] /\ j2 = cj[1]
  <2>1. cn[0] \in Nat /\ cj[0] \in Nat /\ cn[1] \in Nat /\ cj[1] \in Nat
    OBVIOUS
  <2> QED
    BY <2>1, Zenon
<1>7. Carries(sent, wire[1].bytes, k, j, t, j2)
  <2>1. 1 \in 1..Len(wire) /\ 1 - 1 = 0
    BY <1>4
  <2> QED
    BY <1>2, <1>6, <2>1, Zenon DEF Path
<1>8. DecAt(t, j2)' /\ Matches'
  <2>1. DecAt(k, j)
    BY <1>2, <1>6, Zenon
  <2> QED
    BY <1>3, <1>7, <2>1, ReceiveTracks
<1>9. dn[0] = t /\ dj[0] = j2
  <2>1. 0 \in Nat /\ 0 + 1 = 1
    OBVIOUS
  <2> QED
    BY <1>5, <1>6, <2>1, Zenon
<1>10. DecAt(dn[0], dj[0])'
  BY <1>8, <1>9, Zenon DEF DecAt
<1>11. Path(wire', sent', dn, dj)
  <2> SUFFICES ASSUME NEW q \in 1..Len(wire')
               PROVE  Carries(sent', wire'[q].bytes, dn[q - 1], dj[q - 1], dn[q], dj[q])
    BY DEF Path
  <2>1. q \in 1..l
    BY <1>4
  <2>2. /\ q + 1 \in 1..l+1 /\ (q + 1) - 1 = q /\ (q - 1) + 1 = q
        /\ q \in Nat /\ q - 1 \in Nat
    BY <2>1
  <2>3. Carries(sent, wire[q + 1].bytes, cn[q], cj[q], cn[q + 1], cj[q + 1])
    BY <1>2, <1>4, <2>2, Zenon DEF Path
  <2>4. dn[q - 1] = cn[q] /\ dj[q - 1] = cj[q] /\ dn[q] = cn[q + 1] /\ dj[q] = cj[q + 1]
    BY <1>5, <2>2, Zenon
  <2> QED
    BY <1>1, <1>4, <2>1, <2>3, <2>4, Zenon
<1>12. EncAt(dn[Len(wire)], dj[Len(wire)])'
  BY <1>1, <1>2, <1>4, <1>5, ZenonT(30) DEF EncAt
<1> QED
  BY <1>8, <1>10, <1>11, <1>12, Zenon DEF Line

\* The wire is empty and both ends are at the first message.
LEMMA LineInit == Init => Line
<1> SUFFICES ASSUME Init PROVE Line
  OBVIOUS
<1>1. PICK z \in [Nat -> Nat] : z[0] = 0
  <2>1. [n \in Nat |-> 0] \in [Nat -> Nat] /\ [n \in Nat |-> 0][0] = 0
    OBVIOUS
  <2> QED
    BY <2>1
<1>2. Len(wire) = 0 /\ Len(sent) = 0 /\ Len(out) = 0
  BY EmptySeq DEF Init
<1>3. \A q \in 1..0 : FALSE
  OBVIOUS
<1>4. Matches
  <2>1. Len(out) <= Len(sent)
    BY <1>2
  <2> QED
    BY <1>2, <1>3, <2>1, Zenon DEF Matches
<1>5. Path(wire, sent, z, z)
  BY <1>2, <1>3, Zenon DEF Path
<1>6. DecAt(z[0], z[0])
  BY <1>1, <1>2, Zenon DEF DecAt, Init
<1>7. EncAt(z[Len(wire)], z[Len(wire)])
  BY <1>1, <1>2, Zenon DEF EncAt, Init
<1> QED
  BY <1>4, <1>5, <1>6, <1>7, Zenon DEF Line

\* Every step keeps Line, with the invariants of the decoder at hand.
LEMMA LineStep ==
  ASSUME EOX \notin DeviceStamps, IInv, Line, [Next]_vars
  PROVE  Line'
<1>1. CASE Frame
  BY <1>1, WholeTracks, FirstTracks, MiddleTracks, LastTracks DEF Frame
<1>2. CASE Link
  <2>1. ASSUME NEW ms \in Bundles, NEW ts \in DeviceStamps, NEW runs \in BOOLEAN,
               DeviceSends(ms, ts, runs)
        PROVE  Line'
    BY <2>1, DeviceTracks
  <2>2. ASSUME Lose \/ \E q \in Noise : Alien(q)
        PROVE  Line'
    BY <2>2, DisturbsTracks, Zenon DEF Lose, Alien
  <2> QED
    BY <1>2, <2>1, <2>2, Zenon DEF Link
<1>3. CASE Decode
  BY <1>3, ReceiveMoves, InPacketTracks, Zenon DEF Decode
<1>4. CASE UNCHANGED vars
  <2>1. /\ noisy' = noisy /\ wire' = wire /\ sent' = sent /\ enc' = enc
        /\ body' = body /\ dec' = dec /\ p' = p /\ i' = i /\ running' = running
        /\ sysex' = sysex /\ inSysex' = inSysex /\ out' = out
    BY <1>4, Zenon DEF vars, encVars, decVars, decoder, history
  <2> QED
    BY <2>1, ZenonT(30) DEF Line, Matches, DecAt, EncAt, Collected
<1> QED
  BY <1>1, <1>2, <1>3, <1>4 DEF Next

\* Line is strong enough: RoundTrip follows.
LEMMA LineMatches == IInv /\ Line => RoundTrip
<1> SUFFICES ASSUME IInv, Line, ~noisy
             PROVE  /\ Len(out) <= Len(sent)
                    /\ out = SubSeq(sent, 1, Len(out))
                    /\ AllDecoded => Len(out) = Len(sent)
  BY Zenon DEF RoundTrip
<1>1. Matches
  BY Zenon DEF Line
<1>2. Len(out) <= Len(sent) /\ \A a \in 1..Len(out) : out[a] = sent[a]
  BY <1>1, Zenon DEF Matches
<1>3. out = SubSeq(sent, 1, Len(out))
  <2>1. PICK n \in Nat : n = Len(out) /\ n <= Len(sent)
    BY <1>2, Types
  <2>2. /\ out \in Seq(Seq(Byte)) /\ sent \in Seq(Messages) /\ Len(sent) \in Nat
    BY Types
  <2>3. sent \in Seq(Seq(Byte))
    <3>1. Messages \subseteq Seq(Byte)
      BY FramingAssumption
    <3> QED
      BY <2>2, <3>1, SeqMonotonic
  <2> DEFINE u == SubSeq(sent, 1, n)
  <2>4. \A a \in 1..n : sent[a] \in Seq(Byte)
    <3>1. \A a \in 1..n : a \in 1..Len(sent)
      BY <2>1, <2>2
    <3> QED
      BY <2>3, <3>1, ElementOfSeq
  <2>5. /\ u \in Seq(Seq(Byte)) /\ Len(u) = IF 1 <= n THEN n - 1 + 1 ELSE 0
        /\ \A a \in 1..n-1+1 : u[a] = sent[1 + a - 1]
    BY <2>4, SubSeqProperties
  <2> HIDE DEF u
  <2>6. Len(u) = n /\ \A a \in 1..n : a \in 1..n-1+1 /\ 1 + a - 1 = a
    BY <2>5
  <2>7. \A a \in 1..Len(out) : out[a] = u[a]
    BY <1>2, <2>1, <2>5, <2>6, Zenon
  <2>8. Len(out) = Len(u)
    BY <2>1, <2>6
  <2>9. out = u
    BY <2>2, <2>5, <2>7, <2>8, SeqEqual
  <2> QED
    BY <2>1, <2>9 DEF u
<1>4. AllDecoded => Len(out) = Len(sent)
  <2>1. SUFFICES ASSUME AllDecoded PROVE Len(out) = Len(sent)
    OBVIOUS
  <2>2. enc = "idle" /\ dec = "idle" /\ Len(wire) = 0
    BY <2>1, EmptySeq DEF AllDecoded
  <2>3. PICK cn \in [Nat -> Nat], cj \in [Nat -> Nat] :
          DecAt(cn[0], cj[0]) /\ EncAt(cn[Len(wire)], cj[Len(wire)])
    BY Zenon DEF Line
  <2>4. cn[0] = Len(out)
    BY <2>2, <2>3, Zenon DEF DecAt
  <2>5. cn[0] = Len(sent)
    BY <2>2, <2>3, Zenon DEF EncAt
  <2> QED
    BY <2>4, <2>5
<1> QED
  BY <1>2, <1>3, <1>4

\* Whatever is framed, for every MTU and every bundle of a device, is decoded
\* again, in order, byte by byte and nothing of it twice, as long as no packet
\* is lost or alien: running status, timestamps, real-time messages and SysEx
\* over any number of packets.  The timestamps of a device must not look like
\* F7, which the decoder cannot tell from the end of a SysEx; those of
\* FrameMessageMTU may.
THEOREM RoundTripHolds ==
  ASSUME EOX \notin DeviceStamps
  PROVE  Spec => []RoundTrip
<1>1. Init => IInv /\ Line
  BY InitEstablishes, LineInit
<1>2. IInv /\ Line /\ [Next]_vars => (IInv /\ Line)'
  BY StepPreserves, LineStep
<1>3. IInv /\ Line => RoundTrip
  BY LineMatches
<1> QED
  BY <1>1, <1>2, <1>3, PTL DEF Spec

-----------------------------------------------------------------------------
(* Resynchronisation.  A packet that ends with a whole SysEx takes the      *)
(* decoder from any state to its initial one, whichever byte it believes to *)
(* be reading; mm are the messages of the packet, c where they begin, n how *)
(* many there are and ts is the timestamp they all have.                    *)

\* Message m has no status of its own between x and y.
Elides(m, x, y) == ~IsSysex(m) /\ y = x + Len(m)

\* Message m takes the positions of b from x up to y.
Takes(b, x, y, m, ts) ==
  /\ b[x] = ts
  /\ IF IsSysex(m)
     THEN /\ Copies(b, x, m, 1, Len(m) - 1) /\ b[y - 1] = EOX
          /\ \/ y = x + 1 + Len(m) /\ y = Len(b) + 1
             \/ y = x + 2 + Len(m) /\ b[y - 2] = ts
     ELSE \/ y = x + 1 + Len(m) /\ Copies(b, x, m, 1, Len(m))
          \/ y = x + Len(m) /\ Copies(b, x - 1, m, 2, Len(m))

\* A packet of one to three messages, of which the last is a SysEx.
Lay(b, c, mm, n, ts) ==
  /\ n \in 1..3 /\ IsSysex(mm[n])
  /\ c[1] = 2 /\ c[n + 1] = Len(b) + 1
  /\ \A a \in 1..n :
       /\ c[a] >= 2 /\ c[a + 1] > c[a] /\ c[a + 1] <= Len(b) + 1
       /\ Takes(b, c[a], c[a + 1], mm[a], ts)
       /\ Elides(mm[a], c[a], c[a + 1])
          => a = 2 /\ mm[1][1] = mm[2][1] /\ mm[1][1] < SOX

\* The decoder takes timestamps that look like F7 for messages: it reads the
\* status of a message, or the F7 of a SysEx, as a timestamp.
Off(c, mm, n, ts, x) ==
  /\ ts = EOX
  /\ \E a \in 1..n : \/ x = c[a] + 1
                     \/ IsSysex(mm[a]) /\ x = c[a] + Len(mm[a]) + 1 /\ x + 1 = c[a + 1]

\* Where the loop may be, with r running.
LoopPlace(b, c, mm, n, ts, x, r) ==
  \/ \E a \in 1..n : x = c[a] /\ (Elides(mm[a], c[a], c[a + 1]) => r = mm[a][1])
  \/ r = 0 /\ x = Len(b) + 1
  \/ r = 0 /\ Off(c, mm, n, ts, x)

\* Where consumeSysex may be, in one of these SysEx or in one that is open
\* from before the packet.
SysexPlace(b, c, mm, n, ts, x) ==
  \/ ts # EOX /\ x \in 2..Len(b)
  \/ ts = EOX /\ x = 2
  \/ ts = EOX /\ \E a \in 1..n : IsSysex(mm[a]) /\ x \in c[a]+2..c[a]+Len(mm[a])

\* Every byte is one of a message or its timestamps.
LEMMA LayCovers ==
  ASSUME NEW b \in Seq(Byte), NEW c \in [Nat -> Nat], NEW mm \in [Nat -> Messages],
         NEW n \in Nat, NEW ts \in 128..255, Lay(b, c, mm, n, ts),
         NEW y \in 2..Len(b)
  PROVE  \E a \in 1..n : c[a] <= y /\ y < c[a + 1]
<1>1. n \in 1..3 /\ c[1] = 2 /\ c[n + 1] = Len(b) + 1
  BY Zenon DEF Lay
<1>2. PICK lb \in Nat : lb = Len(b)
  BY LenProperties
<1>3. PICK z \in 2..lb : z = y
  BY <1>2
<1>4. PICK x1 \in Nat, x2 \in Nat, x3 \in Nat, x4 \in Nat :
        x1 = c[1] /\ x2 = c[2] /\ x3 = c[3] /\ x4 = c[4]
  OBVIOUS
<1>5. 1 + 1 = 2 /\ 2 + 1 = 3 /\ 3 + 1 = 4
  OBVIOUS
<1>6. CASE n = 1
  <2>1. x1 = 2 /\ x2 = lb + 1
    BY <1>1, <1>2, <1>4, <1>5, <1>6, Zenon
  <2>2. x1 <= z /\ z < x2
    BY <2>1
  <2>3. 1 \in 1..n
    BY <1>6
  <2> QED
    BY <1>3, <1>4, <1>5, <2>2, <2>3, Zenon
<1>7. CASE n = 2
  <2>1. x1 = 2 /\ x3 = lb + 1
    BY <1>1, <1>2, <1>4, <1>5, <1>7, Zenon
  <2>2. (x1 <= z /\ z < x2) \/ (x2 <= z /\ z < x3)
    BY <2>1
  <2>3. 1 \in 1..n /\ 2 \in 1..n
    BY <1>7
  <2> QED
    BY <1>3, <1>4, <1>5, <2>2, <2>3, Zenon
<1>8. CASE n = 3
  <2>1. x1 = 2 /\ x4 = lb + 1
    BY <1>1, <1>2, <1>4, <1>5, <1>8, Zenon
  <2>2. (x1 <= z /\ z < x2) \/ (x2 <= z /\ z < x3) \/ (x3 <= z /\ z < x4)
    BY <2>1
  <2>3. 1 \in 1..n /\ 2 \in 1..n /\ 3 \in 1..n
    BY <1>8
  <2> QED
    BY <1>3, <1>4, <1>5, <2>2, <2>3, Zenon
<1> QED
  BY <1>1, <1>6, <1>7, <1>8

\* An F7 at z ends message m.
EndsMessage(b, x, y, m, ts, z) ==
  ts # EOX /\ Takes(b, x, y, m, ts) /\ x <= z /\ z < y /\ b[z] = EOX
    => z + 1 = y /\ ~(m[1] < SOX)

\* With a timestamp that does not look like F7, an F7 is the last byte of a
\* message, and of no channel message.
LEMMA TakesEnd ==
  ASSUME NEW b \in Seq(Byte), NEW x \in Nat, NEW y \in Nat, NEW m \in Messages,
         NEW ts \in 128..255, NEW z \in Nat
  PROVE  EndsMessage(b, x, y, m, ts, z)
<1> SUFFICES ASSUME ts # EOX, Takes(b, x, y, m, ts), x <= z, z < y, b[z] = EOX
             PROVE  z + 1 = y /\ ~(m[1] < SOX)
  BY Zenon DEF EndsMessage
<1>1. PICK l \in Nat : l = Len(m) /\ l >= 1
  BY MessageBytes
<1>2. z # x
  BY Zenon DEF Takes
<1>3. \A v \in 0..127 : v # EOX
  BY DEF EOX
<1>4. CASE IsSysex(m)
  <2>1. /\ y = x + 1 + l \/ y = x + 2 + l
        /\ Copies(b, x, m, 1, Len(m) - 1)
        /\ y = x + 2 + l => b[y - 2] = ts
    <3>1. /\ y = x + 1 + Len(m) \/ y = x + 2 + Len(m)
          /\ Copies(b, x, m, 1, Len(m) - 1)
          /\ y # x + 1 + Len(m) => b[y - 2] = ts
      BY <1>4, Zenon DEF Takes
    <3>2. y = x + 2 + l => y # x + 1 + l
      OBVIOUS
    <3> QED
      BY <1>1, <3>1, <3>2, Zenon
  <2>2. l >= 2 /\ m[1] = 240 /\ \A k \in 2..l-1 : m[k] \in 0..127
    <3>1. Len(m) >= 2 /\ m[1] = 240 /\ \A k \in 2..Len(m)-1 : m[k] \in 0..127
      BY <1>4, SysexBytes
    <3> QED
      BY <1>1, <3>1
  <2>3. ASSUME NEW a \in 1..l-1, z = x + a PROVE FALSE
    <3>1. b[x + a] = m[a]
      BY <1>1, <2>1, Zenon DEF Copies
    <3>2. CASE a = 1
      <4>1. 240 # EOX
        BY DEF EOX
      <4> QED
        BY <2>2, <2>3, <3>1, <3>2, <4>1, Zenon
    <3>3. CASE a # 1
      <4>1. a \in 2..l-1
        BY <3>3
      <4> QED
        BY <1>3, <2>2, <2>3, <3>1, <4>1, Zenon
    <3> QED
      BY <3>2, <3>3
  <2>4. ~(z < x + l)
    <3> SUFFICES ASSUME z < x + l PROVE FALSE
      OBVIOUS
    <3>1. PICK a \in 1..l-1 : z = x + a
      <4>1. z - x \in 1..l-1 /\ z = x + (z - x)
        BY <1>2
      <4> QED
        BY <4>1
    <3> QED
      BY <2>3, <3>1
  <2>5. y = x + 1 + l => z + 1 = y
    BY <2>4
  <2>6. y = x + 2 + l => z + 1 = y
    <3> SUFFICES ASSUME y = x + 2 + l PROVE z + 1 = y
      OBVIOUS
    <3>1. b[y - 2] = ts
      BY <1>1, <2>1, Zenon
    <3>2. z # y - 2
      BY <3>1
    <3> QED
      BY <2>4, <3>2
  <2>7. ~(m[1] < SOX)
    BY <2>2 DEF SOX
  <2> QED
    BY <1>1, <2>1, <2>5, <2>6, <2>7, Zenon
<1>5. CASE ~IsSysex(m)
  <2>1. PICK d \in 0..2 : d = dataLen(m[1]) /\ l = 1 + d
    BY <1>1, <1>5, PlainBytes
  <2>2. \A k \in 2..l : m[k] \in 0..127
    BY <1>1, <1>5, PlainBytes, Zenon
  <2>3. CASE y = x + 1 + Len(m) /\ Copies(b, x, m, 1, Len(m))
    <3>1. PICK a \in 1..l : z = x + a
      <4>1. z - x \in 1..l /\ z = x + (z - x)
        BY <1>1, <1>2, <2>3
      <4> QED
        BY <4>1
    <3>2. b[z] = m[a]
      BY <1>1, <2>3, <3>1, Zenon DEF Copies
    <3>3. a = 1
      <4> SUFFICES ASSUME a # 1 PROVE FALSE
        OBVIOUS
      <4>1. a \in 2..l
        OBVIOUS
      <4> QED
        BY <1>3, <2>2, <3>2, <4>1, Zenon
    <3>4. m[1] = EOX
      BY <3>2, <3>3
    <3>5. d = 0 /\ ~(m[1] < SOX)
      BY <2>1, <3>4 DEF dataLen, EOX, SOX
    <3>6. y = x + 1 + l
      BY <1>1, <2>3, Zenon
    <3>7. z + 1 = y
      <4>1. l = 1
        BY <2>1, <3>5
      <4>2. z = x + 1
        BY <3>1, <3>3
      <4> QED
        BY <3>6, <4>1, <4>2
    <3> QED
      BY <3>5, <3>7, Zenon
  <2>4. CASE y = x + Len(m) /\ Copies(b, x - 1, m, 2, Len(m))
    <3>1. PICK a \in 2..l : z = (x - 1) + a
      <4>1. z - x + 1 \in 2..l /\ z = (x - 1) + (z - x + 1)
        BY <1>1, <1>2, <2>4
      <4> QED
        BY <4>1
    <3>2. b[z] = m[a]
      BY <1>1, <2>4, <3>1, Zenon DEF Copies
    <3> QED
      BY <1>3, <2>2, <3>2, Zenon
  <2> QED
    BY <1>5, <2>3, <2>4, Zenon DEF Takes
<1> QED
  BY <1>4, <1>5

\* Message a of the packet is m, of length l, and is there from x up to y.
PartOf(b, c, mm, ts, a, m, x, y, l) ==
  /\ m = mm[a] /\ x = c[a] /\ y = c[a + 1] /\ l = Len(m)
  /\ x >= 2 /\ y > x /\ y <= Len(b) + 1 /\ l >= 1
  /\ Takes(b, x, y, m, ts)

\* One message of the packet.
LEMMA LayPart ==
  ASSUME NEW b \in Seq(Byte), NEW c \in [Nat -> Nat], NEW mm \in [Nat -> Messages],
         NEW n \in Nat, NEW ts \in 128..255, Lay(b, c, mm, n, ts), NEW a \in 1..n
  PROVE  \E m \in Messages, x, y, l \in Nat : PartOf(b, c, mm, ts, a, m, x, y, l)
<1>1. a \in Nat /\ a + 1 \in Nat
  OBVIOUS
<1>2. PICK m \in Messages, x \in Nat, y \in Nat : m = mm[a] /\ x = c[a] /\ y = c[a + 1]
  <2>1. mm[a] \in Messages /\ c[a] \in Nat /\ c[a + 1] \in Nat
    BY <1>1
  <2> QED
    BY <2>1, Zenon
<1>3. PICK l \in Nat : l = Len(m) /\ l >= 1
  BY MessageBytes
<1>4. c[a] >= 2 /\ c[a + 1] > c[a] /\ c[a + 1] <= Len(b) + 1 /\ Takes(b, c[a], c[a + 1], mm[a], ts)
  BY Zenon DEF Lay
<1> QED
  BY <1>2, <1>3, <1>4, Zenon DEF PartOf

\* The last byte is the F7 of the last SysEx.
LEMMA LayEnds ==
  ASSUME NEW b \in Seq(Byte), NEW c \in [Nat -> Nat], NEW mm \in [Nat -> Messages],
         NEW n \in Nat, NEW ts \in 128..255, Lay(b, c, mm, n, ts)
  PROVE  Len(b) \in Nat /\ Len(b) >= 2 /\ b[Len(b)] = EOX
<1>1. n \in 1..n /\ IsSysex(mm[n]) /\ c[n + 1] = Len(b) + 1
  <2>1. n \in 1..3 /\ IsSysex(mm[n]) /\ c[n + 1] = Len(b) + 1
    BY Zenon DEF Lay
  <2> QED
    BY <2>1
<1>p. PICK m \in Messages, x \in Nat, y \in Nat, l \in Nat :
        PartOf(b, c, mm, ts, n, m, x, y, l)
  BY <1>1, LayPart
<1>2. m = mm[n] /\ y = c[n + 1] /\ x >= 2 /\ y > x /\ Takes(b, x, y, m, ts)
  BY <1>p, Zenon DEF PartOf
<1>3. PICK lb \in Nat : lb = Len(b)
  BY LenProperties
<1>4. y = lb + 1
  BY <1>1, <1>2, <1>3, Zenon
<1>5. b[y - 1] = EOX
  BY <1>1, <1>2, Zenon DEF Takes
<1>6. y - 1 = lb /\ lb >= 2
  BY <1>2, <1>4
<1> QED
  BY <1>3, <1>5, <1>6, Zenon

\* Within the SysEx m, of length l, only its last byte looks like F7.
EndsSysex(b, x, y, m, l, z) ==
  l = Len(m) /\ IsSysex(m) /\ Takes(b, x, y, m, EOX) /\ z >= x + 2 /\ z <= x + l
    => /\ z < y
       /\ b[z] = EOX <=> z = x + l
       /\ z = x + l => (z + 1 = y /\ y = Len(b) + 1) \/ z + 2 = y

\* Behind the F0 of a SysEx with timestamps that look like F7 comes data, and
\* then such a timestamp or the F7.
LEMMA TakesData ==
  ASSUME NEW b \in Seq(Byte), NEW x \in Nat, NEW y \in Nat, NEW m \in Messages,
         NEW l \in Nat, NEW z \in Nat
  PROVE  EndsSysex(b, x, y, m, l, z)
<1>0. SUFFICES ASSUME l = Len(m), IsSysex(m), Takes(b, x, y, m, EOX),
                      z >= x + 2, z <= x + l
               PROVE  /\ z < y
                      /\ b[z] = EOX <=> z = x + l
                      /\ z = x + l => (z + 1 = y /\ y = Len(b) + 1) \/ z + 2 = y
  BY Zenon DEF EndsSysex
<1>1. /\ Copies(b, x, m, 1, l - 1) /\ b[y - 1] = EOX
      /\ (y = x + 1 + l /\ y = Len(b) + 1) \/ (y = x + 2 + l /\ b[y - 2] = EOX)
  BY <1>0, Zenon DEF Takes
<1>2. \A k \in 2..l-1 : m[k] \in 0..127
  <2>0. IsSysex(m)
    BY <1>0, Zenon
  <2>1. \A k \in 2..Len(m)-1 : m[k] \in 0..127
    BY <2>0, SysexBytes
  <2> QED
    BY <1>0, <2>1, Zenon
<1>3. CASE z = x + l
  <2>1. CASE y = x + 1 + l /\ y = Len(b) + 1
    <3>1. z = y - 1 /\ z < y /\ z + 1 = y
      BY <1>3, <2>1
    <3> QED
      BY <1>1, <1>3, <2>1, <3>1, Zenon
  <2>2. CASE y = x + 2 + l /\ b[y - 2] = EOX
    <3>1. z = y - 2 /\ z < y /\ z + 2 = y
      BY <1>3, <2>2
    <3> QED
      BY <1>3, <2>2, <3>1, Zenon
  <2> QED
    BY <1>1, <2>1, <2>2, Zenon
<1>4. CASE z # x + l
  <2>1. PICK a \in 2..l-1 : z = x + a
    <3>1. z - x \in 2..l-1 /\ z = x + (z - x)
      BY <1>0, <1>4
    <3> QED
      BY <3>1
  <2>2. a \in 1..l-1
    OBVIOUS
  <2>3. b[x + a] = m[a]
    BY <1>1, <2>2, Zenon DEF Copies
  <2>4. b[z] # EOX
    <3>1. \A v \in 0..127 : v # EOX
      BY DEF EOX
    <3> QED
      BY <1>2, <2>1, <2>3, <3>1, Zenon
  <2>5. y = x + 1 + l \/ y = x + 2 + l
    BY <1>1, Zenon
  <2>6. z < y
    BY <1>0, <1>4, <2>5
  <2> QED
    BY <1>4, <2>4, <2>6, Zenon
<1> QED
  BY <1>3, <1>4, Zenon

\* consumeSysex stays where it may be, or leaves the loop where that may be.
LEMMA SysexMoves ==
  ASSUME NEW b \in Seq(Byte), NEW c \in [Nat -> Nat], NEW mm \in [Nat -> Messages],
         NEW n \in Nat, NEW ts \in 128..255, NEW x \in Nat
  PROVE  Lay(b, c, mm, n, ts) /\ SysexPlace(b, c, mm, n, ts, x)
         => /\ x <= Len(b)
            /\ b[x] # EOX => SysexPlace(b, c, mm, n, ts, x + 1)
            /\ b[x] = EOX => LoopPlace(b, c, mm, n, ts, x + 1, 0)
<1>0. SUFFICES ASSUME Lay(b, c, mm, n, ts), SysexPlace(b, c, mm, n, ts, x)
               PROVE  /\ x <= Len(b)
                      /\ b[x] # EOX => SysexPlace(b, c, mm, n, ts, x + 1)
                      /\ b[x] = EOX => LoopPlace(b, c, mm, n, ts, x + 1, 0)
  BY Zenon
<1>1. PICK lb \in Nat : lb = Len(b) /\ lb >= 2 /\ b[lb] = EOX
  BY <1>0, LayEnds, Zenon
<1>2. CASE ts # EOX /\ x \in 2..Len(b)
  <2>0. PICK z \in 2..lb : z = x /\ z \in 2..Len(b)
    BY <1>1, <1>2
  <2>1. b[x] # EOX => SysexPlace(b, c, mm, n, ts, x + 1)
    <3> SUFFICES ASSUME b[x] # EOX PROVE SysexPlace(b, c, mm, n, ts, x + 1)
      OBVIOUS
    <3>1. z # lb
      BY <1>1, <2>0, Zenon
    <3>2. z + 1 \in 2..lb
      BY <3>1
    <3> QED
      BY <1>1, <1>2, <2>0, <3>2, Zenon DEF SysexPlace
  <2>2. ASSUME b[x] = EOX PROVE LoopPlace(b, c, mm, n, ts, x + 1, 0)
    <3>1. PICK a \in 1..n : c[a] <= z /\ z < c[a + 1]
      BY <1>0, <2>0, LayCovers, Zenon
    <3>p. PICK m \in Messages, x0 \in Nat, y \in Nat, l \in Nat :
            PartOf(b, c, mm, ts, a, m, x0, y, l)
      BY <1>0, LayPart
    <3>2. m = mm[a] /\ x0 = c[a] /\ y = c[a + 1] /\ Takes(b, x0, y, m, ts)
      BY <3>p, Zenon DEF PartOf
    <3>3. z + 1 = y /\ ~(m[1] < SOX)
      <4>1. x0 <= z /\ z < y /\ b[z] = EOX /\ ts # EOX
        BY <1>2, <2>0, <2>2, <3>1, <3>2, Zenon
      <4>2. z \in Nat
        OBVIOUS
      <4>3. EndsMessage(b, x0, y, m, ts, z)
        BY <4>2, TakesEnd, Zenon
      <4> QED
        BY <3>2, <4>1, <4>3, Zenon DEF EndsMessage
    <3>4. x + 1 = c[a + 1]
      BY <2>0, <3>2, <3>3, Zenon
    <3>5. CASE a = n
      <4>1. c[n + 1] = Len(b) + 1
        BY <1>0, Zenon DEF Lay
      <4> QED
        BY <3>4, <3>5, <4>1, Zenon DEF LoopPlace
    <3>6. CASE a # n
      <4>1. a + 1 \in 1..n /\ (a + 1 = 2 => a = 1)
        BY <3>6
      <4>2. ~Elides(mm[a + 1], c[a + 1], c[(a + 1) + 1])
        <5>1. Elides(mm[a + 1], c[a + 1], c[(a + 1) + 1]) => a + 1 = 2 /\ mm[1][1] < SOX
          BY <1>0, <4>1, Zenon DEF Lay
        <5> QED
          BY <3>2, <3>3, <4>1, <5>1, Zenon
      <4> QED
        BY <3>4, <4>1, <4>2, Zenon DEF LoopPlace
    <3> QED
      BY <3>5, <3>6
  <2>3. x <= Len(b)
    <3>1. z <= lb
      OBVIOUS
    <3> QED
      BY <1>1, <2>0, <3>1, Zenon
  <2> QED
    BY <2>1, <2>2, <2>3
<1>3. 1 \in 1..n /\ c[1] = 2 /\ b[2] = ts
  <2>1. n \in 1..3 /\ c[1] = 2
    BY <1>0, Zenon DEF Lay
  <2>2. 1 \in 1..n
    BY <2>1
  <2>3. b[c[1]] = ts
    BY <1>0, <2>2, Zenon DEF Lay, Takes
  <2> QED
    BY <2>1, <2>2, <2>3, Zenon
<1>4. CASE ts = EOX /\ x = 2
  <2>1. b[x] = EOX
    BY <1>3, <1>4, Zenon
  <2>2. x + 1 = c[1] + 1
    BY <1>3, <1>4, Zenon
  <2>3. LoopPlace(b, c, mm, n, ts, x + 1, 0)
    BY <1>3, <1>4, <2>2, Zenon DEF LoopPlace, Off
  <2> QED
    BY <1>1, <1>4, <2>1, <2>3, Zenon
<1>5. CASE ts = EOX /\ \E a \in 1..n : IsSysex(mm[a]) /\ x \in c[a]+2..c[a]+Len(mm[a])
  <2>1. PICK a \in 1..n : IsSysex(mm[a]) /\ x \in c[a]+2..c[a]+Len(mm[a])
    BY <1>5
  <2>p. PICK m \in Messages, x0 \in Nat, y \in Nat, l \in Nat :
          PartOf(b, c, mm, ts, a, m, x0, y, l)
    BY <1>0, LayPart
  <2>2. /\ m = mm[a] /\ x0 = c[a] /\ y = c[a + 1] /\ l = Len(m)
        /\ y <= Len(b) + 1 /\ Takes(b, x0, y, m, ts)
    BY <2>p, Zenon DEF PartOf
  <2>3. x \in x0+2..x0+l /\ y <= lb + 1
    BY <1>1, <2>1, <2>2, Zenon
  <2>4. /\ x < y
        /\ b[x] = EOX <=> x = x0 + l
        /\ x = x0 + l => (x + 1 = y /\ y = Len(b) + 1) \/ x + 2 = y
    <3>1. x >= x0 + 2 /\ x <= x0 + l
      BY <2>3
    <3>2. Takes(b, x0, y, m, EOX) /\ IsSysex(m)
      BY <1>5, <2>1, <2>2, Zenon
    <3>3. EndsSysex(b, x0, y, m, l, x)
      BY TakesData, Zenon
    <3> QED
      BY <2>2, <3>1, <3>2, <3>3, Zenon DEF EndsSysex
  <2>5. x <= lb
    BY <2>3, <2>4
  <2>6. ASSUME b[x] # EOX PROVE SysexPlace(b, c, mm, n, ts, x + 1)
    <3>0. x # x0 + l
      BY <2>4, <2>6, Zenon
    <3>1. x + 1 \in x0+2..x0+l
      BY <2>3, <3>0
    <3> QED
      BY <1>5, <2>1, <2>2, <3>1, Zenon DEF SysexPlace
  <2>7. ASSUME b[x] = EOX PROVE LoopPlace(b, c, mm, n, ts, x + 1, 0)
    <3>1. x = x0 + l
      BY <2>4, <2>7, Zenon
    <3>2. CASE x + 1 = y /\ y = Len(b) + 1
      BY <3>2, Zenon DEF LoopPlace
    <3>3. CASE x + 2 = y
      <4>1. x + 1 = x0 + l + 1 /\ (x + 1) + 1 = y
        BY <3>1, <3>3
      <4> QED
        BY <1>5, <2>1, <2>2, <4>1, Zenon DEF LoopPlace, Off
    <3> QED
      BY <2>4, <3>1, <3>2, <3>3, Zenon
  <2> QED
    BY <1>1, <2>5, <2>6, <2>7, Zenon
<1> QED
  BY <1>0, <1>2, <1>4, <1>5, Zenon DEF SysexPlace

\* A turn at a timestamp and a status.
LEMMA StatusTurn ==
  ASSUME p \in Seq(Byte), i \in Nat, i + 1 <= Len(p), High(p[i]),
         NEW w \in 128..255, p[i + 1] = w
  PROVE  HasMessage /\ Status = w /\ First = i + 2
<1>1. i <= Len(p) /\ w # 0
  <2>1. PICK l \in Nat : l = Len(p)
    BY LenProperties
  <2>2. i <= l
    BY <2>1
  <2> QED
    BY <2>1, <2>2
<1>2. At = i + 1
  BY <1>1 DEF At
<1>3. High(w)
  BY HighBytes
<1>4. Explicit
  BY <1>2, <1>3, Zenon DEF Explicit
<1>5. Status = w
  BY <1>2, <1>4, Zenon DEF Status
<1>6. First = i + 2
  BY <1>2, <1>4 DEF First
<1> QED
  BY <1>1, <1>2, <1>5, <1>6, Zenon DEF HasMessage

\* A turn that finds data, or nothing, while no status is running.
LEMMA NoStatusTurn ==
  ASSUME p \in Seq(Byte), i \in Nat, running = 0,
         \/ i > Len(p)
         \/ i >= Len(p) /\ High(p[i])
         \/ ~High(p[i])
         \/ i + 1 <= Len(p) /\ High(p[i]) /\ ~High(p[i + 1])
  PROVE  ~HasMessage
<1>1. Len(p) \in Nat
  BY LenProperties
<1>2. CASE i > Len(p)
  <2>1. At = i /\ ~(i <= Len(p))
    BY <1>1, <1>2 DEF At
  <2> QED
    BY <2>1, Zenon DEF HasMessage
<1>3. CASE i >= Len(p) /\ High(p[i])
  <2>1. At > Len(p) /\ At \in Nat
    BY <1>1, <1>3 DEF At
  <2>2. ~(At <= Len(p))
    BY <1>1, <2>1
  <2> QED
    BY <2>2, Zenon DEF HasMessage
<1>4. CASE ~High(p[i])
  <2>1. At = i
    BY <1>4, Zenon DEF At
  <2>2. Status = 0
    BY <1>4, <2>1, Zenon DEF Status, Explicit
  <2> QED
    BY <2>2, Zenon DEF HasMessage
<1>5. CASE i + 1 <= Len(p) /\ High(p[i]) /\ ~High(p[i + 1])
  <2>1. i <= Len(p)
    BY <1>1, <1>5
  <2>2. At = i + 1
    BY <1>5, <2>1, Zenon DEF At
  <2>3. Status = 0
    BY <1>5, <2>2, Zenon DEF Status, Explicit
  <2> QED
    BY <2>3, Zenon DEF HasMessage
<1> QED
  BY <1>2, <1>3, <1>4, <1>5

\* A turn that takes a timestamp F7 for a message.
LEMMA StrayTurn ==
  ASSUME p \in Seq(Byte), i \in Nat, i + 1 <= Len(p), High(p[i]), p[i + 1] = EOX
  PROVE  /\ HasMessage /\ Status = EOX /\ Status # SOX /\ Complete
         /\ First + dataLen(Status) = i + 2 /\ RunningAfter(Status) = 0
<1>1. EOX \in 128..255 /\ EOX # SOX /\ ~(EOX < SOX) /\ EOX < 248 /\ dataLen(EOX) = 0
  BY DEF EOX, SOX, dataLen
<1>2. HasMessage /\ Status = EOX /\ First = i + 2
  BY <1>1, StatusTurn
<1>3. RunningAfter(EOX) = 0
  BY <1>1, Zenon DEF RunningAfter
<1>4. (i + 2) + 0 = i + 2 /\ i + 2 <= Len(p) + 1
  <2>1. PICK l \in Nat : l = Len(p)
    BY LenProperties
  <2>2. i + 2 <= l + 1
    BY <2>1
  <2> QED
    BY <2>1, <2>2
<1>5. First + dataLen(Status) = i + 2
  BY <1>1, <1>2, <1>4, Zenon
<1>6. Complete
  BY <1>4, <1>5, Zenon DEF Complete
<1> QED
  BY <1>1, <1>2, <1>3, <1>5, <1>6, Zenon

\* Where a turn of the loop leads: it stops with nothing running, or enters a
\* SysEx, or takes a message.
Turned(c, mm, n, ts) ==
  \/ ~HasMessage /\ running = 0
  \/ HasMessage /\ Status = SOX /\ SysexPlace(p, c, mm, n, ts, First)
  \/ /\ HasMessage /\ Status # SOX /\ Complete
     /\ LoopPlace(p, c, mm, n, ts, First + dataLen(Status), RunningAfter(Status))

\* Behind message a, if that is no SysEx or the packet goes on behind it, comes
\* another one.
GoesOnBehind(b, c, mm, n, ts, a) ==
  Lay(b, c, mm, n, ts) /\ (~IsSysex(mm[a]) \/ c[a + 1] # Len(b) + 1)
    => /\ a + 1 \in 1..n /\ b[c[a + 1]] = ts /\ c[a + 1] <= Len(b)
       /\ Elides(mm[a + 1], c[a + 1], c[(a + 1) + 1])
          => a = 1 /\ mm[1][1] = mm[a + 1][1] /\ mm[1][1] < SOX

\* It does.
LEMMA LayNext ==
  ASSUME NEW b \in Seq(Byte), NEW c \in [Nat -> Nat], NEW mm \in [Nat -> Messages],
         NEW n \in Nat, NEW ts \in 128..255, NEW a \in 1..n
  PROVE  GoesOnBehind(b, c, mm, n, ts, a)
<1>0. SUFFICES ASSUME Lay(b, c, mm, n, ts), ~IsSysex(mm[a]) \/ c[a + 1] # Len(b) + 1
               PROVE  /\ a + 1 \in 1..n /\ b[c[a + 1]] = ts /\ c[a + 1] <= Len(b)
                      /\ Elides(mm[a + 1], c[a + 1], c[(a + 1) + 1])
                         => a = 1 /\ mm[1][1] = mm[a + 1][1] /\ mm[1][1] < SOX
  BY Zenon DEF GoesOnBehind
<1>1. IsSysex(mm[n]) /\ c[n + 1] = Len(b) + 1
  BY <1>0, Zenon DEF Lay
<1>2. a # n
  BY <1>0, <1>1, Zenon
<1>3. a + 1 \in 1..n /\ (a + 1 = 2 => a = 1)
  BY <1>2
<1>p. PICK m \in Messages, x \in Nat, y \in Nat, l \in Nat :
        PartOf(b, c, mm, ts, a + 1, m, x, y, l)
  BY <1>0, <1>3, LayPart
<1>4. x = c[a + 1] /\ y > x /\ y <= Len(b) + 1 /\ Takes(b, x, y, m, ts)
  BY <1>p, Zenon DEF PartOf
<1>5. b[c[a + 1]] = ts
  BY <1>4, Zenon DEF Takes
<1>6. x <= Len(b)
  <2>1. PICK lb \in Nat : lb = Len(b)
    BY LenProperties
  <2>2. y > x /\ y <= lb + 1
    BY <1>4, <2>1, Zenon
  <2>3. x <= lb
    BY <2>2
  <2> QED
    BY <2>1, <2>3
<1>7. Elides(mm[a + 1], c[a + 1], c[(a + 1) + 1])
      => a + 1 = 2 /\ mm[1][1] = mm[2][1] /\ mm[1][1] < SOX
  BY <1>0, <1>3, Zenon DEF Lay
<1> QED
  BY <1>3, <1>4, <1>5, <1>6, <1>7, Zenon

\* The first bytes of a SysEx of length l in the packet, and the last.
SysexHead(b, x, y, m, ts, l) ==
  l = Len(m) /\ IsSysex(m) /\ Takes(b, x, y, m, ts) /\ y <= Len(b) + 1
    => /\ l >= 2 /\ b[x] = ts /\ b[x + 1] = SOX /\ x + 2 <= Len(b)
       /\ l > 2 => ~High(b[x + 2])
       /\ l = 2 => b[x + 2] = EOX \/ b[x + 2] = ts
       /\ b[y - 1] = EOX
       /\ (y = x + 1 + l /\ y = Len(b) + 1) \/ y = x + 2 + l

\* Every SysEx in the packet has them.
LEMMA SysexHeads ==
  ASSUME NEW b \in Seq(Byte), NEW x \in Nat, NEW y \in Nat, NEW m \in Messages,
         NEW ts \in 128..255, NEW l \in Nat
  PROVE  SysexHead(b, x, y, m, ts, l)
<1>0. SUFFICES ASSUME l = Len(m), IsSysex(m), Takes(b, x, y, m, ts), y <= Len(b) + 1
               PROVE  /\ l >= 2 /\ b[x] = ts /\ b[x + 1] = SOX /\ x + 2 <= Len(b)
                      /\ l > 2 => ~High(b[x + 2])
                      /\ l = 2 => b[x + 2] = EOX \/ b[x + 2] = ts
                      /\ b[y - 1] = EOX
                      /\ (y = x + 1 + l /\ y = Len(b) + 1) \/ y = x + 2 + l
  BY Zenon DEF SysexHead
<1>s. IsSysex(m)
  BY <1>0
<1>1. l >= 2 /\ m[1] = SOX /\ \A k \in 2..l-1 : m[k] \in 0..127
  <2>1. Len(m) >= 2 /\ m[1] = 240 /\ \A k \in 2..Len(m)-1 : m[k] \in 0..127
    BY <1>s, SysexBytes
  <2>2. SOX = 240
    BY DEF SOX
  <2> QED
    BY <1>0, <2>1, <2>2, Zenon
<1>2. /\ b[x] = ts /\ Copies(b, x, m, 1, l - 1) /\ b[y - 1] = EOX
      /\ (y = x + 1 + l /\ y = Len(b) + 1) \/ (y = x + 2 + l /\ b[y - 2] = ts)
  BY <1>0, Zenon DEF Takes
<1>3. b[x + 1] = SOX
  <2>1. 1 \in 1..l-1
    BY <1>1
  <2> QED
    BY <1>1, <1>2, <2>1, Zenon DEF Copies
<1>4. x + 2 <= Len(b)
  <2>1. PICK lb \in Nat : lb = Len(b)
    BY LenProperties
  <2>2. y <= lb + 1 /\ (y = x + 1 + l \/ y = x + 2 + l) /\ l >= 2
    BY <1>0, <1>1, <1>2, <2>1, Zenon
  <2>3. x + 2 <= lb
    BY <2>2
  <2> QED
    BY <2>1, <2>3
<1>5. l > 2 => ~High(b[x + 2])
  <2> SUFFICES ASSUME l > 2 PROVE ~High(b[x + 2])
    OBVIOUS
  <2>1. 2 \in 2..l-1 /\ 2 \in 1..l-1
    OBVIOUS
  <2>2. m[2] \in 0..127
    BY <1>1, <2>1, Zenon
  <2>3. b[x + 2] = m[2]
    BY <1>2, <2>1, Zenon DEF Copies
  <2> QED
    BY <2>2, <2>3, HighBytes, Zenon
<1>6. l = 2 => b[x + 2] = EOX \/ b[x + 2] = ts
  <2> SUFFICES ASSUME l = 2 PROVE b[x + 2] = EOX \/ b[x + 2] = ts
    OBVIOUS
  <2>1. CASE y = x + 1 + l
    <3>1. x + 2 = y - 1
      BY <2>1
    <3> QED
      BY <1>2, <3>1, Zenon
  <2>2. CASE y = x + 2 + l /\ b[y - 2] = ts
    <3>1. x + 2 = y - 2
      BY <2>2
    <3> QED
      BY <1>2, <2>2, <3>1, Zenon
  <2> QED
    BY <1>2, <2>1, <2>2
<1> QED
  BY <1>1, <1>2, <1>3, <1>4, <1>5, <1>6, Zenon

\* The first bytes of a message that is no SysEx, with its status or without.
PlainHead(b, x, y, m, ts, l) ==
  l = Len(m) /\ ~IsSysex(m) /\ Takes(b, x, y, m, ts) /\ y <= Len(b) + 1
    => /\ Segment(b, x, y, m) /\ b[x] = ts
       /\ \/ /\ y = x + 1 + l /\ b[x + 1] = m[1] /\ High(m[1]) /\ x + 1 <= Len(b)
             /\ l > 1 => x + 2 <= Len(b) /\ ~High(b[x + 2])
          \/ /\ y = x + l /\ Elides(m, x, y)
             /\ m[1] < SOX => ~High(b[x + 1])

\* Every such message has them.
LEMMA PlainHeads ==
  ASSUME NEW b \in Seq(Byte), NEW x \in Nat, NEW y \in Nat, NEW m \in Messages,
         NEW ts \in 128..255, NEW l \in Nat
  PROVE  PlainHead(b, x, y, m, ts, l)
<1>0. SUFFICES ASSUME l = Len(m), ~IsSysex(m), Takes(b, x, y, m, ts), y <= Len(b) + 1
               PROVE  /\ Segment(b, x, y, m) /\ b[x] = ts
                      /\ \/ /\ y = x + 1 + l /\ b[x + 1] = m[1] /\ High(m[1])
                            /\ x + 1 <= Len(b)
                            /\ l > 1 => x + 2 <= Len(b) /\ ~High(b[x + 2])
                         \/ /\ y = x + l /\ Elides(m, x, y)
                            /\ m[1] < SOX => ~High(b[x + 1])
  BY Zenon DEF PlainHead
<1>s. ~IsSysex(m)
  BY <1>0
<1>1. /\ b[x] = ts
      /\ \/ y = x + 1 + l /\ Copies(b, x, m, 1, l)
         \/ y = x + l /\ Copies(b, x - 1, m, 2, l)
  BY <1>0, Zenon DEF Takes
<1>2. Segment(b, x, y, m)
  <2>1. High(b[x])
    BY <1>1, HighBytes, Zenon
  <2> QED
    BY <1>0, <1>1, <2>1, Zenon DEF Segment
<1>3. \A k \in 2..l : m[k] \in 0..127
  <2>1. \A k \in 2..Len(m) : m[k] \in 0..127
    BY <1>s, PlainBytes
  <2> QED
    BY <1>0, <2>1, Zenon
<1>4. l >= 1 /\ m[1] \in 128..255
  <2>1. Len(m) >= 1 /\ m[1] \in 128..255
    BY MessageBytes
  <2> QED
    BY <1>0, <2>1, Zenon
<1>b. PICK lb \in Nat : lb = Len(b) /\ y <= lb + 1
  <2>1. Len(b) \in Nat
    BY LenProperties
  <2> QED
    BY <1>0, <2>1, Zenon
<1>5. CASE y = x + 1 + l /\ Copies(b, x, m, 1, l)
  <2>1. b[x + 1] = m[1]
    <3>1. 1 \in 1..l
      BY <1>4
    <3> QED
      BY <1>5, <3>1, Zenon DEF Copies
  <2>2. x + 1 <= Len(b)
    <3>1. x + 1 <= lb
      BY <1>b, <1>4, <1>5
    <3> QED
      BY <1>b, <3>1
  <2>3. l > 1 => x + 2 <= Len(b) /\ ~High(b[x + 2])
    <3> SUFFICES ASSUME l > 1 PROVE x + 2 <= Len(b) /\ ~High(b[x + 2])
      OBVIOUS
    <3>1. 2 \in 2..l /\ 2 \in 1..l
      OBVIOUS
    <3>2. m[2] \in 0..127 /\ b[x + 2] = m[2]
      BY <1>3, <1>5, <3>1, Zenon DEF Copies
    <3>3. x + 2 <= lb
      BY <1>b, <1>5
    <3> QED
      BY <1>b, <3>2, <3>3, HighBytes, Zenon
  <2>4. High(m[1])
    BY <1>4, HighBytes, Zenon
  <2> QED
    BY <1>1, <1>2, <1>5, <2>1, <2>2, <2>3, <2>4, Zenon
<1>6. CASE y = x + l /\ Copies(b, x - 1, m, 2, l)
  <2>1. Elides(m, x, y)
    BY <1>0, <1>6, Zenon DEF Elides
  <2>2. ASSUME m[1] < SOX PROVE ~High(b[x + 1])
    <3>1. l >= 2
      <4>1. PICK w \in 128..255 : w = m[1]
        BY <1>4
      <4>2. dataLen(w) >= 1 /\ dataLen(w) \in 0..2
        <5>1. w \in Byte
          BY DEF Byte
        <5>2. w < SOX
          BY <2>2, <4>1
        <5> QED
          BY <5>1, <5>2, ChannelLength, DataLenBound
      <4>3. l = 1 + dataLen(w)
        <5>1. Len(m) = 1 + dataLen(m[1])
          BY <1>s, PlainBytes
        <5> QED
          BY <1>0, <4>1, <5>1, Zenon
      <4> QED
        BY <4>2, <4>3
    <3>2. 2 \in 2..l /\ (x - 1) + 2 = x + 1
      BY <3>1
    <3>3. m[2] \in 0..127 /\ b[x + 1] = m[2]
      BY <1>3, <1>6, <3>2, Zenon DEF Copies
    <3> QED
      BY <3>3, HighBytes, Zenon
  <2> QED
    BY <1>1, <1>2, <1>6, <2>1, <2>2, Zenon
<1> QED
  BY <1>1, <1>5, <1>6

\* A turn at a SysEx of the packet enters it.
LEMMA AlignedSysex ==
  ASSUME p \in Seq(Byte), i \in Nat, i >= 2,
         NEW c \in [Nat -> Nat], NEW mm \in [Nat -> Messages],
         NEW n \in Nat, NEW ts \in 128..255, NEW a \in 1..n
  PROVE  Lay(p, c, mm, n, ts) /\ i = c[a] /\ IsSysex(mm[a]) => Turned(c, mm, n, ts)
<1>0. SUFFICES ASSUME Lay(p, c, mm, n, ts), i = c[a], IsSysex(mm[a])
               PROVE  Turned(c, mm, n, ts)
  BY Zenon
<1>p. PICK m \in Messages, x \in Nat, y \in Nat, l \in Nat :
        PartOf(p, c, mm, ts, a, m, x, y, l)
  BY <1>0, LayPart
<1>1. /\ m = mm[a] /\ x = i /\ y = c[a + 1] /\ l = Len(m)
      /\ y <= Len(p) + 1 /\ Takes(p, x, y, m, ts) /\ IsSysex(m)
  BY <1>0, <1>p, Zenon DEF PartOf
<1>2. SysexHead(p, x, y, m, ts, l)
  BY SysexHeads
<1>3. l >= 2 /\ p[i] = ts /\ p[i + 1] = SOX /\ i + 2 <= Len(p)
  BY <1>1, <1>2, Zenon DEF SysexHead
<1>l. PICK lp \in Nat : lp = Len(p)
  BY LenProperties
<1>4. i + 1 <= Len(p) /\ i + 2 <= lp
  <2>1. i + 2 <= lp
    BY <1>3, <1>l
  <2>2. i + 1 <= lp
    BY <2>1
  <2> QED
    BY <1>l, <2>1, <2>2
<1>5. HasMessage /\ Status = SOX /\ First = i + 2
  <2>1. SOX \in 128..255 /\ High(p[i])
    <3>1. SOX \in 128..255
      BY DEF SOX
    <3> QED
      BY <1>3, <3>1, HighBytes, Zenon
  <2> QED
    BY <1>3, <1>4, <2>1, StatusTurn
<1>6. CASE ts # EOX
  <2>1. i + 2 \in 2..lp
    BY <1>4
  <2>2. SysexPlace(p, c, mm, n, ts, i + 2)
    BY <1>6, <1>l, <2>1, Zenon DEF SysexPlace
  <2> QED
    BY <1>5, <2>2, Zenon DEF Turned
<1>7. CASE ts = EOX
  <2>1. i + 2 \in i+2..i+l
    BY <1>3
  <2>2. i + 2 \in c[a]+2..c[a]+Len(mm[a])
    BY <1>0, <1>1, <2>1, Zenon
  <2>3. SysexPlace(p, c, mm, n, ts, i + 2)
    BY <1>0, <1>7, <2>2, Zenon DEF SysexPlace
  <2> QED
    BY <1>5, <2>3, Zenon DEF Turned
<1> QED
  BY <1>6, <1>7

\* A turn at any other message takes it.
LEMMA AlignedPlain ==
  ASSUME p \in Seq(Byte), i \in Nat, i >= 2, running \in Nat,
         NEW c \in [Nat -> Nat], NEW mm \in [Nat -> Messages],
         NEW n \in Nat, NEW ts \in 128..255, NEW a \in 1..n
  PROVE  Lay(p, c, mm, n, ts) /\ i = c[a] /\ ~IsSysex(mm[a])
         /\ (Elides(mm[a], c[a], c[a + 1]) => running = mm[a][1])
         => Turned(c, mm, n, ts)
<1>0. SUFFICES ASSUME Lay(p, c, mm, n, ts), i = c[a], ~IsSysex(mm[a]),
                      Elides(mm[a], c[a], c[a + 1]) => running = mm[a][1]
               PROVE  Turned(c, mm, n, ts)
  BY Zenon
<1>p. PICK m \in Messages, x \in Nat, y \in Nat, l \in Nat :
        PartOf(p, c, mm, ts, a, m, x, y, l)
  BY <1>0, LayPart
<1>1. /\ m = mm[a] /\ x = i /\ y = c[a + 1] /\ l = Len(m)
      /\ y <= Len(p) + 1 /\ Takes(p, x, y, m, ts) /\ ~IsSysex(m)
  BY <1>0, <1>p, Zenon DEF PartOf
<1>2. PlainHead(p, x, y, m, ts, l)
  BY PlainHeads
<1>3. Segment(p, i, y, m)
  BY <1>1, <1>2, Zenon DEF PlainHead
<1>4. y = i + Len(m) => running = m[1] /\ m[1] < SOX
  <2> SUFFICES ASSUME y = i + Len(m) PROVE running = m[1] /\ m[1] < SOX
    OBVIOUS
  <2>1. Elides(mm[a], c[a], c[a + 1])
    BY <1>0, <1>1, Zenon DEF Elides
  <2>2. a = 2 /\ mm[1][1] = mm[2][1] /\ mm[1][1] < SOX
    BY <1>0, <2>1, Zenon DEF Lay
  <2> QED
    BY <1>0, <1>1, <2>1, <2>2, Zenon
<1>5. Turns(m, y)
  <2>1. y <= Len(p) + 1
    BY <1>1
  <2>2. y = i + Len(m) => running = m[1] /\ m[1] < SOX
    BY <1>4
  <2> QED
    BY <1>3, <2>1, <2>2, SegmentTurn
<1>6. HasMessage /\ Status = m[1] /\ Status # SOX /\ Complete /\ First + dataLen(Status) = y
  BY <1>1, <1>5, Zenon DEF Turns
<1>7. /\ a + 1 \in 1..n
      /\ Elides(mm[a + 1], c[a + 1], c[(a + 1) + 1])
         => a = 1 /\ mm[1][1] = mm[a + 1][1] /\ mm[1][1] < SOX
  <2>1. GoesOnBehind(p, c, mm, n, ts, a)
    BY LayNext
  <2> QED
    BY <1>0, <2>1, Zenon DEF GoesOnBehind
<1>8. Elides(mm[a + 1], c[a + 1], c[(a + 1) + 1]) => RunningAfter(Status) = mm[a + 1][1]
  <2> SUFFICES ASSUME Elides(mm[a + 1], c[a + 1], c[(a + 1) + 1])
               PROVE  RunningAfter(Status) = mm[a + 1][1]
    OBVIOUS
  <2>1. a = 1 /\ mm[1][1] = mm[a + 1][1] /\ mm[1][1] < SOX
    BY <1>7, Zenon
  <2>2. Status < SOX /\ Status = mm[a + 1][1]
    BY <1>1, <1>6, <2>1, Zenon
  <2> QED
    BY <2>2, Zenon DEF RunningAfter
<1>9. LoopPlace(p, c, mm, n, ts, First + dataLen(Status), RunningAfter(Status))
  <2>1. First + dataLen(Status) = c[a + 1]
    BY <1>1, <1>6, Zenon
  <2> QED
    BY <1>7, <1>8, <2>1, Zenon DEF LoopPlace
<1> QED
  BY <1>6, <1>9, Zenon DEF Turned

\* A turn at the status of a message, which is taken for a timestamp.
LEMMA OffStatus ==
  ASSUME p \in Seq(Byte), i \in Nat, i >= 2, running = 0,
         NEW c \in [Nat -> Nat], NEW mm \in [Nat -> Messages],
         NEW n \in Nat, NEW ts \in 128..255, ts = EOX, NEW a \in 1..n
  PROVE  Lay(p, c, mm, n, ts) /\ i = c[a] + 1 => Turned(c, mm, n, ts)
<1>0. SUFFICES ASSUME Lay(p, c, mm, n, ts), i = c[a] + 1
               PROVE  Turned(c, mm, n, ts)
  BY Zenon
<1>p. PICK m \in Messages, x \in Nat, y \in Nat, l \in Nat :
        PartOf(p, c, mm, ts, a, m, x, y, l)
  BY <1>0, LayPart
<1>1. /\ m = mm[a] /\ x = c[a] /\ i = x + 1 /\ y = c[a + 1] /\ l = Len(m)
      /\ y <= Len(p) + 1 /\ Takes(p, x, y, m, ts)
  BY <1>0, <1>p, Zenon DEF PartOf
<1>2. i + 1 = x + 2 /\ i + 2 = x + 3
  <2>1. i = x + 1
    BY <1>1, Zenon
  <2> QED
    BY <2>1
<1>l. PICK lp \in Nat : lp = Len(p)
  BY LenProperties
<1>n. ~HasMessage => Turned(c, mm, n, ts)
  BY Zenon DEF Turned
<1>s. ASSUME i + 1 <= Len(p), High(p[i]), p[i + 1] = EOX,
             LoopPlace(p, c, mm, n, ts, i + 2, 0)
      PROVE  Turned(c, mm, n, ts)
  <2>1. /\ HasMessage /\ Status = EOX /\ Status # SOX /\ Complete
        /\ First + dataLen(Status) = i + 2 /\ RunningAfter(Status) = 0
    BY <1>s, StrayTurn
  <2> QED
    BY <1>s, <2>1, Zenon DEF Turned
<1>3. CASE IsSysex(m)
  <2>1. SysexHead(p, x, y, m, ts, l)
    BY SysexHeads
  <2>2. /\ l >= 2 /\ p[i] = SOX /\ i + 1 <= Len(p)
        /\ l > 2 => ~High(p[i + 1])
        /\ l = 2 => p[i + 1] = EOX
        /\ (y = x + 1 + l /\ y = Len(p) + 1) \/ y = x + 2 + l
    BY <1>1, <1>2, <1>3, <2>1, Zenon DEF SysexHead
  <2>3. High(p[i])
    BY <2>2, HighBytes, Zenon
  <2>4. CASE l > 2
    <3>1. ~HasMessage
      BY <2>2, <2>3, <2>4, NoStatusTurn
    <3> QED
      BY <1>n, <3>1
  <2>5. CASE l = 2
    <3>1. CASE y = x + 1 + l /\ y = Len(p) + 1
      <4>1. i + 2 = Len(p) + 1
        BY <1>2, <2>5, <3>1
      <4>2. LoopPlace(p, c, mm, n, ts, i + 2, 0)
        BY <4>1, Zenon DEF LoopPlace
      <4> QED
        BY <1>s, <2>2, <2>3, <2>5, <4>2
    <3>2. CASE y = x + 2 + l
      <4>1. i + 2 = x + l + 1 /\ (i + 2) + 1 = y
        BY <1>2, <2>5, <3>2
      <4>2. Off(c, mm, n, ts, i + 2)
        BY <1>1, <1>3, <4>1, Zenon DEF Off
      <4>3. LoopPlace(p, c, mm, n, ts, i + 2, 0)
        BY <4>2, Zenon DEF LoopPlace
      <4> QED
        BY <1>s, <2>2, <2>3, <2>5, <4>3
    <3> QED
      BY <2>2, <3>1, <3>2
  <2> QED
    BY <2>2, <2>4, <2>5
<1>4. CASE ~IsSysex(m)
  <2>1. PlainHead(p, x, y, m, ts, l)
    BY PlainHeads
  <2>2. \/ /\ y = x + 1 + l /\ p[i] = m[1] /\ High(m[1]) /\ x + 1 <= Len(p)
           /\ l > 1 => i + 1 <= Len(p) /\ ~High(p[i + 1])
        \/ /\ y = x + l /\ Elides(m, x, y)
           /\ m[1] < SOX => ~High(p[i])
    BY <1>1, <1>2, <1>4, <2>1, Zenon DEF PlainHead
  <2>3. CASE /\ y = x + 1 + l /\ p[i] = m[1] /\ High(m[1]) /\ x + 1 <= Len(p)
             /\ l > 1 => i + 1 <= Len(p) /\ ~High(p[i + 1])
    <3>0. High(p[i])
      BY <2>3, Zenon
    <3>1. CASE l > 1
      <4>1. ~HasMessage
        BY <2>3, <3>0, <3>1, NoStatusTurn
      <4> QED
        BY <1>n, <4>1
    <3>2. CASE ~(l > 1)
      <4>1. l = 1
        <5>1. l >= 1
          BY <1>p, Zenon DEF PartOf
        <5> QED
          BY <3>2, <5>1
      <4>2. y = i + 1 /\ y + 1 = i + 2
        BY <1>2, <2>3, <4>1
      <4>3. a + 1 \in 1..n /\ p[y] = EOX /\ y <= Len(p)
        <5>1. GoesOnBehind(p, c, mm, n, ts, a)
          BY LayNext
        <5> QED
          BY <1>0, <1>1, <1>4, <5>1, Zenon DEF GoesOnBehind
      <4>4. Off(c, mm, n, ts, i + 2)
        <5>1. i + 2 = c[a + 1] + 1
          BY <1>1, <4>2, Zenon
        <5> QED
          BY <4>3, <5>1, Zenon DEF Off
      <4>5. LoopPlace(p, c, mm, n, ts, i + 2, 0)
        BY <4>4, Zenon DEF LoopPlace
      <4>6. i + 1 <= Len(p) /\ p[i + 1] = EOX
        BY <4>2, <4>3, Zenon
      <4> QED
        BY <1>s, <3>0, <4>5, <4>6
    <3> QED
      BY <3>1, <3>2
  <2>4. CASE /\ y = x + l /\ Elides(m, x, y)
             /\ m[1] < SOX => ~High(p[i])
    <3>1. a = 2 /\ mm[1][1] = mm[2][1] /\ mm[1][1] < SOX
      <4>1. Elides(mm[a], c[a], c[a + 1])
        BY <1>1, <2>4, Zenon
      <4> QED
        BY <1>0, <4>1, Zenon DEF Lay
    <3>2. ~High(p[i])
      BY <1>1, <2>4, <3>1, Zenon
    <3>3. ~HasMessage
      BY <3>2, NoStatusTurn
    <3> QED
      BY <1>n, <3>3
  <2> QED
    BY <2>2, <2>3, <2>4
<1> QED
  BY <1>3, <1>4

\* A turn at the F7 of a SysEx, whose timestamp was taken for it.
LEMMA OffEnd ==
  ASSUME p \in Seq(Byte), i \in Nat, i >= 2, running = 0,
         NEW c \in [Nat -> Nat], NEW mm \in [Nat -> Messages],
         NEW n \in Nat, NEW ts \in 128..255, ts = EOX, NEW a \in 1..n
  PROVE  Lay(p, c, mm, n, ts) /\ IsSysex(mm[a]) /\ i + 1 = c[a + 1]
         => Turned(c, mm, n, ts)
<1>0. SUFFICES ASSUME Lay(p, c, mm, n, ts), IsSysex(mm[a]), i + 1 = c[a + 1]
               PROVE  Turned(c, mm, n, ts)
  BY Zenon
<1>p. PICK m \in Messages, x \in Nat, y \in Nat, l \in Nat :
        PartOf(p, c, mm, ts, a, m, x, y, l)
  BY <1>0, LayPart
<1>1. /\ m = mm[a] /\ i + 1 = y /\ y = c[a + 1] /\ l = Len(m)
      /\ y <= Len(p) + 1 /\ Takes(p, x, y, m, ts) /\ IsSysex(m)
  BY <1>0, <1>p, Zenon DEF PartOf
<1>2. y - 1 = i /\ y + 1 = i + 2
  <2>1. i + 1 = y
    BY <1>1, Zenon
  <2> QED
    BY <2>1
<1>3. p[i] = EOX
  BY <1>1, <1>2, Zenon DEF Takes
<1>4. High(p[i])
  BY <1>3, HighBytes, Zenon
<1>5. CASE y = Len(p) + 1
  <2>1. i >= Len(p)
    <3>1. PICK lp \in Nat : lp = Len(p)
      BY LenProperties
    <3>2. y = lp + 1
      BY <1>5, <3>1
    <3>3. i >= lp
      BY <1>2, <3>2
    <3> QED
      BY <3>1, <3>3
  <2>2. ~HasMessage
    BY <1>4, <2>1, NoStatusTurn
  <2> QED
    BY <2>2, Zenon DEF Turned
<1>6. CASE y # Len(p) + 1
  <2>1. GoesOnBehind(p, c, mm, n, ts, a)
    BY LayNext
  <2>2. a + 1 \in 1..n /\ p[i + 1] = EOX /\ i + 1 <= Len(p)
    BY <1>0, <1>1, <1>6, <2>1, Zenon DEF GoesOnBehind
  <2>3. /\ HasMessage /\ Status = EOX /\ Status # SOX /\ Complete
        /\ First + dataLen(Status) = i + 2 /\ RunningAfter(Status) = 0
    BY <1>4, <2>2, StrayTurn
  <2>4. Off(c, mm, n, ts, i + 2)
    <3>1. i + 2 = c[a + 1] + 1
      BY <1>1, <1>2, Zenon
    <3> QED
      BY <2>2, <3>1, Zenon DEF Off
  <2>5. LoopPlace(p, c, mm, n, ts, i + 2, 0)
    BY <2>4, Zenon DEF LoopPlace
  <2> QED
    BY <2>3, <2>5, Zenon DEF Turned
<1> QED
  BY <1>5, <1>6

\* Every turn of the loop stays where it may be, enters a SysEx or is the last.
LEMMA ClearingTurn ==
  ASSUME p \in Seq(Byte), i \in Nat, i >= 2, running \in Nat,
         NEW c \in [Nat -> Nat], NEW mm \in [Nat -> Messages],
         NEW n \in Nat, NEW ts \in 128..255
  PROVE  Lay(p, c, mm, n, ts) /\ LoopPlace(p, c, mm, n, ts, i, running)
         => Turned(c, mm, n, ts)
<1>0. SUFFICES ASSUME Lay(p, c, mm, n, ts), LoopPlace(p, c, mm, n, ts, i, running)
               PROVE  Turned(c, mm, n, ts)
  BY Zenon
<1>1. ASSUME NEW a \in 1..n, i = c[a],
             Elides(mm[a], c[a], c[a + 1]) => running = mm[a][1]
      PROVE  Turned(c, mm, n, ts)
  <2>1. CASE IsSysex(mm[a])
    <3>1. Lay(p, c, mm, n, ts) /\ i = c[a] /\ IsSysex(mm[a]) => Turned(c, mm, n, ts)
      BY AlignedSysex
    <3> QED
      BY <1>0, <1>1, <2>1, <3>1, Zenon
  <2>2. CASE ~IsSysex(mm[a])
    <3>1. Lay(p, c, mm, n, ts) /\ i = c[a] /\ ~IsSysex(mm[a])
          /\ (Elides(mm[a], c[a], c[a + 1]) => running = mm[a][1])
          => Turned(c, mm, n, ts)
      BY AlignedPlain
    <3> QED
      BY <1>0, <1>1, <2>2, <3>1, Zenon
  <2> QED
    BY <2>1, <2>2
<1>2. CASE running = 0 /\ i = Len(p) + 1
  <2>1. i > Len(p)
    BY <1>2, LenProperties
  <2>2. ~HasMessage
    BY <1>2, <2>1, NoStatusTurn
  <2> QED
    BY <1>2, <2>2, Zenon DEF Turned
<1>3. CASE running = 0 /\ Off(c, mm, n, ts, i)
  <2>0. ts = EOX
    BY <1>3, Zenon DEF Off
  <2>1. PICK a \in 1..n : \/ i = c[a] + 1
                          \/ IsSysex(mm[a]) /\ i + 1 = c[a + 1]
    BY <1>3, Zenon DEF Off
  <2>2. CASE i = c[a] + 1
    <3>1. Lay(p, c, mm, n, ts) /\ i = c[a] + 1 => Turned(c, mm, n, ts)
      BY <1>3, <2>0, OffStatus
    <3> QED
      BY <1>0, <2>2, <3>1, Zenon
  <2>3. CASE IsSysex(mm[a]) /\ i + 1 = c[a + 1]
    <3>1. Lay(p, c, mm, n, ts) /\ IsSysex(mm[a]) /\ i + 1 = c[a + 1]
          => Turned(c, mm, n, ts)
      BY <1>3, <2>0, OffEnd
    <3> QED
      BY <1>0, <2>3, <3>1, Zenon
  <2> QED
    BY <2>1, <2>2, <2>3
<1> QED
  BY <1>0, <1>1, <1>2, <1>3, Zenon DEF LoopPlace

-----------------------------------------------------------------------------
(* Where the decoder is on its way to the end of a SysEx. *)

\* The packets of a chunked SysEx.
FirstChunk(b) == /\ Len(b) >= 4 /\ High(b[2]) /\ b[3] = SOX
                 /\ \A y \in 4..Len(b) : ~High(b[y])
MiddleChunk(b) == Len(b) >= 2 /\ \A y \in 2..Len(b) : ~High(b[y])
LastChunk(b) == /\ Len(b) >= 3 /\ High(b[Len(b) - 1]) /\ b[Len(b)] = EOX
                /\ \A y \in 2..Len(b)-2 : ~High(b[y])

\* A turn of the loop at x finds no message while no status is running.
NoStatus(b, x) == \/ x > Len(b)
                  \/ x >= Len(b) /\ High(b[x])
                  \/ ~High(b[x])
                  \/ x + 1 <= Len(b) /\ High(b[x]) /\ ~High(b[x + 1])

\* When the packet is used up a SysEx is open, or nothing is running.
Syncing ==
  \/ dec = "idle" /\ (~inSysex => running = 0)
  \/ dec = "loop" /\ inSysex /\ i > Len(p)
  \/ dec = "loop" /\ ~inSysex /\ running = 0 /\ NoStatus(p, i)
  \/ dec # "idle" /\ FirstChunk(p) /\ i = 2 /\ (dec = "loop" => ~inSysex)
  \/ dec = "sysex" /\ \A y \in i..Len(p) : p[y] # EOX

\* When it is used up the decoder is in its initial state: it is in the last
\* packet of a chunked SysEx.
Finishing ==
  /\ LastChunk(p)
  /\ \/ dec = "loop" /\ ~inSysex /\ running = 0 /\ NoStatus(p, i)
     \/ dec = "loop" /\ ~inSysex /\ running = 0 /\ i = 2 /\ Len(p) = 3
     \/ dec = "sysex" /\ i <= Len(p)

\* The same in a packet with a whole SysEx at its end.
Clearing ==
  \E c \in [Nat -> Nat], mm \in [Nat -> Messages], n \in Nat, ts \in 128..255 :
    /\ Lay(p, c, mm, n, ts)
    /\ \/ dec = "loop" /\ ~inSysex /\ LoopPlace(p, c, mm, n, ts, i, running)
       \/ dec = "sysex" /\ SysexPlace(p, c, mm, n, ts, i)

\* When the packet is used up, if there is one, the decoder is in its initial
\* state.
Cleared == \/ dec = "idle" /\ ~inSysex /\ running = 0
           \/ Finishing
           \/ Clearing

\* The decoder is where l says (see Leads).
DecIs(l) == (l = 1 => Syncing) /\ (l = 2 => Cleared)

\* A turn with nothing to find stops.
LEMMA QuietTurn ==
  ASSUME IInv, dec = "loop"
  PROVE  /\ i > Len(p) => ~HasMessage
         /\ running = 0 /\ NoStatus(p, i) => ~HasMessage
<1>1. p \in Seq(Byte) /\ i \in Nat /\ Len(p) \in Nat
  BY Types
<1>2. i > Len(p) => ~HasMessage
  BY <1>1 DEF HasMessage, At
<1>3. running = 0 /\ NoStatus(p, i) => ~HasMessage
  BY <1>1, NoStatusTurn DEF NoStatus
<1> QED
  BY <1>2, <1>3

\* The bytes of a first packet.
LEMMA FirstChunkBytes ==
  ASSUME p \in Seq(Byte), FirstChunk(p)
  PROVE  /\ Len(p) >= 4 /\ High(p[2]) /\ p[3] = SOX /\ High(p[3]) /\ p[3] # EOX
         /\ ~High(p[4]) /\ \A y \in 4..Len(p) : p[y] # EOX
<1>1. Len(p) >= 4 /\ High(p[2]) /\ p[3] = SOX /\ \A y \in 4..Len(p) : ~High(p[y])
  BY Zenon DEF FirstChunk
<1>2. 4 \in 4..Len(p)
  BY <1>1, LenProperties
<1> QED
  BY <1>1, <1>2, HighBytes, Zenon

\* A step of the loop on the way through a chunked SysEx.
LEMMA SyncingLoop ==
  ASSUME IInv, Syncing, LoopOpensSysex \/ LoopMessage \/ LoopStops
  PROVE  Syncing'
<1>1. /\ p \in Seq(Byte) /\ i \in Nat /\ Len(p) \in Nat /\ running \in Nat
  BY Types
<1>2. dec = "loop" /\ p' = p
  BY DEF LoopOpensSysex, LoopMessage, LoopStops, Decodes
<1>3. CASE (inSysex /\ i > Len(p)) \/ (~inSysex /\ running = 0 /\ NoStatus(p, i))
  <2>1. ~HasMessage
    BY <1>2, <1>3, QuietTurn
  <2>2. LoopStops
    BY <2>1, Zenon DEF LoopOpensSysex, LoopMessage
  <2>3. dec' = "idle" /\ running' = running /\ (inSysex' <=> inSysex)
    BY <2>2, Zenon DEF LoopStops, Decodes, decoder
  <2> QED
    BY <1>3, <2>3, Zenon DEF Syncing
<1>4. CASE FirstChunk(p) /\ i = 2
  <2>1. /\ Len(p) >= 4 /\ High(p[2]) /\ p[3] = SOX
        /\ \A y \in 4..Len(p) : p[y] # EOX
    BY <1>1, <1>4, FirstChunkBytes
  <2>2. HasMessage /\ Status = SOX /\ First = 4
    <3>1. i + 1 = 3 /\ i + 2 = 4 /\ 3 <= Len(p) /\ i = 2
      BY <1>1, <1>4, <2>1
    <3>2. SOX \in 128..255
      BY DEF SOX
    <3>3. i + 1 <= Len(p) /\ High(p[i]) /\ p[i + 1] = SOX
      BY <2>1, <3>1, Zenon
    <3>4. HasMessage /\ Status = SOX /\ First = i + 2
      BY <1>1, <3>2, <3>3, StatusTurn
    <3> QED
      BY <3>1, <3>4
  <2>3. LoopOpensSysex
    BY <2>2, Zenon DEF LoopMessage, LoopStops
  <2>4. dec' = "sysex" /\ i' = 4
    BY <2>2, <2>3, Zenon DEF LoopOpensSysex, Decodes
  <2> QED
    BY <1>2, <2>1, <2>4, Zenon DEF Syncing
<1> QED
  BY <1>2, <1>3, <1>4, Zenon DEF Syncing

\* A step within a SysEx.
LEMMA SyncingSysex ==
  ASSUME IInv, Syncing, SysexEnds \/ SysexSkips \/ SysexData \/ SysexPauses
  PROVE  Syncing'
<1>1. /\ p \in Seq(Byte) /\ i \in Nat /\ Len(p) \in Nat
  BY Types
<1>2. dec = "sysex" /\ p' = p /\ inSysex
  <2>1. dec = "sysex" /\ p' = p
    BY DEF SysexEnds, SysexSkips, SysexData, SysexPauses, Decodes
  <2> QED
    BY <2>1 DEF IInv, OpenSysex
<1>3. CASE \A y \in i..Len(p) : p[y] # EOX
  <2>1. CASE SysexEnds
    <3>1. i <= Len(p) /\ p[i] = EOX
      BY <2>1, Zenon DEF SysexEnds
    <3>2. i \in i..Len(p)
      BY <1>1, <3>1
    <3> QED
      BY <1>3, <3>1, <3>2, Zenon
  <2>2. CASE SysexSkips \/ SysexData
    <3>1. dec' = "sysex" /\ i' = i + 1
      BY <2>2, Zenon DEF SysexSkips, SysexData, Decodes
    <3>2. \A y \in i+1..Len(p) : y \in i..Len(p)
      BY <1>1
    <3> QED
      BY <1>2, <1>3, <3>1, <3>2, Zenon DEF Syncing
  <2>3. CASE SysexPauses
    <3>1. dec' = "loop" /\ i' = i /\ (inSysex' <=> inSysex) /\ i > Len(p)
      BY <2>3, Zenon DEF SysexPauses, Decodes, decoder
    <3> QED
      BY <1>2, <3>1, Zenon DEF Syncing
  <2> QED
    BY <2>1, <2>2, <2>3
<1>4. CASE FirstChunk(p) /\ i = 2
  <2>1. /\ Len(p) >= 4 /\ High(p[2]) /\ p[3] = SOX /\ High(p[3]) /\ p[3] # EOX
        /\ ~High(p[4]) /\ \A y \in 4..Len(p) : p[y] # EOX
    BY <1>1, <1>4, FirstChunkBytes
  <2>2. i + 1 = 3 /\ i <= Len(p) /\ 3 + 1 = 4 /\ 3 + 1 <= Len(p) /\ ~(i > Len(p))
    BY <1>1, <1>4, <2>1
  <2>3. CASE SysexEnds
    <3>1. dec' = "loop" /\ i' = 3 /\ running' = 0 /\ ~inSysex'
      BY <2>2, <2>3, Zenon DEF SysexEnds, Decodes
    <3>2. NoStatus(p, 3)
      BY <2>1, <2>2, Zenon DEF NoStatus
    <3> QED
      BY <1>2, <3>1, <3>2, Zenon DEF Syncing
  <2>4. CASE SysexSkips \/ SysexData
    <3>1. dec' = "sysex" /\ i' = 3
      BY <2>2, <2>4, Zenon DEF SysexSkips, SysexData, Decodes
    <3>2. \A y \in 3..Len(p) : y = 3 \/ y \in 4..Len(p)
      BY <1>1
    <3> QED
      BY <1>2, <2>1, <3>1, <3>2, Zenon DEF Syncing
  <2>5. CASE SysexPauses
    BY <2>2, <2>5, Zenon DEF SysexPauses
  <2> QED
    BY <2>3, <2>4, <2>5
<1> QED
  BY <1>2, <1>3, <1>4, Zenon DEF Syncing

\* A step of the loop in the last packet of a chunked SysEx.
LEMMA FinishingLoop ==
  ASSUME IInv, Finishing, LoopOpensSysex \/ LoopMessage \/ LoopStops
  PROVE  Cleared'
<1>1. /\ p \in Seq(Byte) /\ i \in Nat /\ Len(p) \in Nat /\ running \in Nat
  BY Types
<1>2. dec = "loop" /\ p' = p
  BY DEF LoopOpensSysex, LoopMessage, LoopStops, Decodes
<1>3. CASE ~inSysex /\ running = 0 /\ NoStatus(p, i)
  <2>1. ~HasMessage
    BY <1>2, <1>3, QuietTurn
  <2>2. LoopStops
    BY <2>1, Zenon DEF LoopOpensSysex, LoopMessage
  <2>3. dec' = "idle" /\ running' = running /\ (inSysex' <=> inSysex)
    BY <2>2, Zenon DEF LoopStops, Decodes, decoder
  <2> QED
    BY <1>3, <2>3, Zenon DEF Cleared
<1>4. CASE ~inSysex /\ running = 0 /\ i = 2 /\ Len(p) = 3
  <2>1. i + 1 = 3 /\ i + 2 = 4 /\ i + 1 <= Len(p) /\ Len(p) - 1 = 2 /\ 4 > Len(p)
    BY <1>4
  <2>2. High(p[i]) /\ p[i + 1] = EOX
    BY <1>4, <2>1, Zenon DEF Finishing, LastChunk
  <2>3. /\ HasMessage /\ Status = EOX /\ Status # SOX /\ Complete
        /\ First + dataLen(Status) = 4 /\ RunningAfter(Status) = 0
    BY <1>1, <2>1, <2>2, StrayTurn
  <2>4. LoopMessage
    BY <2>3, Zenon DEF LoopOpensSysex, LoopStops
  <2>5. dec' = "loop" /\ i' = 4 /\ running' = 0 /\ (inSysex' <=> inSysex)
    BY <2>3, <2>4, Zenon DEF LoopMessage, Decodes
  <2>6. NoStatus(p, 4)
    BY <2>1, Zenon DEF NoStatus
  <2>7. Finishing'
    BY <1>2, <1>4, <2>5, <2>6, Zenon DEF Finishing
  <2> QED
    BY <2>7, Zenon DEF Cleared
<1> QED
  BY <1>2, <1>3, <1>4, Zenon DEF Finishing

\* A step within the SysEx that it ends.
LEMMA FinishingSysex ==
  ASSUME IInv, Finishing, SysexEnds \/ SysexSkips \/ SysexData \/ SysexPauses
  PROVE  Cleared'
<1>1. /\ p \in Seq(Byte) /\ i \in Nat /\ i >= 2
  <2>1. dec # "idle"
    BY DEF SysexEnds, SysexSkips, SysexData, SysexPauses, Decodes
  <2> QED
    BY <2>1, Types
<1>2. dec = "sysex" /\ p' = p
  BY DEF SysexEnds, SysexSkips, SysexData, SysexPauses, Decodes
<1>3. /\ i <= Len(p) /\ LastChunk(p)
  BY <1>2, Zenon DEF Finishing
<1>4. PICK l \in Nat : l = Len(p)
  BY LenProperties
<1>5. /\ i <= l /\ p[l] = EOX /\ High(p[l])
      /\ \A y \in 2..l-2 : ~High(p[y])
  BY <1>3, <1>4, HighBytes, Zenon DEF LastChunk
<1>i. i <= l
  BY <1>5, Zenon
<1>6. CASE SysexEnds
  <2>1. p[i] = EOX /\ dec' = "loop" /\ running' = 0 /\ ~inSysex' /\ i' = i + 1
    BY <1>6, Zenon DEF SysexEnds, Decodes
  <2>2. i \notin 2..l-2
    BY <1>5, <2>1, HighBytes, Zenon
  <2>3. i + 1 = l \/ i + 1 > l
    BY <1>1, <1>5, <2>2
  <2>4. NoStatus(p, i + 1)
    <3>1. CASE i + 1 = l
      <4>1. i + 1 >= l
        BY <3>1
      <4> QED
        BY <1>4, <1>5, <3>1, <4>1, Zenon DEF NoStatus
    <3>2. CASE i + 1 > l
      BY <1>4, <3>2, Zenon DEF NoStatus
    <3> QED
      BY <2>3, <3>1, <3>2
  <2>5. Finishing'
    BY <1>2, <1>3, <2>1, <2>4, Zenon DEF Finishing
  <2> QED
    BY <2>5, Zenon DEF Cleared
<1>7. CASE SysexSkips \/ SysexData
  <2>0. p[i] # EOX
    BY <1>7, HighBytes, ZenonT(30) DEF SysexSkips, SysexData
  <2>1. p[i] # EOX /\ dec' = "sysex" /\ i' = i + 1
    BY <1>7, <2>0, Zenon DEF SysexSkips, SysexData, Decodes
  <2>2. i # l
    BY <1>5, <2>1, Zenon
  <2>3. i + 1 <= l
    BY <1>1, <1>i, <2>2
  <2>4. Finishing'
    BY <1>2, <1>3, <1>4, <2>1, <2>3, Zenon DEF Finishing
  <2> QED
    BY <2>4, Zenon DEF Cleared
<1>8. CASE SysexPauses
  <2>1. i > l
    BY <1>4, <1>8, Zenon DEF SysexPauses
  <2> QED
    BY <1>1, <1>i, <2>1
<1> QED
  BY <1>6, <1>7, <1>8

\* A step of the loop in a packet that ends with a whole SysEx.
LEMMA ClearingLoop ==
  ASSUME IInv, Clearing, LoopOpensSysex \/ LoopMessage \/ LoopStops
  PROVE  Cleared'
<1>1. dec = "loop" /\ p' = p
  BY DEF LoopOpensSysex, LoopMessage, LoopStops, Decodes
<1>2. PICK c \in [Nat -> Nat], mm \in [Nat -> Messages], n \in Nat, ts \in 128..255 :
        /\ Lay(p, c, mm, n, ts)
        /\ ~inSysex /\ LoopPlace(p, c, mm, n, ts, i, running)
  <2>1. dec # "sysex"
    BY <1>1
  <2> QED
    BY <2>1, Zenon DEF Clearing
<1>3. Turned(c, mm, n, ts)
  <2>1. /\ p \in Seq(Byte) /\ i \in Nat /\ i >= 2 /\ running \in Nat
    BY <1>1, Types
  <2>2. Lay(p, c, mm, n, ts) /\ LoopPlace(p, c, mm, n, ts, i, running)
        => Turned(c, mm, n, ts)
    BY <2>1, ClearingTurn
  <2> QED
    BY <1>2, <2>2, Zenon
<1>4. CASE ~HasMessage /\ running = 0
  <2>1. LoopStops
    BY <1>4, Zenon DEF LoopOpensSysex, LoopMessage
  <2>2. dec' = "idle" /\ running' = running /\ (inSysex' <=> inSysex)
    BY <2>1, Zenon DEF LoopStops, Decodes, decoder
  <2> QED
    BY <1>2, <1>4, <2>2, Zenon DEF Cleared
<1>5. CASE HasMessage /\ Status = SOX /\ SysexPlace(p, c, mm, n, ts, First)
  <2>1. LoopOpensSysex
    BY <1>5, Zenon DEF LoopMessage, LoopStops
  <2>2. dec' = "sysex" /\ i' = First
    BY <2>1, Zenon DEF LoopOpensSysex, Decodes
  <2>3. Clearing'
    BY <1>1, <1>2, <1>5, <2>2, Zenon DEF Clearing
  <2> QED
    BY <2>3, Zenon DEF Cleared
<1>6. CASE /\ HasMessage /\ Status # SOX /\ Complete
           /\ LoopPlace(p, c, mm, n, ts, First + dataLen(Status), RunningAfter(Status))
  <2>1. LoopMessage
    BY <1>6, Zenon DEF LoopOpensSysex, LoopStops
  <2>2. /\ dec' = "loop" /\ i' = First + dataLen(Status)
        /\ running' = RunningAfter(Status) /\ (inSysex' <=> inSysex)
    BY <2>1, Zenon DEF LoopMessage, Decodes
  <2>3. Clearing'
    BY <1>1, <1>2, <1>6, <2>2, Zenon DEF Clearing
  <2> QED
    BY <2>3, Zenon DEF Cleared
<1> QED
  BY <1>3, <1>4, <1>5, <1>6, Zenon DEF Turned

\* What one byte does to consumeSysex there.
SysexMove(b, c, mm, n, ts, x) ==
  Lay(b, c, mm, n, ts) /\ SysexPlace(b, c, mm, n, ts, x)
    => /\ x <= Len(b)
       /\ b[x] # EOX => SysexPlace(b, c, mm, n, ts, x + 1)
       /\ b[x] = EOX => LoopPlace(b, c, mm, n, ts, x + 1, 0)

\* A step within a SysEx there.
LEMMA ClearingSysex ==
  ASSUME IInv, Clearing, SysexEnds \/ SysexSkips \/ SysexData \/ SysexPauses
  PROVE  Cleared'
<1>1. dec = "sysex" /\ p' = p
  BY DEF SysexEnds, SysexSkips, SysexData, SysexPauses, Decodes
<1>2. PICK c \in [Nat -> Nat], mm \in [Nat -> Messages], n \in Nat, ts \in 128..255 :
        Lay(p, c, mm, n, ts) /\ SysexPlace(p, c, mm, n, ts, i)
  <2>1. dec # "loop"
    BY <1>1
  <2> QED
    BY <2>1, Zenon DEF Clearing
<1>3. /\ i <= Len(p)
      /\ p[i] # EOX => SysexPlace(p, c, mm, n, ts, i + 1)
      /\ p[i] = EOX => LoopPlace(p, c, mm, n, ts, i + 1, 0)
  <2>1. /\ p \in Seq(Byte) /\ i \in Nat
    BY Types
  <2>2. SysexMove(p, c, mm, n, ts, i)
    BY <2>1, SysexMoves DEF SysexMove
  <2> QED
    BY <1>2, <2>2, Zenon DEF SysexMove
<1>4. CASE SysexEnds
  <2>1. p[i] = EOX /\ dec' = "loop" /\ running' = 0 /\ ~inSysex' /\ i' = i + 1
    BY <1>4, Zenon DEF SysexEnds, Decodes
  <2>2. Clearing'
    BY <1>1, <1>2, <1>3, <2>1, Zenon DEF Clearing
  <2> QED
    BY <2>2, Zenon DEF Cleared
<1>5. CASE SysexSkips \/ SysexData
  <2>0. p[i] # EOX
    <3>1. SysexSkips => p[i] # EOX
      BY Zenon DEF SysexSkips
    <3>2. SysexData => ~High(p[i])
      BY Zenon DEF SysexData
    <3>3. p[i] = EOX => High(p[i])
      <4>1. High(EOX)
        BY HighBytes
      <4> QED
        BY <4>1, Zenon
    <3> QED
      BY <1>5, <3>1, <3>2, <3>3, Zenon
  <2>1. p[i] # EOX /\ dec' = "sysex" /\ i' = i + 1
    BY <1>5, <2>0, Zenon DEF SysexSkips, SysexData, Decodes
  <2>2. Clearing'
    BY <1>1, <1>2, <1>3, <2>1, Zenon DEF Clearing
  <2> QED
    BY <2>2, Zenon DEF Cleared
<1>6. CASE SysexPauses
  <2>1. i > Len(p)
    BY <1>6, Zenon DEF SysexPauses
  <2>2. ~(i <= Len(p))
    BY <2>1, Types
  <2> QED
    BY <1>3, <2>2, Zenon
<1> QED
  BY <1>4, <1>5, <1>6

\* The decoder stays on its way with every step inside a packet.
LEMMA DecIsKept ==
  ASSUME IInv, NEW l \in 0..2, DecIs(l),
         SysexEnds \/ SysexSkips \/ SysexData \/ SysexPauses
           \/ LoopOpensSysex \/ LoopMessage \/ LoopStops
  PROVE  DecIs(l)'
<1>1. l = 1 => Syncing'
  BY SyncingLoop, SyncingSysex DEF DecIs
<1>2. ASSUME l = 2 PROVE Cleared'
  <2>1. dec # "idle"
    BY DEF SysexEnds, SysexSkips, SysexData, SysexPauses, LoopOpensSysex,
           LoopMessage, LoopStops, Decodes
  <2>2. Finishing \/ Clearing
    BY <1>2, <2>1, Zenon DEF DecIs, Cleared
  <2> QED
    BY <2>2, FinishingLoop, FinishingSysex, ClearingLoop, ClearingSysex
<1> QED
  BY <1>1, <1>2, Zenon DEF DecIs

\* A packet that ends with a whole SysEx.
Clears(b) ==
  \E c \in [Nat -> Nat], mm \in [Nat -> Messages], n \in Nat, ts \in 128..255 :
    Lay(b, c, mm, n, ts)

\* Packet b takes the decoder from l to l2: nothing is known of it (0), it is
\* in a chunked SysEx or has nothing running (1), or it is in its initial state (2).
Leads(l, b, l2) ==
  /\ l2 = 1 => FirstChunk(b) \/ (l # 0 /\ MiddleChunk(b))
  /\ l2 = 2 => Clears(b) \/ (l # 0 /\ LastChunk(b))

\* The packets on the wire lead from lv[0] to lv[Len(w)].
Trail(w, lv) == \A q \in 1..Len(w) : Leads(lv[q - 1], w[q].bytes, lv[q])

\* The last message framed is a SysEx, and nothing was lost or alien since.
Asked == quiet /\ sent # <<>> /\ IsSysex(sent[Len(sent)])

\* Where its sender leaves the decoder: done, or with a SysEx to go on with.
EncIs == IF enc = "idle" THEN 2 ELSE 1

\* The inductive invariant: with the packets on the wire the decoder finds its place.
Resync ==
  Asked => \E lv \in [Nat -> 0..2] :
             DecIs(lv[0]) /\ Trail(wire, lv) /\ lv[Len(wire)] = EncIs

\* What the decoder knows of a packet it is given.
LEMMA ReceiveGiven ==
  ASSUME IInv, Receive, NEW b, b = wire[1].bytes, Len(b) >= 2
  PROVE  /\ b \in Seq(Byte) /\ p' = b /\ i' = 2 /\ running' = running
         /\ inSysex' <=> inSysex
         /\ dec = "idle" /\ dec' = IF inSysex THEN "sysex" ELSE "loop"
<1>1. wire # <<>> /\ p' = Head(wire).bytes /\ i' = 2 /\ running' = running /\ dec = "idle"
  BY DEF Receive, decoder
<1>2. inSysex' <=> inSysex
  BY Zenon DEF Receive, decoder
<1>3. p' = b /\ b \in Seq(Byte) /\ Len(b) \in Nat
  <2>1. wire \in Seq(Packet)
    BY DEF IInv, TypeOK, Packet
  <2>2. Head(wire) = wire[1] /\ Head(wire) \in Packet
    BY <1>1, <2>1, HeadTailProperties
  <2> QED
    BY <1>1, <2>2, LenProperties DEF Packet
<1>4. ~(Len(p') < 2)
  BY <1>3
<1>5. dec' = IF inSysex THEN "sysex" ELSE "loop"
  BY <1>4, Zenon DEF Receive
<1> QED
  BY <1>1, <1>2, <1>3, <1>5, Zenon

\* Between two packets, when something is known of the decoder, no status is
\* running outside a SysEx.
LEMMA IdleRuns ==
  ASSUME NEW l \in 0..2, l # 0, DecIs(l), dec = "idle"
  PROVE  ~inSysex => running = 0
<1>1. ~Finishing /\ ~Clearing
  BY Zenon DEF Finishing, Clearing
<1>2. Syncing => (~inSysex => running = 0)
  <2>1. dec # "loop" /\ dec # "sysex"
    OBVIOUS
  <2> QED
    BY <2>1, Zenon DEF Syncing
<1>3. Cleared => (~inSysex => running = 0)
  BY <1>1, Zenon DEF Cleared
<1>4. Syncing \/ Cleared
  <2>1. l = 1 \/ l = 2
    OBVIOUS
  <2> QED
    BY <2>1, Zenon DEF DecIs
<1> QED
  BY <1>2, <1>3, <1>4, Zenon

\* A first or middle packet is received.
LEMMA ReceiveChunk ==
  ASSUME IInv, NEW l \in 0..2, DecIs(l), Receive, NEW b, b = wire[1].bytes,
         b \in Seq(Byte), FirstChunk(b) \/ (l # 0 /\ MiddleChunk(b))
  PROVE  Syncing'
<1>1. Len(b) \in Nat
  BY LenProperties
<1>2. Len(b) >= 2
  <2>1. FirstChunk(b) => Len(b) >= 4
    BY Zenon DEF FirstChunk
  <2>2. MiddleChunk(b) => Len(b) >= 2
    BY Zenon DEF MiddleChunk
  <2> QED
    BY <1>1, <2>1, <2>2
<1>3. /\ p' = b /\ i' = 2 /\ running' = running
      /\ inSysex' <=> inSysex
      /\ dec = "idle" /\ dec' = IF inSysex THEN "sysex" ELSE "loop"
  BY <1>2, ReceiveGiven
<1>4. CASE FirstChunk(b)
  <2>1. dec' # "idle" /\ (dec' = "loop" => ~inSysex')
    BY <1>3
  <2> QED
    BY <1>3, <1>4, <2>1, Zenon DEF Syncing
<1>5. CASE l # 0 /\ MiddleChunk(b)
  <2>1. ~inSysex => running = 0
    BY <1>3, <1>5, IdleRuns, Zenon
  <2>2. \A y \in 2..Len(b) : ~High(b[y]) /\ b[y] # EOX
    BY <1>5, HighBytes, Zenon DEF MiddleChunk
  <2>3. CASE inSysex
    BY <1>3, <2>2, <2>3, Zenon DEF Syncing
  <2>4. CASE ~inSysex
    <3>1. 2 \in 2..Len(b)
      BY <1>1, <1>2
    <3>2. NoStatus(b, 2)
      BY <2>2, <3>1, Zenon DEF NoStatus
    <3> QED
      BY <1>3, <2>1, <2>4, <3>2, Zenon DEF Syncing
  <2> QED
    BY <2>3, <2>4
<1> QED
  BY <1>4, <1>5

\* A packet that ends with a whole SysEx is received.
LEMMA ReceiveClears ==
  ASSUME IInv, Receive, NEW b, b = wire[1].bytes, b \in Seq(Byte), Clears(b)
  PROVE  Clearing'
<1>1. PICK c \in [Nat -> Nat], mm \in [Nat -> Messages], n \in Nat, ts \in 128..255 :
        Lay(b, c, mm, n, ts)
  BY Zenon DEF Clears
<1>2. Len(b) \in Nat /\ Len(b) >= 2
  BY <1>1, LayEnds
<1>3. /\ p' = b /\ i' = 2 /\ running' = running
      /\ inSysex' <=> inSysex
      /\ dec' = IF inSysex THEN "sysex" ELSE "loop"
  BY <1>2, ReceiveGiven
<1>4. CASE inSysex
  <2>1. 2 \in 2..Len(b)
    BY <1>2
  <2>2. SysexPlace(b, c, mm, n, ts, 2)
    BY <2>1, Zenon DEF SysexPlace
  <2> QED
    BY <1>1, <1>3, <1>4, <2>2, Zenon DEF Clearing
<1>5. CASE ~inSysex
  <2>1. n \in 1..3 /\ c[1] = 2
    BY <1>1, Zenon DEF Lay
  <2>2. 1 \in 1..n /\ 1 # 2
    BY <2>1
  <2>3. ~Elides(mm[1], c[1], c[1 + 1])
    BY <1>1, <2>2, Zenon DEF Lay
  <2>4. LoopPlace(b, c, mm, n, ts, 2, running)
    BY <2>1, <2>2, <2>3, Zenon DEF LoopPlace
  <2> QED
    BY <1>1, <1>3, <1>5, <2>4, Zenon DEF Clearing
<1> QED
  BY <1>4, <1>5

\* The last packet of a chunked SysEx is received.
LEMMA ReceiveLast ==
  ASSUME IInv, NEW l \in 0..2, DecIs(l), Receive, NEW b, b = wire[1].bytes,
         b \in Seq(Byte), l # 0, LastChunk(b)
  PROVE  Finishing'
<1>1. PICK lb \in Nat : lb = Len(b)
  BY LenProperties
<1>2. lb >= 3 /\ High(b[lb - 1]) /\ b[lb] = EOX /\ \A y \in 2..lb-2 : ~High(b[y])
  BY <1>1, Zenon DEF LastChunk
<1>3. Len(b) >= 2
  BY <1>1, <1>2
<1>4. /\ p' = b /\ i' = 2 /\ running' = running
      /\ inSysex' <=> inSysex
      /\ dec = "idle" /\ dec' = IF inSysex THEN "sysex" ELSE "loop"
  BY <1>3, ReceiveGiven
<1>5. ~inSysex => running = 0
  BY <1>4, IdleRuns, Zenon
<1>6. CASE inSysex
  <2>1. 2 <= Len(b)
    BY <1>1, <1>2
  <2> QED
    BY <1>4, <1>6, <2>1, Zenon DEF Finishing
<1>7. CASE ~inSysex
  <2>1. CASE lb = 3
    BY <1>1, <1>4, <1>5, <1>7, <2>1, Zenon DEF Finishing
  <2>2. CASE lb # 3
    <3>1. 2 \in 2..lb-2
      BY <1>2, <2>2
    <3>2. NoStatus(b, 2)
      BY <1>2, <3>1, Zenon DEF NoStatus
    <3> QED
      BY <1>4, <1>5, <1>7, <3>2, Zenon DEF Finishing
  <2> QED
    BY <2>1, <2>2
<1> QED
  BY <1>6, <1>7

\* Each packet leads the decoder where it says.
LEMMA ReceiveLeads ==
  ASSUME IInv, NEW l \in 0..2, NEW l2 \in 0..2, DecIs(l), Receive,
         Leads(l, wire[1].bytes, l2)
  PROVE  DecIs(l2)'
<1>1. PICK b \in Seq(Byte) : b = wire[1].bytes
  <2>1. wire \in Seq(Packet) /\ wire # <<>>
    BY DEF IInv, TypeOK, Packet, Receive
  <2>2. Head(wire) = wire[1] /\ Head(wire) \in Packet
    BY <2>1, HeadTailProperties
  <2> QED
    BY <2>2 DEF Packet
<1>2. ASSUME l2 = 1 PROVE Syncing'
  <2>1. FirstChunk(b) \/ (l # 0 /\ MiddleChunk(b))
    BY <1>1, <1>2, Zenon DEF Leads
  <2> QED
    BY <1>1, <2>1, ReceiveChunk
<1>3. ASSUME l2 = 2 PROVE Cleared'
  <2>1. Clears(b) \/ (l # 0 /\ LastChunk(b))
    BY <1>1, <1>3, Zenon DEF Leads
  <2>2. Finishing' \/ Clearing'
    BY <1>1, <2>1, ReceiveClears, ReceiveLast
  <2> QED
    BY <2>2, Zenon DEF Cleared
<1> QED
  BY <1>2, <1>3, Zenon DEF DecIs

\* Steps outside the decoder leave it where it is.
LEMMA DecIsStays ==
  ASSUME NEW l \in 0..2, DecIs(l), UNCHANGED decVars
  PROVE  DecIs(l)'
<1>1. /\ dec' = dec /\ p' = p /\ i' = i /\ running' = running
      /\ inSysex' <=> inSysex
  BY Zenon DEF decVars, decoder
<1>2. Syncing => Syncing'
  BY <1>1, ZenonT(30) DEF Syncing
<1>3. Finishing => Finishing'
  BY <1>1, ZenonT(30) DEF Finishing
<1>4. Clearing => Clearing'
  BY <1>1, ZenonT(30) DEF Clearing
<1> QED
  BY <1>1, <1>2, <1>3, <1>4, ZenonT(30) DEF DecIs, Cleared

\* A packet is put that takes the decoder to where its sender is.
LEMMA PutLeads ==
  ASSUME IInv, UNCHANGED decVars,
         NEW lv \in [Nat -> 0..2], DecIs(lv[0]), Trail(wire, lv),
         NEW from \in {"frame", "device", "noise"}, NEW bytes \in Seq(Byte),
         Puts(from, bytes),
         NEW l \in 0..2, Leads(lv[Len(wire)], bytes, l), l = EncIs'
  PROVE  Resync'
<1>1. wire \in Seq(Packet) /\ Len(wire) \in Nat
  BY LenProperties DEF IInv, TypeOK, Packet
<1> DEFINE q1 == [from |-> from, bytes |-> bytes]
<1>2. q1 \in Packet /\ q1.bytes = bytes
  BY DEF Packet
<1>3. wire' = Append(wire, q1)
  BY DEF Puts
<1> HIDE DEF q1
<1>4. /\ Len(wire') = Len(wire) + 1
      /\ \A q \in 1..Len(wire) : wire'[q] = wire[q]
      /\ wire'[Len(wire) + 1] = q1
  BY <1>1, <1>2, <1>3, AppendProperties
<1>5. PICK lw \in Nat : lw = Len(wire)
  BY <1>1
<1>6. PICK dv \in [Nat -> 0..2] :
        dv[lw + 1] = l /\ \A n \in 0..lw : dv[n] = lv[n]
  <2> DEFINE d == [n \in Nat |-> IF n = lw + 1 THEN l ELSE lv[n]]
  <2>1. d \in [Nat -> 0..2]
    OBVIOUS
  <2>2. d[lw + 1] = l /\ \A n \in 0..lw : d[n] = lv[n]
    OBVIOUS
  <2> HIDE DEF d
  <2> QED
    BY <2>1, <2>2, Zenon
<1>7. DecIs(dv[0])'
  <2>1. 0 \in 0..lw
    OBVIOUS
  <2>2. PICK l0 \in 0..2 : l0 = lv[0]
    OBVIOUS
  <2>3. DecIs(l0)
    BY <2>2, Zenon
  <2>4. DecIs(l0)'
    BY <2>3, DecIsStays
  <2>5. dv[0] = l0
    BY <1>6, <2>1, <2>2, Zenon
  <2> QED
    BY <2>4, <2>5, Zenon
<1>8. Trail(wire', dv)
  <2> SUFFICES ASSUME NEW q \in 1..Len(wire')
               PROVE  Leads(dv[q - 1], wire'[q].bytes, dv[q])
    BY DEF Trail
  <2>1. CASE q \in 1..lw
    <3>1. q - 1 \in 0..lw /\ q \in 0..lw
      BY <2>1
    <3>2. Leads(lv[q - 1], wire[q].bytes, lv[q])
      BY <1>5, <2>1, Zenon DEF Trail
    <3> QED
      BY <1>4, <1>5, <1>6, <2>1, <3>1, <3>2, Zenon
  <2>2. CASE q = lw + 1
    <3>1. q - 1 = lw /\ lw \in 0..lw
      BY <2>2
    <3>2. wire'[q].bytes = bytes
      BY <1>2, <1>4, <1>5, <2>2, Zenon
    <3>3. dv[q - 1] = lv[lw] /\ dv[q] = l
      BY <1>6, <2>2, <3>1, Zenon
    <3>4. Leads(lv[lw], bytes, l)
      BY <1>5, Zenon
    <3> QED
      BY <3>2, <3>3, <3>4, Zenon
  <2>3. q \in 1..lw \/ q = lw + 1
    <3>1. Len(wire') = lw + 1
      BY <1>4, <1>5
    <3>2. q \in 1..lw+1
      BY <3>1
    <3> QED
      BY <3>2
  <2> QED
    BY <2>1, <2>2, <2>3
<1>9. dv[Len(wire')] = EncIs'
  BY <1>4, <1>5, <1>6, Zenon
<1> QED
  BY <1>7, <1>8, <1>9, Zenon DEF Resync

\* A packet that needs nothing of the decoder is put.
LEMMA PutFresh ==
  ASSUME IInv, UNCHANGED decVars,
         NEW from \in {"frame", "device", "noise"}, NEW bytes \in Seq(Byte),
         Puts(from, bytes),
         NEW l \in 0..2, Leads(0, bytes, l), l = EncIs'
  PROVE  Resync'
<1>1. PICK lv \in [Nat -> 0..2] : \A n \in Nat : lv[n] = 0
  <2> DEFINE d == [n \in Nat |-> 0]
  <2>1. d \in [Nat -> 0..2] /\ \A n \in Nat : d[n] = 0
    OBVIOUS
  <2> HIDE DEF d
  <2> QED
    BY <2>1, Zenon
<1>2. 0 # 1 /\ 0 # 2 /\ 0 \in Nat
  OBVIOUS
<1>3. DecIs(lv[0])
  BY <1>1, <1>2, Zenon DEF DecIs
<1>4. Len(wire) \in Nat
  BY LenProperties DEF IInv, TypeOK
<1>5. Trail(wire, lv)
  <2>1. \A q \in 1..Len(wire) : q \in Nat
    OBVIOUS
  <2> QED
    BY <1>1, <1>2, <2>1, Zenon DEF Trail, Leads
<1>6. Leads(lv[Len(wire)], bytes, l)
  BY <1>1, <1>4, Zenon
<1> QED
  BY <1>3, <1>5, <1>6, PutLeads

\* A packet is received.
LEMMA ReceiveResyncs ==
  ASSUME IInv, Resync, Receive
  PROVE  Resync'
<1>0. SUFFICES ASSUME Asked PROVE Resync'
  <2>1. Asked' <=> Asked
    BY Zenon DEF Receive, history, Asked
  <2> QED
    BY <2>1, Zenon DEF Resync
<1>1. wire # <<>> /\ wire' = Tail(wire) /\ enc' = enc
  BY DEF Receive, encVars
<1>2. PICK lv \in [Nat -> 0..2] :
        DecIs(lv[0]) /\ Trail(wire, lv) /\ lv[Len(wire)] = EncIs
  BY <1>0, Zenon DEF Resync
<1>4. PICK lw \in Nat : lw + 1 = Len(wire) /\ lw = Len(wire')
                        /\ \A q \in 1..lw : wire'[q] = wire[q + 1]
  <2>1. wire \in Seq(Packet)
    BY DEF IInv, TypeOK, Packet
  <2>2. /\ wire' \in Seq(Packet) /\ Len(wire') = Len(wire) - 1
        /\ \A q \in 1..Len(wire') : wire'[q] = wire[q + 1]
    BY <1>1, <2>1, HeadTailProperties
  <2>3. Len(wire') \in Nat /\ Len(wire) \in Nat
    BY <2>1, <2>2, LenProperties
  <2>4. Len(wire') + 1 = Len(wire)
    BY <2>2, <2>3
  <2> QED
    BY <2>2, <2>3, <2>4, Zenon
<1>5. PICK dv \in [Nat -> 0..2] : \A n \in Nat : dv[n] = lv[n + 1]
  <2> DEFINE d == [n \in Nat |-> lv[n + 1]]
  <2>1. d \in [Nat -> 0..2] /\ \A n \in Nat : d[n] = lv[n + 1]
    OBVIOUS
  <2> HIDE DEF d
  <2> QED
    BY <2>1, Zenon
<1>6. PICK l \in 0..2, l2 \in 0..2 : l = lv[0] /\ l2 = lv[1]
  <2>1. lv[0] \in 0..2 /\ lv[1] \in 0..2
    OBVIOUS
  <2> QED
    BY <2>1, Zenon
<1>7. Leads(l, wire[1].bytes, l2)
  <2>1. 1 \in 1..Len(wire) /\ 1 - 1 = 0
    BY <1>4
  <2> QED
    BY <1>2, <1>6, <2>1, Zenon DEF Trail
<1>8. DecIs(l2)'
  <2>1. DecIs(l)
    BY <1>2, <1>6, Zenon
  <2> QED
    BY <1>7, <2>1, ReceiveLeads
<1>9. DecIs(dv[0])'
  <2>1. 0 \in Nat /\ 0 + 1 = 1
    OBVIOUS
  <2>2. dv[0] = l2
    BY <1>5, <1>6, <2>1, Zenon
  <2> QED
    BY <1>8, <2>2, Zenon
<1>10. Trail(wire', dv)
  <2> SUFFICES ASSUME NEW q \in 1..Len(wire')
               PROVE  Leads(dv[q - 1], wire'[q].bytes, dv[q])
    BY DEF Trail
  <2>1. q \in 1..lw
    BY <1>4
  <2>2. /\ q + 1 \in 1..lw+1 /\ (q + 1) - 1 = q /\ (q - 1) + 1 = q
        /\ q \in Nat /\ q - 1 \in Nat
    BY <2>1
  <2>3. Leads(lv[q], wire[q + 1].bytes, lv[q + 1])
    BY <1>2, <1>4, <2>2, Zenon DEF Trail
  <2>4. dv[q - 1] = lv[q] /\ dv[q] = lv[q + 1]
    BY <1>5, <2>2, Zenon
  <2> QED
    BY <1>4, <2>1, <2>3, <2>4, Zenon
<1>11. dv[Len(wire')] = EncIs'
  <2>1. dv[Len(wire')] = lv[Len(wire)]
    BY <1>4, <1>5, Zenon
  <2> QED
    BY <1>1, <1>2, <2>1, Zenon DEF EncIs
<1> QED
  BY <1>9, <1>10, <1>11, Zenon DEF Resync

\* A step inside a packet.
LEMMA InPacketResyncs ==
  ASSUME IInv, Resync,
         SysexEnds \/ SysexSkips \/ SysexData \/ SysexPauses
           \/ LoopOpensSysex \/ LoopMessage \/ LoopStops
  PROVE  Resync'
<1>1. wire' = wire /\ enc' = enc /\ sent' = sent /\ (quiet' <=> quiet)
  <2>1. PICK at, next \in {"idle", "sysex", "loop"} : Decodes(at, next)
    BY DEF SysexEnds, SysexSkips, SysexData, SysexPauses, LoopOpensSysex,
           LoopMessage, LoopStops
  <2> QED
    BY <2>1, Zenon DEF Decodes, encVars, history
<1>2. Asked' <=> Asked
  BY <1>1, Zenon DEF Asked
<1>3. SUFFICES ASSUME Asked PROVE Resync'
  BY <1>2, Zenon DEF Resync
<1>4. PICK lv \in [Nat -> 0..2] :
        DecIs(lv[0]) /\ Trail(wire, lv) /\ lv[Len(wire)] = EncIs
  BY <1>3, Zenon DEF Resync
<1>5. DecIs(lv[0])'
  <2>1. PICK l \in 0..2 : l = lv[0]
    OBVIOUS
  <2>2. DecIs(l)
    BY <1>4, <2>1, Zenon
  <2>3. DecIs(l)'
    BY <2>2, DecIsKept
  <2> QED
    BY <2>1, <2>3, Zenon
<1> QED
  BY <1>1, <1>4, <1>5, Zenon DEF Resync, EncIs

\* A packet is lost, or an alien one arrives.
LEMMA DisturbsResyncs ==
  ASSUME Disturbs PROVE Resync'
<1>1. ~quiet'
  BY Zenon DEF Disturbs
<1> QED
  BY <1>1, Zenon DEF Resync, Asked

-----------------------------------------------------------------------------
(* The packets of FrameMessageMTU. *)

\* The first packet of a chunked SysEx.
LEMMA FirstIsChunk ==
  ASSUME NEW m \in Messages, IsSysex(m), NEW ts \in 128..255,
         NEW j \in Nat, j >= 2, j <= Len(m) - 1
  PROVE  \E b \in Seq(Byte) : /\ b = <<Header, ts, SOX>> \o SubSeq(m, 2, j)
                              /\ FirstChunk(b)
<1> DEFINE h == <<Header, ts, SOX>>
           d == SubSeq(m, 2, j)
           b == h \o d
<1>1. /\ m \in Seq(Byte) /\ Len(m) \in Nat
      /\ \A k \in 2..Len(m)-1 : m[k] \in 0..127
  BY MessageBytes, SysexBytes
<1>2. /\ h \in Seq(Byte) /\ Len(h) = 3 /\ h[2] = ts /\ h[3] = SOX
  BY DEF Header, SOX, Byte
<1>3. /\ d \in Seq(Byte) /\ Len(d) = j - 1
      /\ \A a \in 1..j-1 : d[a] = m[2 + a - 1]
  <2>1. j <= Len(m)
    BY <1>1
  <2>2. /\ d \in Seq(Byte) /\ Len(d) = j + 1 - 2
        /\ \A a \in 1..j+1-2 : d[a] = m[2 + a - 1]
    BY <1>1, <2>1, SubBytes
  <2>3. j + 1 - 2 = j - 1
    OBVIOUS
  <2> HIDE DEF d
  <2> QED
    BY <2>2, <2>3
<1> HIDE DEF h, d
<1>4. /\ b \in Seq(Byte) /\ Len(b) = Len(h) + Len(d)
      /\ \A a \in 1..Len(h) : b[a] = h[a]
      /\ \A a \in 1..Len(d) : b[Len(h) + a] = d[a]
  BY <1>2, <1>3, ConcatBytes, Zenon
<1> HIDE DEF b
<1>5. b[2] = ts /\ b[3] = SOX /\ Len(b) = j + 2
  <2>1. 2 \in 1..3 /\ 3 \in 1..3 /\ 3 + (j - 1) = j + 2
    OBVIOUS
  <2> QED
    BY <1>2, <1>3, <1>4, <2>1, Zenon
<1>6. ASSUME NEW y \in 4..Len(b) PROVE ~High(b[y])
  <2>1. PICK a \in 1..j-1 : y = 3 + a
    <3>1. y - 3 \in 1..j-1 /\ y = 3 + (y - 3)
      BY <1>5
    <3> QED
      BY <3>1
  <2>2. 2 + a - 1 \in 2..Len(m)-1
    BY <1>1
  <2>3. b[y] = m[2 + a - 1]
    BY <1>2, <1>3, <1>4, <2>1, Zenon
  <2>4. m[2 + a - 1] \in 0..127
    BY <1>1, <2>2, Zenon
  <2> QED
    BY <2>3, <2>4, HighBytes, Zenon
<1>7. High(b[2]) /\ Len(b) >= 4
  <2>1. High(b[2])
    BY <1>5, HighBytes, Zenon
  <2>2. Len(b) >= 4
    BY <1>5
  <2> QED
    BY <2>1, <2>2
<1>8. FirstChunk(b)
  BY <1>5, <1>6, <1>7, Zenon DEF FirstChunk
<1> QED
  BY <1>4, <1>8, Zenon DEF b, h, d

\* A middle packet.
LEMMA MiddleIsChunk ==
  ASSUME NEW d \in Seq(Data), NEW take \in Nat, take >= 1, take <= Len(d)
  PROVE  \E b \in Seq(Byte) : /\ b = <<Header>> \o SubSeq(d, 1, take)
                              /\ MiddleChunk(b)
<1> DEFINE h == <<Header>>
           g == SubSeq(d, 1, take)
           b == h \o g
<1>1. /\ d \in Seq(Byte) /\ Len(d) \in Nat /\ \A a \in 1..Len(d) : d[a] \in 0..127
  <2>1. d \in Seq(Byte) /\ Len(d) \in Nat
    BY SeqMonotonic, LenProperties DEF Data, Byte
  <2>2. \A a \in 1..Len(d) : d[a] \in Data
    BY ElementOfSeq
  <2> QED
    BY <2>1, <2>2 DEF Data
<1>2. h \in Seq(Byte) /\ Len(h) = 1
  BY DEF Header, Byte
<1>3. /\ g \in Seq(Byte) /\ Len(g) = take + 1 - 1
      /\ \A a \in 1..take+1-1 : g[a] = d[1 + a - 1]
  BY <1>1, SubBytes
<1> HIDE DEF h, g
<1>4. /\ b \in Seq(Byte) /\ Len(b) = Len(h) + Len(g)
      /\ \A a \in 1..Len(g) : b[Len(h) + a] = g[a]
  BY <1>2, <1>3, ConcatBytes, Zenon
<1> HIDE DEF b
<1>5. Len(g) = take /\ Len(b) = 1 + take
  <2>1. take + 1 - 1 = take
    OBVIOUS
  <2> QED
    BY <1>2, <1>3, <1>4, <2>1, Zenon
<1>6. ASSUME NEW y \in 2..Len(b) PROVE ~High(b[y])
  <2>1. PICK a \in 1..take : y = 1 + a
    <3>1. y - 1 \in 1..take /\ y = 1 + (y - 1)
      BY <1>5
    <3> QED
      BY <3>1
  <2>2. a \in 1..take+1-1 /\ 1 + a - 1 = a /\ a \in 1..Len(d)
    BY <1>1
  <2>3. b[y] = d[a]
    BY <1>2, <1>3, <1>4, <1>5, <2>1, <2>2, Zenon
  <2> QED
    BY <1>1, <2>2, <2>3, HighBytes, Zenon
<1>7. Len(b) >= 2
  BY <1>5
<1>8. MiddleChunk(b)
  BY <1>6, <1>7, Zenon DEF MiddleChunk
<1> QED
  BY <1>4, <1>8, Zenon DEF b, h, g

\* The last packet.
LEMMA LastIsChunk ==
  ASSUME NEW d \in Seq(Data), NEW ts \in 128..255
  PROVE  \E b \in Seq(Byte) : /\ b = <<Header>> \o d \o <<ts, EOX>>
                              /\ LastChunk(b)
<1> DEFINE h == <<Header>>
           f == <<ts, EOX>>
           g == h \o d
           b == g \o f
<1>1. /\ d \in Seq(Byte) /\ Len(d) \in Nat /\ \A a \in 1..Len(d) : d[a] \in 0..127
  <2>1. d \in Seq(Byte) /\ Len(d) \in Nat
    BY SeqMonotonic, LenProperties DEF Data, Byte
  <2>2. \A a \in 1..Len(d) : d[a] \in Data
    BY ElementOfSeq
  <2> QED
    BY <2>1, <2>2 DEF Data
<1>2. h \in Seq(Byte) /\ Len(h) = 1
  BY DEF Header, Byte
<1>3. f \in Seq(Byte) /\ Len(f) = 2 /\ f[1] = ts /\ f[2] = EOX
  BY DEF EOX, Byte
<1> HIDE DEF h, f
<1>4. /\ g \in Seq(Byte) /\ Len(g) = Len(h) + Len(d)
      /\ \A a \in 1..Len(d) : g[Len(h) + a] = d[a]
  BY <1>1, <1>2, ConcatBytes, Zenon
<1> HIDE DEF g
<1>5. /\ b \in Seq(Byte) /\ Len(b) = Len(g) + Len(f)
      /\ \A a \in 1..Len(g) : b[a] = g[a]
      /\ \A a \in 1..Len(f) : b[Len(g) + a] = f[a]
  BY <1>3, <1>4, ConcatBytes, Zenon
<1> HIDE DEF b
<1>6. PICK l \in Nat : l = Len(d) /\ Len(g) = 1 + l /\ Len(b) = l + 3
  <2>1. Len(g) = 1 + Len(d)
    BY <1>2, <1>4, Zenon
  <2>2. Len(b) = Len(g) + 2
    BY <1>3, <1>5, Zenon
  <2>3. Len(b) = Len(d) + 3
    BY <1>1, <2>1, <2>2
  <2> QED
    BY <1>1, <2>1, <2>3, Zenon
<1>7. b[l + 2] = ts /\ b[l + 3] = EOX
  <2>1. 1 \in 1..2 /\ 2 \in 1..2 /\ (1 + l) + 1 = l + 2 /\ (1 + l) + 2 = l + 3
    OBVIOUS
  <2> QED
    BY <1>3, <1>5, <1>6, <2>1, Zenon
<1>8. ASSUME NEW y \in 2..l+1 PROVE ~High(b[y])
  <2>1. PICK a \in 1..l : y = 1 + a
    <3>1. y - 1 \in 1..l /\ y = 1 + (y - 1)
      OBVIOUS
    <3> QED
      BY <3>1
  <2>2. 1 + a \in 1..(1 + l)
    OBVIOUS
  <2>3. b[y] = d[a]
    BY <1>2, <1>4, <1>5, <1>6, <2>1, <2>2, Zenon
  <2> QED
    BY <1>1, <1>6, <2>3, HighBytes, Zenon
<1>9. LastChunk(b)
  <2>1. (l + 3) - 1 = l + 2 /\ (l + 3) - 2 = l + 1 /\ l + 3 >= 3
    OBVIOUS
  <2>2. High(b[l + 2])
    BY <1>7, HighBytes, Zenon
  <2> QED
    BY <1>6, <1>7, <1>8, <2>1, <2>2, Zenon DEF LastChunk
<1> QED
  BY <1>5, <1>9, Zenon DEF b, g, h, f

\* A SysEx in one packet.
LEMMA WholeClears ==
  ASSUME NEW m \in Messages, IsSysex(m), NEW ts \in 128..255
  PROVE  \E b \in Seq(Byte) : b = <<Header, ts>> \o m /\ Clears(b)
<1> DEFINE h == <<Header, ts>>
           b == h \o m
<1>1. PICK l \in Nat : l = Len(m) /\ l >= 2
  BY MessageBytes, SysexBytes
<1>2. m \in Seq(Byte) /\ m[l] = EOX
  BY <1>1, MessageBytes, SysexBytes DEF EOX
<1>3. h \in Seq(Byte) /\ Len(h) = 2 /\ h[2] = ts
  BY DEF Header, Byte
<1> HIDE DEF h
<1>4. /\ b \in Seq(Byte) /\ Len(b) = Len(h) + Len(m)
      /\ \A a \in 1..Len(h) : b[a] = h[a]
      /\ \A a \in 1..Len(m) : b[Len(h) + a] = m[a]
  BY <1>2, <1>3, ConcatBytes, Zenon
<1> HIDE DEF b
<1>5. /\ Len(b) = 2 + l /\ b[2] = ts /\ \A a \in 1..l : b[2 + a] = m[a]
  <2>1. 2 \in 1..2
    OBVIOUS
  <2> QED
    BY <1>1, <1>3, <1>4, <2>1, Zenon
<1>6. PICK y \in Nat : y = 2 + 1 + l /\ y - 1 = 2 + l /\ y = (2 + l) + 1 /\ y > 2
  <2>1. 2 + 1 + l \in Nat /\ (2 + 1 + l) - 1 = 2 + l /\ 2 + 1 + l = (2 + l) + 1
        /\ 2 + 1 + l > 2
    OBVIOUS
  <2> QED
    BY <2>1, Zenon
<1>7. Takes(b, 2, y, m, ts)
  <2>1. Copies(b, 2, m, 1, Len(m) - 1)
    <3>1. \A a \in 1..l-1 : a \in 1..l
      OBVIOUS
    <3> QED
      BY <1>1, <1>5, <3>1, Zenon DEF Copies
  <2>2. b[y - 1] = EOX
    <3>1. l \in 1..l
      BY <1>1
    <3> QED
      BY <1>2, <1>5, <1>6, <3>1, Zenon
  <2> QED
    BY <1>1, <1>5, <1>6, <2>1, <2>2, Zenon DEF Takes
<1>8. PICK c \in [Nat -> Nat] : c[1] = 2 /\ c[1 + 1] = y
  <2> DEFINE d == [n \in Nat |-> IF n = 1 THEN 2 ELSE y]
  <2>1. d \in [Nat -> Nat] /\ d[1] = 2 /\ d[1 + 1] = y
    OBVIOUS
  <2> QED
    BY <2>1
<1>9. PICK mm \in [Nat -> Messages] : mm[1] = m
  <2>1. [n \in Nat |-> m] \in [Nat -> Messages] /\ [n \in Nat |-> m][1] = m
    OBVIOUS
  <2> QED
    BY <2>1, Zenon
<1>10. Lay(b, c, mm, 1, ts)
  <2>1. 1 \in 1..3 /\ IsSysex(mm[1]) /\ c[1] = 2 /\ c[1 + 1] = Len(b) + 1
    <3>1. 1 \in 1..3
      OBVIOUS
    <3> QED
      BY <1>5, <1>6, <1>8, <1>9, <3>1, Zenon
  <2>2. c[1] >= 2 /\ c[1 + 1] > c[1] /\ c[1 + 1] <= Len(b) + 1
    <3>1. y <= y
      OBVIOUS
    <3>2. 2 >= 2
      OBVIOUS
    <3> QED
      BY <1>6, <1>8, <2>1, <3>1, <3>2, Zenon
  <2>3. Takes(b, c[1], c[1 + 1], mm[1], ts)
    BY <1>7, <1>8, <1>9, Zenon
  <2>4. ~Elides(mm[1], c[1], c[1 + 1])
    BY <1>9, Zenon DEF Elides
  <2>5. \A a \in 1..1 : a = 1
    OBVIOUS
  <2> QED
    BY <2>1, <2>2, <2>3, <2>4, <2>5, ZenonT(30) DEF Lay
<1>11. Clears(b)
  <2>1. 1 \in Nat
    OBVIOUS
  <2> QED
    BY <1>10, <2>1, Zenon DEF Clears
<1> QED
  BY <1>4, <1>11, Zenon DEF b, h

\* Resync when FrameMessageMTU emits a message in one packet.
LEMMA WholeResyncs ==
  ASSUME IInv, NEW m \in Messages, NEW ts \in Stamps, FrameWhole(m, ts)
  PROVE  Resync'
<1>1. /\ enc = "idle" /\ enc' = enc /\ sent' = sent \o <<m>>
      /\ Puts("frame", <<Header, ts>> \o m) /\ UNCHANGED decVars
  BY DEF FrameWhole, Sends, encVars
<1>2. Asked' => IsSysex(m)
  <2>1. sent \in Seq(Messages) /\ <<m>> \in Seq(Messages) /\ Len(<<m>>) = 1 /\ <<m>>[1] = m
    BY Types
  <2>2. PICK ms \in Seq(Messages) : ms = <<m>> /\ Len(ms) = 1 /\ ms[1] = m
    BY <2>1
  <2>3. PICK k \in Nat : k = Len(sent)
    BY <2>1, LenProperties
  <2>4. /\ sent' \in Seq(Messages) /\ Len(sent') = Len(sent) + Len(ms)
        /\ \A a \in 1..Len(ms) : sent'[Len(sent) + a] = ms[a]
    BY <1>1, <2>1, <2>2, ExtendsConcat, Zenon
  <2>5. 1 \in 1..1
    OBVIOUS
  <2>6. Len(sent') = k + 1 /\ sent'[k + 1] = m
    BY <2>2, <2>3, <2>4, <2>5, Zenon
  <2> QED
    BY <2>6, Zenon DEF Asked
<1>3. SUFFICES ASSUME IsSysex(m) PROVE Resync'
  BY <1>2, Zenon DEF Resync
<1>4. ts \in 128..255
  BY FramingAssumption
<1>5. PICK b \in Seq(Byte) : b = <<Header, ts>> \o m /\ Clears(b)
  BY <1>3, <1>4, WholeClears
<1>6. Puts("frame", b)
  BY <1>1, <1>5
<1>7. 2 \in 0..2 /\ 2 # 1
  OBVIOUS
<1>8. Leads(0, b, 2)
  BY <1>5, <1>7, Zenon DEF Leads
<1>9. 2 = EncIs'
  BY <1>1, Zenon DEF EncIs
<1> QED
  BY <1>1, <1>6, <1>7, <1>8, <1>9, PutFresh, Zenon

\* Resync when it emits the first packet of a SysEx.
LEMMA FirstResyncs ==
  ASSUME IInv, NEW m \in Messages, NEW ts \in Stamps, FrameFirst(m, ts)
  PROVE  Resync'
<1>1. /\ enc' = "chunking" /\ UNCHANGED decVars
      /\ Puts("frame", <<Header, ts, SOX>> \o SubSeq(m, 2, Mtu - 2))
  BY DEF FrameFirst, Sends
<1>2. ts \in 128..255
  BY FramingAssumption
<1>3. /\ IsSysex(m) /\ Mtu - 2 \in Nat /\ Mtu - 2 >= 2 /\ Mtu - 2 <= Len(m) - 1
  <2>1. Mtu \in Nat /\ ~(Mtu < 4 \/ Len(m) + 2 <= Mtu \/ ~IsSysex(m))
    BY FramingAssumption DEF FrameFirst, OnePacket
  <2>2. Len(m) \in Nat
    BY MessageBytes
  <2> QED
    BY <2>1, <2>2
<1>4. PICK j \in Nat : j = Mtu - 2 /\ j >= 2 /\ j <= Len(m) - 1
  BY <1>3
<1>5. PICK b \in Seq(Byte) :
        b = <<Header, ts, SOX>> \o SubSeq(m, 2, j) /\ FirstChunk(b)
  BY <1>2, <1>3, <1>4, FirstIsChunk
<1>6. Puts("frame", b)
  BY <1>1, <1>4, <1>5
<1>7. 1 \in 0..2 /\ 1 # 2
  OBVIOUS
<1>8. Leads(0, b, 1)
  BY <1>5, <1>7, Zenon DEF Leads
<1>9. 1 = EncIs'
  BY <1>1, Zenon DEF EncIs
<1> QED
  BY <1>1, <1>6, <1>7, <1>8, <1>9, PutFresh, Zenon

\* Resync when it emits a middle packet.
LEMMA MiddleResyncs ==
  ASSUME IInv, Resync, FrameMiddle
  PROVE  Resync'
<1>0. SUFFICES ASSUME Asked PROVE Resync'
  <2>1. Asked' <=> Asked
    BY Zenon DEF FrameMiddle, Chunks, history, Asked
  <2> QED
    BY <2>1, Zenon DEF Resync
<1>1. /\ enc = "chunking" /\ enc' = enc /\ UNCHANGED decVars
      /\ body # <<>>
  BY DEF FrameMiddle, Chunks, history
<1>2. body \in Seq(Data) /\ Len(body) \in Nat
  BY LenProperties DEF IInv, TypeOK
<1>3. PICK take \in Nat : /\ take = IF Room > Len(body) THEN Len(body) ELSE Room
                         /\ take >= 1 /\ take <= Len(body)
  <2>1. Mtu \in Nat /\ Mtu >= 4
    BY <1>1, FramingAssumption DEF IInv, ChunkingRoom
  <2>2. PICK l \in Nat : l = Len(body) /\ l # 0
    BY <1>1, <1>2, EmptySeq
  <2>3. Room \in Nat /\ Room >= 1
    BY <2>1 DEF Room
  <2>4. (IF Room > l THEN l ELSE Room) \in Nat
        /\ (IF Room > l THEN l ELSE Room) >= 1 /\ (IF Room > l THEN l ELSE Room) <= l
    BY <2>2, <2>3
  <2> QED
    BY <2>2, <2>4, Zenon
<1>4. Puts("frame", <<Header>> \o SubSeq(body, 1, take))
  BY <1>3, Zenon DEF FrameMiddle
<1>5. PICK b \in Seq(Byte) : b = <<Header>> \o SubSeq(body, 1, take) /\ MiddleChunk(b)
  BY <1>2, <1>3, MiddleIsChunk
<1>6. Puts("frame", b)
  BY <1>4, <1>5
<1>7. PICK lv \in [Nat -> 0..2] :
        DecIs(lv[0]) /\ Trail(wire, lv) /\ lv[Len(wire)] = EncIs
  BY <1>0, Zenon DEF Resync
<1>8. EncIs = 1 /\ EncIs' = 1
  BY <1>1, Zenon DEF EncIs
<1>9. 1 \in 0..2 /\ 1 # 2 /\ 1 # 0
  OBVIOUS
<1>10. Leads(lv[Len(wire)], b, 1)
  BY <1>5, <1>7, <1>8, <1>9, Zenon DEF Leads
<1>11. DecIs(lv[0]) /\ Trail(wire, lv)
  BY <1>7, Zenon
<1>12. 1 = EncIs' /\ 1 \in 0..2
  BY <1>8, <1>9
<1> QED
  BY <1>1, <1>6, <1>10, <1>11, <1>12, PutLeads, Zenon

\* Resync when it emits the last packet.
LEMMA LastResyncs ==
  ASSUME IInv, Resync, FrameLast
  PROVE  Resync'
<1>0. SUFFICES ASSUME Asked PROVE Resync'
  <2>1. Asked' <=> Asked
    BY Zenon DEF FrameLast, Chunks, history, Asked
  <2> QED
    BY <2>1, Zenon DEF Resync
<1>1. /\ enc = "chunking" /\ enc' = "idle" /\ UNCHANGED decVars
      /\ Puts("frame", <<Header>> \o body \o <<stamp, EOX>>)
  BY DEF FrameLast, Chunks, history
<1>2. body \in Seq(Data) /\ stamp \in 128..255
  BY DEF IInv, TypeOK
<1>5. PICK b \in Seq(Byte) : b = <<Header>> \o body \o <<stamp, EOX>> /\ LastChunk(b)
  BY <1>2, LastIsChunk
<1>6. Puts("frame", b)
  BY <1>1, <1>5
<1>7. PICK lv \in [Nat -> 0..2] :
        DecIs(lv[0]) /\ Trail(wire, lv) /\ lv[Len(wire)] = EncIs
  BY <1>0, Zenon DEF Resync
<1>8. EncIs = 1 /\ EncIs' = 2
  BY <1>1, Zenon DEF EncIs
<1>9. 2 \in 0..2 /\ 2 # 1 /\ 1 # 0
  OBVIOUS
<1>10. Leads(lv[Len(wire)], b, 2)
  BY <1>5, <1>7, <1>8, <1>9, Zenon DEF Leads
<1>11. DecIs(lv[0]) /\ Trail(wire, lv)
  BY <1>7, Zenon
<1>12. 2 = EncIs' /\ 2 \in 0..2
  BY <1>8, <1>9
<1> QED
  BY <1>1, <1>6, <1>10, <1>11, <1>12, PutLeads, Zenon

\* Part a of a bundle takes the bytes from x up to y.
PartAt(ms, b, x, y, a, ts) ==
  /\ y >= x + 1
  /\ Takes(b, x, y, ms[a], ts)
  /\ Elides(ms[a], x, y) => Repeats(ms, a)

\* Every part of a bundle does so.
LEMMA PartTakes ==
  ASSUME NEW ms \in Bundles, NEW ts \in 128..255, NEW runs \in BOOLEAN,
         NEW a \in 1..Len(ms), NEW b \in Seq(Byte), NEW x \in Nat, NEW y \in Nat,
         Placed(b, x, Part(ms, ts, runs, a)), y = x + Len(Part(ms, ts, runs, a))
  PROVE  PartAt(ms, b, x, y, a, ts)
<1>1. ms \in Seq(Messages) /\ Len(ms) \in Nat
  BY FramingAssumption, LenProperties
<1>2. PICK m \in Messages : m = ms[a]
  BY <1>1, ElementOfSeq
<1>3. PICK r \in BOOLEAN : r = (runs /\ Repeats(ms, a))
  BY Zenon
<1>4. Part(ms, ts, runs, a) = Stamped(m, ts, r)
  <2>1. ~(a > Len(ms))
    BY <1>1
  <2> QED
    BY <1>2, <1>3, <2>1, Zenon DEF Part
<1>5. Placed(b, x, Stamped(m, ts, r)) /\ y = x + Len(Stamped(m, ts, r))
  BY <1>4, Zenon
<1>6. StampedAt(b, x, m, ts, r, Len(Stamped(m, ts, r)))
  BY <1>5, StampedBytes
<1>7. PICK l \in Nat, n \in Nat : l = Len(Stamped(m, ts, r)) /\ n = Len(m) /\ y = x + l
  <2>1. ts \in Byte
    BY DEF Byte
  <2>2. Stamped(m, ts, r) \in Seq(Byte)
    BY <2>1, StampedType, Zenon
  <2> QED
    BY <1>5, <2>2, MessageBytes, LenProperties
<1>8. b[x] = ts /\ l >= 1
  BY <1>6, <1>7, Zenon DEF StampedAt
<1>9. y >= x + 1
  BY <1>7, <1>8
<1>10. CASE r
  <2>1. l = n /\ Copies(b, x - 1, m, 2, n)
    BY <1>6, <1>7, <1>10, Zenon DEF StampedAt
  <2>2. Repeats(ms, a)
    BY <1>3, <1>10
  <2>3. ~IsSysex(m)
    <3>1. m[1] < SOX
      BY <1>2, <2>2, Zenon DEF Repeats
    <3>2. m[1] # SOX
      <4>1. m[1] \in Byte /\ SOX \in Nat
        <5>1. m \in Seq(Byte) /\ Len(m) \in Nat /\ Len(m) >= 1
          BY MessageBytes
        <5>2. 1 \in 1..Len(m)
          BY <5>1
        <5> QED
          BY <5>1, <5>2, ElementOfSeq DEF SOX
      <4> QED
        BY <3>1, <4>1 DEF SOX, Byte
    <3> QED
      BY <3>2, Zenon DEF IsSysex
  <2>4. Takes(b, x, y, m, ts)
    BY <1>7, <1>8, <2>1, <2>3, Zenon DEF Takes
  <2> QED
    BY <1>2, <1>9, <2>2, <2>4, Zenon DEF PartAt
<1>11. CASE ~r /\ IsSysex(m)
  <2>1. /\ l = 2 + n /\ Copies(b, x, m, 1, n - 1)
        /\ b[x + n] = ts /\ b[x + (n + 1)] = EOX
    BY <1>6, <1>7, <1>11, Zenon DEF StampedAt
  <2>2. y = x + 2 + n /\ y - 2 = x + n /\ y - 1 = x + (n + 1)
    <3>1. l = 2 + n
      BY <2>1
    <3> QED
      BY <1>7, <3>1
  <2>3. Takes(b, x, y, m, ts)
    BY <1>7, <1>8, <1>11, <2>1, <2>2, Zenon DEF Takes
  <2> QED
    BY <1>2, <1>9, <1>11, <2>3, Zenon DEF PartAt, Elides
<1>12. CASE ~r /\ ~IsSysex(m)
  <2>1. l = 1 + n /\ Copies(b, x, m, 1, n)
    BY <1>6, <1>7, <1>12, Zenon DEF StampedAt
  <2>2. y = x + 1 + n /\ y # x + n
    <3>1. l = 1 + n
      BY <2>1
    <3> QED
      BY <1>7, <3>1
  <2>3. Takes(b, x, y, m, ts)
    BY <1>7, <1>8, <1>12, <2>1, <2>2, Zenon DEF Takes
  <2> QED
    BY <1>2, <1>7, <1>9, <2>2, <2>3, Zenon DEF PartAt, Elides
<1> QED
  BY <1>10, <1>11, <1>12

\* Where the messages of a bundle begin in its packet.
PartsAt(ms, b, X, n, ts) ==
  /\ X[1] = 2 /\ X[n + 1] = Len(b) + 1
  /\ \A a \in 1..n : PartAt(ms, b, X[a], X[a + 1], a, ts) /\ X[a] >= 2 /\ X[a + 1] <= Len(b) + 1

\* A bundle of n messages has them there.
LEMMA PartsTake ==
  ASSUME NEW ms \in Bundles, NEW ts \in 128..255, NEW runs \in BOOLEAN,
         NEW n \in 1..3
  PROVE  n = Len(ms) => \E b \in Seq(Byte), X \in [Nat -> Nat] :
           b = Bundle(ms, ts, runs) /\ PartsAt(ms, b, X, n, ts)
<1>0. SUFFICES ASSUME n = Len(ms)
               PROVE  \E b \in Seq(Byte), X \in [Nat -> Nat] :
                        b = Bundle(ms, ts, runs) /\ PartsAt(ms, b, X, n, ts)
  OBVIOUS
<1>1. PICK b \in Seq(Byte), x1 \in Nat, x2 \in Nat, x3 \in Nat, x4 \in Nat :
        /\ b = Bundle(ms, ts, runs)
        /\ x1 = 2 /\ x2 = x1 + Len(Part(ms, ts, runs, 1))
        /\ x3 = x2 + Len(Part(ms, ts, runs, 2))
        /\ x4 = x3 + Len(Part(ms, ts, runs, 3)) /\ x4 = Len(b) + 1
        /\ Placed(b, x1, Part(ms, ts, runs, 1))
        /\ Placed(b, x2, Part(ms, ts, runs, 2))
        /\ Placed(b, x3, Part(ms, ts, runs, 3))
  BY BundleParts, ZenonT(30)
<1>2. PICK lb \in Nat : lb = Len(b) /\ x4 = lb + 1
  BY <1>1, LenProperties
<1>3. PICK X \in [Nat -> Nat] : X[1] = x1 /\ X[2] = x2 /\ X[3] = x3 /\ X[4] = x4
  <2> DEFINE Y == [a \in Nat |-> IF a = 1 THEN x1 ELSE IF a = 2 THEN x2
                                 ELSE IF a = 3 THEN x3 ELSE x4]
  <2>1. Y \in [Nat -> Nat] /\ Y[1] = x1 /\ Y[2] = x2 /\ Y[3] = x3 /\ Y[4] = x4
    OBVIOUS
  <2> HIDE DEF Y
  <2> QED
    BY <2>1, Zenon
<1>4. 1 + 1 = 2 /\ 2 + 1 = 3 /\ 3 + 1 = 4
  OBVIOUS
<1>5. 1 \in 1..Len(ms) => PartAt(ms, b, x1, x2, 1, ts)
  <2> SUFFICES ASSUME 1 \in 1..Len(ms) PROVE PartAt(ms, b, x1, x2, 1, ts)
    OBVIOUS
  <2>1. Placed(b, x1, Part(ms, ts, runs, 1)) /\ x2 = x1 + Len(Part(ms, ts, runs, 1))
    BY <1>1
  <2> QED
    BY <2>1, PartTakes
<1>6. 2 \in 1..Len(ms) => PartAt(ms, b, x2, x3, 2, ts)
  <2> SUFFICES ASSUME 2 \in 1..Len(ms) PROVE PartAt(ms, b, x2, x3, 2, ts)
    OBVIOUS
  <2>1. Placed(b, x2, Part(ms, ts, runs, 2)) /\ x3 = x2 + Len(Part(ms, ts, runs, 2))
    BY <1>1
  <2> QED
    BY <2>1, PartTakes
<1>7. 3 \in 1..Len(ms) => PartAt(ms, b, x3, x4, 3, ts)
  <2> SUFFICES ASSUME 3 \in 1..Len(ms) PROVE PartAt(ms, b, x3, x4, 3, ts)
    OBVIOUS
  <2>1. Placed(b, x3, Part(ms, ts, runs, 3)) /\ x4 = x3 + Len(Part(ms, ts, runs, 3))
    BY <1>1
  <2> QED
    BY <2>1, PartTakes
<1>8. /\ 2 \notin 1..n => x3 = x2
      /\ 3 \notin 1..n => x4 = x3
  <2>1. /\ 2 \notin 1..n => 2 > n
        /\ 3 \notin 1..n => 3 > n
    OBVIOUS
  <2>2. /\ 2 \notin 1..n => Len(Part(ms, ts, runs, 2)) = 0
        /\ 3 \notin 1..n => Len(Part(ms, ts, runs, 3)) = 0
    <3>1. /\ 2 \notin 1..n => Part(ms, ts, runs, 2) = <<>>
          /\ 3 \notin 1..n => Part(ms, ts, runs, 3) = <<>>
      BY <1>0, <2>1, Zenon DEF Part
    <3> QED
      BY <3>1
  <2>3. x2 + 0 = x2 /\ x3 + 0 = x3
    OBVIOUS
  <2> QED
    BY <1>1, <2>2, <2>3, Zenon
<1>9. x1 = 2 /\ x2 >= x1 + 1
  <2>1. 1 \in 1..Len(ms)
    <3>1. 1 \in 1..n
      OBVIOUS
    <3> QED
      BY <1>0, <3>1, Zenon
  <2> QED
    BY <1>1, <1>5, <2>1, Zenon DEF PartAt
<1>10. (2 \in 1..n => x3 >= x2 + 1) /\ (3 \in 1..n => x4 >= x3 + 1)
  BY <1>0, <1>6, <1>7, Zenon DEF PartAt
<1>11. /\ x2 >= 2 /\ x3 >= 2 /\ x2 <= lb + 1 /\ x3 <= lb + 1 /\ x4 <= lb + 1
  <2>1. x3 = x2 \/ x3 >= x2 + 1
    BY <1>8, <1>10, Zenon
  <2>2. x4 = x3 \/ x4 >= x3 + 1
    BY <1>8, <1>10, Zenon
  <2>3. x4 = lb + 1
    BY <1>2, Zenon
  <2>4. x2 >= 3
    BY <1>9
  <2>5. x3 >= x2 /\ x4 >= x3
    BY <2>1, <2>2
  <2> QED
    BY <2>3, <2>4, <2>5
<1>12. X[n + 1] = lb + 1
  <2>1. CASE n = 1
    <3>1. 2 \notin 1..n /\ 3 \notin 1..n
      BY <2>1
    <3> QED
      BY <1>2, <1>3, <1>4, <1>8, <2>1, <3>1, Zenon
  <2>2. CASE n = 2
    <3>1. 3 \notin 1..n
      BY <2>2
    <3> QED
      BY <1>2, <1>3, <1>4, <1>8, <2>2, <3>1, Zenon
  <2>3. CASE n = 3
    <3>1. n + 1 = 4
      BY <2>3
    <3> QED
      BY <1>2, <1>3, <3>1, Zenon
  <2>4. n = 1 \/ n = 2 \/ n = 3
    OBVIOUS
  <2> QED
    BY <2>1, <2>2, <2>3, <2>4
<1>13. ASSUME NEW a \in 1..n
       PROVE  /\ PartAt(ms, b, X[a], X[a + 1], a, ts)
              /\ X[a] >= 2 /\ X[a + 1] <= lb + 1
  <2>1. a = 1 \/ a = 2 \/ a = 3
    <3>1. n \in Nat /\ n <= 3
      OBVIOUS
    <3>2. a \in Nat /\ a >= 1 /\ a <= n
      OBVIOUS
    <3> QED
      BY <3>1, <3>2
  <2>2. 2 >= 2
    OBVIOUS
  <2>3. CASE a = 1
    BY <1>0, <1>3, <1>4, <1>5, <1>9, <1>11, <2>2, <2>3, Zenon
  <2>4. CASE a = 2
    BY <1>0, <1>3, <1>4, <1>6, <1>11, <2>4, Zenon
  <2>5. CASE a = 3
    BY <1>0, <1>3, <1>4, <1>7, <1>11, <2>5, Zenon
  <2> QED
    BY <2>1, <2>3, <2>4, <2>5
<1>14. PartsAt(ms, b, X, n, ts)
  BY <1>2, <1>3, <1>9, <1>12, <1>13, Zenon DEF PartsAt
<1> QED
  BY <1>1, <1>14, Zenon

\* The only status that is elided before a SysEx at the end of a bundle is that
\* of its second message, behind a first one with the same.
LEMMA ElidedIsSecond ==
  ASSUME NEW ms \in Bundles, NEW n \in 1..3, n = Len(ms), IsSysex(ms[n]),
         NEW a \in 1..n, Repeats(ms, a)
  PROVE  a = 2 /\ ms[1][1] = ms[2][1] /\ ms[1][1] < SOX
<1>1. PICK j \in 1..a-1 : ms[j][1] = ms[a][1] /\ ms[a][1] < SOX
  BY Zenon DEF Repeats
<1>2. a # n
  <2>1. ms[n][1] = SOX
    BY Zenon DEF IsSysex
  <2>2. ~(SOX < SOX)
    BY DEF SOX
  <2> QED
    BY <1>1, <2>1, <2>2, Zenon
<1>3. a = 2 /\ j = 1
  BY <1>2
<1> QED
  BY <1>1, <1>3, Zenon

\* A bundle that ends with a SysEx clears the decoder.
LEMMA BundleClears ==
  ASSUME NEW ms \in Bundles, NEW ts \in 128..255, NEW runs \in BOOLEAN,
         IsSysex(ms[Len(ms)])
  PROVE  \E b \in Seq(Byte) : b = Bundle(ms, ts, runs) /\ Clears(b)
<1>1. PICK n \in 1..3 : n = Len(ms)
  BY FramingAssumption
<1>2. PICK b \in Seq(Byte), X \in [Nat -> Nat] :
        b = Bundle(ms, ts, runs) /\ PartsAt(ms, b, X, n, ts)
  BY <1>1, PartsTake
<1>3. ms \in Seq(Messages) /\ n \in Nat /\ n >= 1
  BY FramingAssumption
<1>4. PICK mm \in [Nat -> Messages] : \A a \in 1..n : mm[a] = ms[a]
  <2> DEFINE d == [a \in Nat |-> IF a \in 1..n THEN ms[a] ELSE ms[1]]
  <2>1. ASSUME NEW a \in 1..n PROVE ms[a] \in Messages
    BY <1>1, <1>3, ElementOfSeq
  <2>2. 1 \in 1..n
    OBVIOUS
  <2>3. d \in [Nat -> Messages]
    BY <2>1, <2>2, Zenon
  <2>4. \A a \in 1..n : a \in Nat
    OBVIOUS
  <2>5. \A a \in 1..n : d[a] = ms[a]
    BY <2>4, Zenon
  <2> HIDE DEF d
  <2> QED
    BY <2>3, <2>5, Zenon
<1>5. n \in 1..n /\ \A a \in 1..n : a \in Nat /\ a + 1 \in Nat
  OBVIOUS
<1>6. IsSysex(mm[n])
  BY <1>1, <1>4, <1>5, Zenon
<1>7. ASSUME NEW a \in 1..n
      PROVE  /\ X[a] >= 2 /\ X[a + 1] > X[a] /\ X[a + 1] <= Len(b) + 1
             /\ Takes(b, X[a], X[a + 1], mm[a], ts)
             /\ Elides(mm[a], X[a], X[a + 1])
                => a = 2 /\ mm[1][1] = mm[2][1] /\ mm[1][1] < SOX
  <2>1. PICK x \in Nat, y \in Nat : x = X[a] /\ y = X[a + 1]
    <3>1. X[a] \in Nat /\ X[a + 1] \in Nat
      BY <1>5, Zenon
    <3> QED
      BY <3>1, Zenon
  <2>2. PartAt(ms, b, x, y, a, ts) /\ x >= 2 /\ y <= Len(b) + 1
    BY <1>2, <2>1, Zenon DEF PartsAt
  <2>3. y >= x + 1 /\ Takes(b, x, y, mm[a], ts) /\ (Elides(mm[a], x, y) => Repeats(ms, a))
    BY <1>4, <2>2, Zenon DEF PartAt
  <2>4. y > x
    <3>1. y >= x + 1
      BY <2>3
    <3> QED
      BY <3>1
  <2>5. Elides(mm[a], x, y) => a = 2 /\ mm[1][1] = mm[2][1] /\ mm[1][1] < SOX
    <3> SUFFICES ASSUME Elides(mm[a], x, y)
                 PROVE  a = 2 /\ mm[1][1] = mm[2][1] /\ mm[1][1] < SOX
      OBVIOUS
    <3>1. Repeats(ms, a)
      BY <2>3
    <3>2. IsSysex(ms[n])
      BY <1>1, Zenon
    <3>3. a = 2 /\ ms[1][1] = ms[2][1] /\ ms[1][1] < SOX
      BY <1>1, <3>1, <3>2, ElidedIsSecond
    <3>4. 1 \in 1..n
      OBVIOUS
    <3>5. mm[1] = ms[1] /\ mm[2] = ms[2]
      BY <1>4, <3>3, <3>4, Zenon
    <3> QED
      BY <3>3, <3>5, Zenon
  <2> QED
    BY <2>1, <2>2, <2>3, <2>4, <2>5, Zenon
<1>8. X[1] = 2 /\ X[n + 1] = Len(b) + 1
  BY <1>2, Zenon DEF PartsAt
<1>9. Lay(b, X, mm, n, ts)
  BY <1>6, <1>7, <1>8, ZenonT(30) DEF Lay
<1>10. Clears(b)
  BY <1>3, <1>9, Zenon DEF Clears
<1> QED
  BY <1>2, <1>10, Zenon

\* Resync when the device sends a bundle.
LEMMA DeviceResyncs ==
  ASSUME IInv, NEW ms \in Bundles, NEW ts \in DeviceStamps, NEW runs \in BOOLEAN,
         DeviceSends(ms, ts, runs)
  PROVE  Resync'
<1>1. /\ enc = "idle" /\ enc' = enc /\ sent' = sent \o ms
      /\ Puts("device", Bundle(ms, ts, runs)) /\ UNCHANGED decVars
  BY DEF DeviceSends, Sends, encVars
<1>2. Asked' => IsSysex(ms[Len(ms)])
  <2>1. sent \in Seq(Messages) /\ ms \in Seq(Messages)
    BY FramingAssumption, Types
  <2>2. PICK n \in 1..3 : n = Len(ms)
    BY FramingAssumption
  <2>3. /\ sent' \in Seq(Messages) /\ Len(sent') = Len(sent) + Len(ms)
        /\ \A a \in 1..Len(ms) : sent'[Len(sent) + a] = ms[a]
    BY <1>1, <2>1, ExtendsConcat, Zenon
  <2>4. n \in 1..n
    OBVIOUS
  <2>5. sent'[Len(sent')] = ms[Len(ms)]
    BY <2>2, <2>3, <2>4, Zenon
  <2> QED
    BY <2>5, Zenon DEF Asked
<1>3. SUFFICES ASSUME IsSysex(ms[Len(ms)]) PROVE Resync'
  BY <1>2, Zenon DEF Resync
<1>4. ts \in 128..255
  BY FramingAssumption
<1>5. PICK b \in Seq(Byte) : b = Bundle(ms, ts, runs) /\ Clears(b)
  BY <1>3, <1>4, BundleClears
<1>6. Puts("device", b)
  BY <1>1, <1>5
<1>7. 2 \in 0..2 /\ 2 # 1
  OBVIOUS
<1>8. Leads(0, b, 2)
  BY <1>5, <1>7, Zenon DEF Leads
<1>9. 2 = EncIs'
  BY <1>1, Zenon DEF EncIs
<1> QED
  BY <1>1, <1>6, <1>7, <1>8, <1>9, PutFresh, Zenon

-----------------------------------------------------------------------------
(* The theorem on resynchronisation. *)

\* Nothing is collected while no SysEx is open.
Empty == ~inSysex => sysex = <<>>

\* Every step keeps Empty.
LEMMA EmptyStep ==
  ASSUME IInv, Empty, [Next]_vars
  PROVE  Empty'
<1>1. ASSUME UNCHANGED decoder PROVE Empty'
  BY <1>1, Zenon DEF decoder, Empty
<1>2. ASSUME UNCHANGED decVars PROVE Empty'
  <2>1. UNCHANGED decoder
    BY <1>2, Zenon DEF decVars
  <2> QED
    BY <1>1, <2>1
<1>3. CASE Frame
  <2>1. UNCHANGED decVars
    BY <1>3, Zenon DEF Frame, FrameWhole, FrameFirst, FrameMiddle, FrameLast, Sends, Chunks
  <2> QED
    BY <1>2, <2>1
<1>4. CASE Link
  <2>1. UNCHANGED decVars
    BY <1>4, Zenon DEF Link, DeviceSends, Sends, Lose, Alien, Disturbs
  <2> QED
    BY <1>2, <2>1
<1>5. CASE Receive \/ SysexSkips \/ SysexPauses \/ LoopStops
  <2>1. UNCHANGED decoder
    BY <1>5, Zenon DEF Receive, SysexSkips, SysexPauses, LoopStops
  <2> QED
    BY <1>1, <2>1
<1>6. CASE SysexEnds
  BY <1>6, Zenon DEF SysexEnds, Empty
<1>7. CASE SysexData
  <2>1. inSysex
    BY <1>7, Zenon DEF SysexData, Decodes, IInv, OpenSysex
  <2>2. inSysex' <=> inSysex
    BY <1>7, Zenon DEF SysexData
  <2> QED
    BY <2>1, <2>2, Zenon DEF Empty
<1>8. CASE LoopOpensSysex
  BY <1>8, Zenon DEF LoopOpensSysex, Empty
<1>9. CASE LoopMessage
  BY <1>9, Zenon DEF LoopMessage, Empty
<1>10. CASE UNCHANGED vars
  <2>1. UNCHANGED decVars
    BY <1>10, Zenon DEF vars
  <2> QED
    BY <1>2, <2>1
<1> QED
  BY <1>3, <1>4, <1>5, <1>6, <1>7, <1>8, <1>9, <1>10, Zenon DEF Next, Decode

\* Every step keeps Resync.
LEMMA ResyncStep ==
  ASSUME IInv, Resync, [Next]_vars
  PROVE  Resync'
<1>1. CASE Frame
  BY <1>1, WholeResyncs, FirstResyncs, MiddleResyncs, LastResyncs DEF Frame
<1>2. CASE Link
  <2>1. ASSUME NEW ms \in Bundles, NEW ts \in DeviceStamps, NEW runs \in BOOLEAN,
               DeviceSends(ms, ts, runs)
        PROVE  Resync'
    BY <2>1, DeviceResyncs
  <2>2. ASSUME Lose \/ \E q \in Noise : Alien(q)
        PROVE  Resync'
    BY <2>2, DisturbsResyncs, Zenon DEF Lose, Alien
  <2> QED
    BY <1>2, <2>1, <2>2, Zenon DEF Link
<1>3. CASE Decode
  BY <1>3, ReceiveResyncs, InPacketResyncs, Zenon DEF Decode
<1>4. CASE UNCHANGED vars
  <2>1. /\ wire' = wire /\ sent' = sent /\ enc' = enc /\ (quiet' <=> quiet)
        /\ UNCHANGED decVars
    BY <1>4, Zenon DEF vars, encVars, history
  <2>2. Asked' <=> Asked
    BY <2>1, Zenon DEF Asked
  <2>3. SUFFICES ASSUME Asked PROVE Resync'
    BY <2>2, Zenon DEF Resync
  <2>4. PICK lv \in [Nat -> 0..2] :
          DecIs(lv[0]) /\ Trail(wire, lv) /\ lv[Len(wire)] = EncIs
    BY <2>3, Zenon DEF Resync
  <2>5. PICK l \in 0..2 : l = lv[0]
    <3>1. lv[0] \in 0..2
      OBVIOUS
    <3> QED
      BY <3>1, Zenon
  <2>6. DecIs(l)
    BY <2>4, <2>5, Zenon
  <2>7. DecIs(l)'
    BY <2>1, <2>6, DecIsStays
  <2>8. DecIs(lv[0])'
    BY <2>5, <2>7, Zenon
  <2> QED
    BY <2>1, <2>4, <2>8, Zenon DEF Resync, EncIs
<1> QED
  BY <1>1, <1>2, <1>3, <1>4 DEF Next

\* Resync is strong enough: SysexResyncs follows.
LEMMA ResyncIsEnough == Empty /\ Resync => SysexResyncs
<1> SUFFICES ASSUME Empty, Resync, AllDecoded, Asked
             PROVE  ~inSysex /\ sysex = <<>> /\ running = 0
  BY Zenon DEF SysexResyncs, Asked
<1>1. PICK lv \in [Nat -> 0..2] : DecIs(lv[0]) /\ lv[Len(wire)] = EncIs
  BY Zenon DEF Resync
<1>2. enc = "idle" /\ dec = "idle" /\ Len(wire) = 0
  BY EmptySeq DEF AllDecoded
<1>3. lv[0] = 2
  BY <1>1, <1>2, Zenon DEF EncIs
<1>4. Cleared
  BY <1>1, <1>3, Zenon DEF DecIs
<1>5. ~Finishing /\ ~Clearing
  BY <1>2, Zenon DEF Finishing, Clearing
<1> QED
  BY <1>4, <1>5, Zenon DEF Cleared, Empty

\* Wherever in a SysEx the decoder was left, with whatever status running, it
\* is in its initial state when all is decoded and the last message framed was
\* a SysEx with no packet lost or alien since: in one packet, in chunks, or at
\* the end of a device's bundle, whatever the timestamps.
THEOREM SysexBringsBack == Spec => []SysexResyncs
<1>1. Init => IInv /\ Empty /\ Resync
  <2>1. Init => Empty
    BY Zenon DEF Init, Empty
  <2>2. Init => Resync
    BY Zenon DEF Init, Resync, Asked
  <2> QED
    BY <2>1, <2>2, InitEstablishes
<1>2. IInv /\ Empty /\ Resync /\ [Next]_vars => (IInv /\ Empty /\ Resync)'
  BY StepPreserves, EmptyStep, ResyncStep
<1>3. IInv /\ Empty /\ Resync => SysexResyncs
  BY ResyncIsEnough
<1> QED
  BY <1>1, <1>2, <1>3, PTL DEF Spec

=============================================================================
