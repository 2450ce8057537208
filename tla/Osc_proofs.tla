----------------------------- MODULE Osc_proofs -----------------------------
(***************************************************************************)
(* Proofs about the OSC transport.                                         *)
(*                                                                         *)
(* OscTransport, for any number of endpoints, sockets, callers and         *)
(* listeners: sockets are owned by exactly one party, and the channel of   *)
(* Listen takes no event after its close.                                  *)
(*                                                                         *)
(* OscCodec, for every packet: the decoder stays within it.                *)
(*                                                                         *)
(* OscPackets, for all messages and all bundles of bundles that fit into a *)
(* datagram: what is sent comes back, and a cut only loses.  One follows   *)
(* the encoder from the inside out: a reader applied to the start of an    *)
(* encoded value brings the value back and leaves the start of what was    *)
(* written behind it, or fails if bytes are missing (ReadsBack); so does   *)
(* a turn of the loop over the tags (ArgumentBack), the loop (LoopBack), a *)
(* message (MessageBack) and a bundle (BundleBack).                        *)
(***************************************************************************)
EXTENDS OscTransport, OscPackets, SequenceTheorems, WellFoundedInduction, TLAPS

\* The reader offers only messages it has.
OffersWhatItHas == \A l \in Listeners : reader[l] = "offering" => batch[l] >= 1

IInv == /\ TypeOK
        /\ OneOwner
        /\ OffersWhatItHas

-----------------------------------------------------------------------------
(* The steps of the callers. *)

\* Types are kept by a caller.
LEMMA CallerTypes == ASSUME TypeOK, NEW c \in Callers, Caller(c)
                     PROVE  TypeOK'
<1> USE OscAssumption DEF TypeOK, listenVars
<1>1. CASE \E e \in Endpoints : Dial(c, e)
  BY <1>1 DEF Dial, Begins
<1>2. CASE \E e \in Endpoints : Forget(c, e)
  BY <1>2 DEF Forget, Begins
<1>3. CASE \E e \in Endpoints : SendBegin(c, e)
  BY <1>3 DEF SendBegin, Begins
<1>4. CASE Install(c)
  BY <1>4 DEF Install, Returns, Closed
<1>5. CASE CloseForgotten(c)
  BY <1>5 DEF CloseForgotten, Returns, Closed
<1>6. CASE SendWrite(c)
  BY <1>6, ZenonT(60) DEF SendWrite, Returns, WriteSucceeds, WriteFails
<1> QED
  BY <1>1, <1>2, <1>3, <1>4, <1>5, <1>6 DEF Caller

\* A socket never has an owner too many or too few, whatever call steps.
LEMMA CallerOwners == ASSUME TypeOK, OneOwner, NEW c \in Callers, Caller(c)
                      PROVE  OneOwner'
<1> USE OscAssumption DEF TypeOK
<1>1. ASSUME NEW e \in Endpoints, Dial(c, e)
      PROVE  OneOwner'
  <2>1. PICK k \in Sockets : /\ sock[k] = "unused"
                             /\ Begins(c, "connect", e, k)
                             /\ sock' = [sock EXCEPT ![k] = "open"]
                             /\ UNCHANGED conns
    BY <1>1 DEF Dial
  <2>2. Owners(k) = {}
    BY <2>1 DEF OneOwner, RightlyOwned
  <2>3. Owners(k)' = {c}
    BY <2>1, <2>2 DEF Owners, Begins
  <2>4. \A j \in Sockets \ {k} : Owners(j)' = Owners(j)
    BY <2>1 DEF Owners, Begins
  <2> QED
    BY <2>1, <2>3, <2>4 DEF OneOwner, RightlyOwned
<1>2. ASSUME NEW e \in Endpoints, Forget(c, e)
      PROVE  OneOwner'
  <2>1. PICK k \in Sockets : /\ k = conns[e]
                             /\ Begins(c, "disconnect", e, k)
                             /\ conns' = [conns EXCEPT ![e] = NoSocket]
                             /\ UNCHANGED sock
    BY <1>2 DEF Forget
  <2>2. e \in Owners(k)
    BY <2>1 DEF Owners
  <2>3. sock[k] = "open" /\ Owners(k) = {e}
    BY <2>1, <2>2 DEF OneOwner, RightlyOwned
  <2>4. Owners(k)' = {c}
    BY <2>1, <2>3 DEF Begins, Owners
  <2>5. \A j \in Sockets \ {k} : Owners(j)' = Owners(j)
    BY <2>1 DEF Begins, Owners
  <2>6. RightlyOwned(k)'
    BY <2>1, <2>3, <2>4 DEF RightlyOwned
  <2>7. \A j \in Sockets \ {k} : RightlyOwned(j)'
    BY <2>1, <2>5 DEF OneOwner, RightlyOwned
  <2> QED
    BY <2>6, <2>7 DEF OneOwner
<1>3. ASSUME NEW e \in Endpoints, SendBegin(c, e)
      PROVE  OneOwner'
  <2>1. \A k \in Sockets : Owners(k)' = Owners(k)
    BY <1>3 DEF SendBegin, Begins, Owners
  <2> QED
    BY <1>3, <2>1 DEF SendBegin, OneOwner, RightlyOwned
<1>4. CASE Install(c)
  <2>1. PICK e \in Endpoints, old, new \in Sockets \union {NoSocket} :
          /\ e = ep[c] /\ old = conns[e] /\ new = arg[c]
          /\ sock' = Closed(old)
          /\ conns' = [conns EXCEPT ![e] = new]
          /\ call' = [call EXCEPT ![c] = "idle"]
          /\ arg' = [arg EXCEPT ![c] = NoSocket]
    BY <1>4 DEF Install, Returns
  <2>2. new \in Sockets => sock[new] = "open" /\ Owners(new) = {c}
    <3>1. c \in Owners(new)
      BY <1>4, <2>1 DEF Install, Owners
    <3> QED
      BY <3>1 DEF OneOwner, RightlyOwned
  <2>3. old \in Sockets => Owners(old) = {e}
    <3>1. e \in Owners(old)
      BY <2>1 DEF Owners
    <3> QED
      BY <3>1 DEF OneOwner, RightlyOwned
  <2>4. new \in Sockets => new # old
    <3>1. e # c
      BY <2>1
    <3>2. {e} # {c}
      BY <3>1
    <3> QED
      BY <2>2, <2>3, <3>2
  <2>5. new \in Sockets => Owners(new)' = {e}
    BY <2>1, <2>2, <2>4 DEF Owners
  <2>6. old \in Sockets => Owners(old)' = {}
    BY <2>1, <2>3, <2>4 DEF Owners
  <2>7. \A k \in Sockets \ {old, new} : Owners(k)' = Owners(k)
    BY <2>1 DEF Owners
  <2>8. \A k \in Sockets : sock'[k] = IF k = old THEN "closed" ELSE sock[k]
    BY <2>1 DEF Closed
  <2> QED
    BY <2>2, <2>4, <2>5, <2>6, <2>7, <2>8 DEF OneOwner, RightlyOwned
<1>5. CASE CloseForgotten(c)
  <2>1. PICK old \in Sockets \union {NoSocket} :
          /\ old = arg[c]
          /\ sock' = Closed(old)
          /\ UNCHANGED conns
          /\ call' = [call EXCEPT ![c] = "idle"]
          /\ arg' = [arg EXCEPT ![c] = NoSocket]
    BY <1>5 DEF CloseForgotten, Returns
  <2>2. old \in Sockets => Owners(old) = {c}
    <3>1. c \in Owners(old)
      BY <1>5, <2>1 DEF CloseForgotten, Owners
    <3> QED
      BY <3>1 DEF OneOwner, RightlyOwned
  <2>3. old \in Sockets => Owners(old)' = {}
    BY <2>1, <2>2 DEF Owners
  <2>4. \A k \in Sockets \ {old} : Owners(k)' = Owners(k)
    BY <2>1 DEF Owners
  <2>5. \A k \in Sockets : sock'[k] = IF k = old THEN "closed" ELSE sock[k]
    BY <2>1 DEF Closed
  <2> QED
    BY <2>3, <2>4, <2>5 DEF OneOwner, RightlyOwned
<1>6. CASE SendWrite(c)
  <2>1. \A k \in Sockets : Owners(k)' = Owners(k)
    BY <1>6 DEF SendWrite, Returns, Owners
  <2> QED
    BY <1>6, <2>1 DEF SendWrite, OneOwner, RightlyOwned
<1> QED
  BY <1>1, <1>2, <1>3, <1>4, <1>5, <1>6 DEF Caller

\* The callers do not touch a listener.
LEMMA CallerStep == ASSUME IInv, NEW c \in Callers, Caller(c)
                    PROVE  IInv'
<1>1. UNCHANGED listenVars
  BY DEF Caller, Dial, Forget, SendBegin, Install, CloseForgotten, SendWrite
<1> QED
  BY <1>1, CallerTypes, CallerOwners DEF IInv, OffersWhatItHas, listenVars

-----------------------------------------------------------------------------
(* The steps of a listener. *)

\* The goroutines of Listen own no socket and close none.
LEMMA ListenerStep == ASSUME IInv, NEW l \in Listeners, Listener(l)
                      PROVE  IInv'
<1> USE OscAssumption DEF IInv, TypeOK, OffersWhatItHas
<1>1. UNCHANGED <<conns, sock, call, ep, arg>>
  BY DEF Listener, Listen, Reader, ReaderAt, ReaderStops, ReaderReads,
         ReadTimesOut, ReadFails, ReadPacket, Offer, OfferCancelled,
         Renewer, RenewerAt, Renew, RenewFails, Tick, RenewerStops,
         Take, Cancel, callVars
<1>2. OneOwner'
  BY <1>1 DEF OneOwner, RightlyOwned, Owners
<1>3. CASE \E e \in Endpoints : Listen(l, e)
  BY <1>1, <1>2, <1>3 DEF Listen
<1>4. CASE Reader(l)
  <2>1. CASE ReaderStops(l) \/ ReaderReads(l)
    BY <1>1, <1>2, <2>1 DEF ReaderStops, ReaderReads, ReaderAt
  <2>2. CASE ReadTimesOut(l) \/ ReadFails(l)
    BY <1>1, <1>2, <2>2, ZenonT(60) DEF ReadTimesOut, ReadFails, ReaderAt
  <2>3. CASE ReadPacket(l)
    BY <1>1, <1>2, <2>3, BatchAssumption DEF ReadPacket, ReaderAt
  <2>4. CASE Offer(l)
    BY <1>1, <1>2, <2>4 DEF Offer, ReaderAt
  <2>5. CASE OfferCancelled(l)
    BY <1>1, <1>2, <2>5 DEF OfferCancelled, ReaderAt
  <2> QED
    BY <1>4, <2>1, <2>2, <2>3, <2>4, <2>5 DEF Reader
<1>5. CASE Renewer(l)
  <2>1. CASE Renew(l) \/ RenewFails(l)
    <3>1. refused' \in [Sockets -> BOOLEAN]
      BY <2>1 DEF Renew, RenewFails, WriteSucceeds, WriteFails
    <3>2. /\ renewer' \in [Listeners -> {"none", "writing", "waiting",
                                          "stopped"}]
          /\ UNCHANGED <<lsock, reader, batch, out, ctxDone>>
      BY <2>1 DEF Renew, RenewFails, RenewerAt
    <3> QED
      BY <1>1, <1>2, <3>1, <3>2
  <2>2. CASE Tick(l) \/ RenewerStops(l)
    BY <1>1, <1>2, <2>2 DEF Tick, RenewerStops, RenewerAt
  <2> QED
    BY <1>5, <2>1, <2>2 DEF Renewer
<1>6. CASE Take(l)
  BY <1>1, <1>2, <1>6 DEF Take
<1>7. CASE Cancel(l)
  BY <1>1, <1>2, <1>7 DEF Cancel
<1> QED
  BY <1>3, <1>4, <1>5, <1>6, <1>7 DEF Listener

-----------------------------------------------------------------------------
(* The theorems. *)

\* The inductive invariant.
THEOREM Invariance == Spec => []IInv
<1>1. Init => IInv
  BY OscAssumption
     DEF Init, IInv, TypeOK, OneOwner, RightlyOwned, Owners, OffersWhatItHas
<1>2. IInv /\ [Next]_vars => IInv'
  <2>1. ASSUME IInv, UNCHANGED vars
        PROVE  IInv'
    BY <2>1 DEF vars, callVars, listenVars, IInv, TypeOK, OneOwner, RightlyOwned, Owners,
                OffersWhatItHas
  <2> QED
    BY <2>1, CallerStep, ListenerStep DEF Next
<1> QED
  BY <1>1, <1>2, PTL DEF Spec

\* The variables of the backend and of its sockets keep their types; the
\* channel of a Listen never holds more than its capacity.
THEOREM TypeCorrect == Spec => []TypeOK
<1>1. IInv => TypeOK
  BY DEF IInv
<1> QED
  BY <1>1, Invariance, PTL

\* osc.go Connect / Disconnect: whatever calls overlap, an open socket has
\* exactly one party that will close it, and t.conns holds open sockets only.
THEOREM SocketsHaveOneOwner == Spec => []OneOwner
<1>1. IInv => OneOwner
  BY DEF IInv
<1> QED
  BY <1>1, Invariance, PTL

-----------------------------------------------------------------------------
(* Refinement of Listening (its safety part).                              *)

\* A step that leaves the reader's phase and the channel alone is a stutter.
LEMMA ChannelStutter ==
  ASSUME UNCHANGED <<out, ctxDone>>,
         \A l \in Listeners :
           \/ reader'[l] = reader[l]
           \/ /\ reader[l] \notin {"none", "closed"}
              /\ reader'[l] \notin {"none", "closed"}
  PROVE  UNCHANGED Channel!vars
  BY DEF Channel!vars

\* A step of a Listen is a step of its channel or a stutter.
LEMMA ListenerRefines == ASSUME IInv, NEW l \in Listeners, Listener(l)
                         PROVE  [Channel!Next]_(Channel!vars)
<1> USE DEF IInv, TypeOK
<1>1. CASE \E e \in Endpoints : Listen(l, e)
  <2>1. Channel!Listen(l)
    BY <1>1 DEF Listen, Channel!Listen
  <2> QED
    BY <2>1 DEF Channel!Next
<1>2. CASE ReaderStops(l) \/ ReadFails(l) \/ OfferCancelled(l)
  <2>1. Channel!Close(l)
    BY <1>2 DEF ReaderStops, ReadFails, OfferCancelled, ReaderAt,
                Channel!Close
  <2> QED
    BY <2>1 DEF Channel!Next
<1>3. CASE ReaderReads(l) \/ ReadTimesOut(l) \/ ReadPacket(l)
  BY <1>3, ChannelStutter DEF ReaderReads, ReadTimesOut, ReadPacket, ReaderAt
<1>4. CASE Offer(l)
  <2>1. Channel!Emit(l)
    BY <1>4 DEF Offer, ReaderAt, Channel!Emit
  <2> QED
    BY <2>1 DEF Channel!Next
<1>5. CASE Renewer(l)
  BY <1>5, ChannelStutter
     DEF Renewer, Renew, RenewFails, Tick, RenewerStops, RenewerAt
<1>6. CASE Take(l)
  <2>1. Channel!Take(l)
    BY <1>6 DEF Take, Channel!Take
  <2> QED
    BY <2>1 DEF Channel!Next
<1>7. CASE Cancel(l)
  <2>1. Channel!Cancel(l)
    BY <1>7 DEF Cancel, Channel!Cancel
  <2> QED
    BY <2>1 DEF Channel!Next
<1> QED
  BY <1>1, <1>2, <1>3, <1>4, <1>5, <1>6, <1>7 DEF Listener, Reader

\* osc.go Listen: the channel takes no event after its close, is closed at
\* most once and never holds more than its buffer.
THEOREM ListenRefinement == Spec => Channel!SafeSpec
<1>1. Init => Channel!Init
  BY DEF Init, Channel!Init
<1>2. IInv /\ [Next]_vars => [Channel!Next]_(Channel!vars)
  <2>1. ASSUME UNCHANGED listenVars
        PROVE  UNCHANGED Channel!vars
    BY <2>1, ChannelStutter DEF listenVars
  <2>2. ASSUME NEW c \in Callers, Caller(c)
        PROVE  UNCHANGED listenVars
    BY <2>2 DEF Caller, Dial, Forget, SendBegin, Install, CloseForgotten,
                SendWrite
  <2>3. UNCHANGED vars => UNCHANGED listenVars
    BY DEF vars
  <2> QED
    BY <2>1, <2>2, <2>3, ListenerRefines DEF Next
<1> QED
  BY <1>1, <1>2, Invariance, PTL DEF Spec, Channel!SafeSpec

-----------------------------------------------------------------------------
(* The decoder and the end of its packet. *)

\* A slice beyond the end is told from a packet.
LEMMA BeyondIsNoPacket == Beyond \notin Seq(Byte)
<1> SUFFICES ASSUME Beyond \in Seq(Byte) PROVE FALSE OBVIOUS
<1>1. 1 \in 1..Len(Beyond) BY DEF Beyond
<1>2. Beyond[1] \in Byte BY <1>1, ElementOfSeq
<1> QED BY <1>2 DEF Beyond, Byte

\* Slices within a packet are packets.
LEMMA SliceWithin ==
  ASSUME NEW b \in Seq(Byte), NEW n \in Nat, n <= Len(b)
  PROVE  /\ From(b, n) \in Seq(Byte)
         /\ Len(From(b, n)) = Len(b) - n
         /\ Upto(b, n) \in Seq(Byte)
<1>1. Len(b) \in Nat BY LenProperties
<1>2. \A i \in (n + 1)..Len(b) : b[i] \in Byte BY <1>1, ElementOfSeq
<1>3. \A i \in 1..n : b[i] \in Byte BY <1>1, ElementOfSeq
<1>4. SubSeq(b, n + 1, Len(b)) \in Seq(Byte) BY <1>1
<1>5. Len(SubSeq(b, n + 1, Len(b))) = Len(b) - n BY <1>1
<1>6. SubSeq(b, 1, n) \in Seq(Byte) BY <1>1
<1> QED BY <1>1, <1>4, <1>5, <1>6 DEF From, Upto

\* Skipping padding, but at most to the end, stays within the packet.
LEMMA PaddedWithin ==
  ASSUME NEW n \in Nat, NEW len \in Nat
  PROVE  /\ AtMost(pad4(n), len) \in Nat
         /\ AtMost(pad4(n), len) <= len
<1>1. pad4(n) \in Nat BY DEF pad4
<1> QED BY <1>1 DEF AtMost

\* A size that passes the guard fits into what follows it.
LEMMA SizeFits ==
  ASSUME NEW b \in Seq(Byte), Len(b) >= 4, ~Misfit(b)
  PROVE  AsInt32(b) \in Nat /\ AsInt32(b) <= Len(b) - 4
<1>1. Len(b) \in Nat BY LenProperties
<1>2. b[1] \in Byte /\ b[2] \in Byte /\ b[3] \in Byte /\ b[4] \in Byte
  BY <1>1, ElementOfSeq
<1>3. PICK w \in 0..255, x \in 0..255, y \in 0..255, z \in 0..255 :
        w = b[1] /\ x = b[2] /\ y = b[3] /\ z = b[4]
  BY <1>2 DEF Byte
<1>4. w < 128 BY <1>3, SMT DEF Misfit
<1>5. AsInt32(b) = w * 16777216 + x * 65536 + y * 256 + z
  BY <1>3, <1>4, SMT DEF AsInt32
<1>6. AsInt32(b) \in Nat BY <1>4, <1>5, SMT
<1>7. ~(AsInt32(b) > Len(b) - 4) BY SMT DEF Misfit
<1> QED BY <1>1, <1>6, <1>7, SMT

\* A set of numbers has a least one: the first null.
LEMMA LeastOfNats ==
  ASSUME NEW S, S \subseteq Nat, S # {}
  PROVE  \E k \in S : \A j \in S : k <= j
<1>1. IsWellFoundedOn(OpToRel(<, Nat), Nat) BY NatLessThanWellFounded
<1>2. \A x, y \in Nat : x < y => <<x, y>> \in OpToRel(<, Nat) BY DEF OpToRel
<1>3. PICK k \in S : \A j \in S : <<j, k>> \notin OpToRel(<, Nat)
  BY <1>1, WFMin
<1>4. \A j \in S : ~(j < k) BY <1>2, <1>3
<1>5. \A j \in S : k <= j BY <1>4
<1> QED BY <1>5

\* What a reader leaves of a packet is a packet.
LeavesPacket(r) == r.ok => r.rest \in Seq(Byte) /\ r.rest # Beyond

\* What the readers of strings, blobs and words leave is within the packet.
LEMMA StringWithin ==
  ASSUME NEW b \in Seq(Byte)
  PROVE  /\ LeavesPacket(readString(b))
         /\ readString(b).ok => /\ readString(b).val \in Seq(Byte)
                                /\ readString(b).val # Beyond
<1> DEFINE nulls == {k \in DOMAIN b : b[k] = 0}
           null == CHOOSE k \in nulls : \A j \in nulls : k <= j
<1>1. Len(b) \in Nat /\ DOMAIN b = 1..Len(b) BY LenProperties
<1>2. CASE nulls = {}
  BY <1>2 DEF readString, LeavesPacket, Unreadable
<1>3. CASE nulls # {}
  <2>1. \E k \in nulls : \A j \in nulls : k <= j
    <3>1. nulls \subseteq Nat BY <1>1
    <3> HIDE DEF nulls
    <3> QED BY <1>3, <3>1, LeastOfNats
  <2>2. null \in nulls BY <2>1
  <2>3. null \in 1..Len(b) BY <1>1, <2>2
  <2>4. PICK skip \in Nat : skip = AtMost(pad4(null), Len(b)) /\ skip <= Len(b)
    <3>1. null \in Nat BY <1>1, <2>3
    <3> HIDE DEF null
    <3> QED BY <1>1, <3>1, PaddedWithin
  <2>5. readString(b) = Reads(Upto(b, null - 1), From(b, skip))
    BY <1>3, <2>4 DEF readString
  <2>6. From(b, skip) \in Seq(Byte) BY <2>4, SliceWithin
  <2>7. Upto(b, null - 1) \in Seq(Byte) BY <1>1, <2>3, SliceWithin
  <2> QED BY <2>5, <2>6, <2>7, BeyondIsNoPacket DEF LeavesPacket, Reads
<1> QED BY <1>2, <1>3

LEMMA BlobWithin ==
  ASSUME NEW b \in Seq(Byte)
  PROVE  /\ LeavesPacket(readBlob(b))
         /\ readBlob(b).ok => readBlob(b).val # Beyond
<1>1. CASE Len(b) < 4 \/ Misfit(b)
  BY <1>1 DEF readBlob, LeavesPacket, Unreadable
<1>2. CASE ~(Len(b) < 4 \/ Misfit(b))
  <2>1. Len(b) \in Nat BY LenProperties
  <2>2. PICK n \in Nat : n = AsInt32(b) /\ n <= Len(b) - 4
    BY <1>2, <2>1, SizeFits
  <2>3. PICK d \in Seq(Byte) : d = From(b, 4) /\ Len(d) = Len(b) - 4
    BY <1>2, <2>1, SliceWithin
  <2>4. PICK skip \in Nat : skip = AtMost(pad4(n), Len(d)) /\ skip <= Len(d)
    BY <2>1, <2>3, PaddedWithin, LenProperties
  <2>5. readBlob(b) = Reads(Upto(d, n), From(d, skip))
    BY <1>2, <2>2, <2>3, <2>4 DEF readBlob
  <2>6. From(d, skip) \in Seq(Byte) BY <2>4, SliceWithin
  <2>7. Upto(d, n) \in Seq(Byte) BY <2>2, <2>3, SliceWithin
  <2> QED BY <2>5, <2>6, <2>7, BeyondIsNoPacket DEF LeavesPacket, Reads
<1> QED BY <1>1, <1>2

LEMMA WordsWithin ==
  ASSUME NEW b \in Seq(Byte)
  PROVE  LeavesPacket(readInt32(b)) /\ LeavesPacket(readFloat32(b))
<1>1. CASE Len(b) < 4
  BY <1>1 DEF readInt32, readFloat32, LeavesPacket, Unreadable
<1>2. CASE ~(Len(b) < 4)
  <2>1. Len(b) \in Nat BY LenProperties
  <2>2. From(b, 4) \in Seq(Byte) BY <1>2, <2>1, SliceWithin
  <2> QED BY <1>2, <2>2, BeyondIsNoPacket
          DEF readInt32, readFloat32, LeavesPacket, Reads
<1> QED BY <1>1, <1>2

\* A turn of the loop over the type tags that has not panicked, and what is
\* left of the packet.
Sound(m) == /\ DOMAIN m = {"st", "args", "rest"}
            /\ m.st # "panic"
            /\ m.rest \in Seq(Byte)

\* What Argument makes of one reader's answer.
Taken(m, type, r) ==
  IF ~r.ok THEN [m EXCEPT !.st = "error"]
  ELSE [st   |-> IF \/ r.rest = Beyond
                    \/ type \in {"string", "blob"} /\ r.val = Beyond
                 THEN "panic" ELSE "ok",
        args |-> Append(m.args, <<type, r.val>>),
        rest |-> r.rest]

LEMMA TakeSound ==
  ASSUME NEW m, Sound(m), NEW type, NEW r, LeavesPacket(r),
         type \in {"string", "blob"} /\ r.ok => r.val # Beyond
  PROVE  Sound(Taken(m, type, r))
<1>1. CASE ~r.ok BY <1>1 DEF Taken, Sound
<1>2. CASE r.ok
  <2>1. Taken(m, type, r) = [st |-> "ok",
                             args |-> Append(m.args, <<type, r.val>>),
                             rest |-> r.rest]
    BY <1>2 DEF Taken, LeavesPacket
  <2> QED BY <1>2, <2>1 DEF Sound, LeavesPacket
<1> QED BY <1>1, <1>2

\* decodeMessage: no turn of its loop slices beyond the end of what is left of
\* the packet, whatever the tag and the bytes.
THEOREM ArgumentNeverBeyond ==
  ASSUME NEW m, Sound(m), NEW tag
  PROVE  Sound(Argument(m, tag))
<1>1. CASE m.st # "ok" BY <1>1 DEF Argument
<1>2. CASE m.st = "ok"
  <2>1. PICK b \in Seq(Byte) : b = m.rest BY DEF Sound
  <2>2. b # Beyond BY <2>1, BeyondIsNoPacket
  <2>3. /\ Argument(m, 105) = Taken(m, "int32", readInt32(b))
        /\ Argument(m, 102) = Taken(m, "float32", readFloat32(b))
        /\ Argument(m, 115) = Taken(m, "string", readString(b))
        /\ Argument(m, 98) = Taken(m, "blob", readBlob(b))
        /\ Argument(m, 84) = Taken(m, "bool", Reads(TRUE, b))
        /\ Argument(m, 70) = Taken(m, "bool", Reads(FALSE, b))
        /\ Argument(m, 78) = Taken(m, "nil", Reads(<<>>, b))
        /\ Argument(m, 73) = Taken(m, "float32", Reads(PlusInf, b))
    BY <1>2, <2>1 DEF Argument, Taken
  <2>4. tag \notin {105, 102, 115, 98, 84, 70, 78, 73}
          => Argument(m, tag) = [m EXCEPT !.st = "done"]
    BY <1>2 DEF Argument
  <2>5. \A v : LeavesPacket(Reads(v, b))
    BY <2>2 DEF LeavesPacket, Reads
  <2>6. CASE tag \in {105, 102}
    BY <2>3, <2>6, WordsWithin, TakeSound
  <2>7. CASE tag \in {115, 98}
    BY <2>3, <2>7, StringWithin, BlobWithin, TakeSound
  <2>8. CASE tag \in {84, 70, 78, 73}
    <3>1. /\ Sound(Taken(m, "bool", Reads(TRUE, b)))
          /\ Sound(Taken(m, "bool", Reads(FALSE, b)))
          /\ Sound(Taken(m, "nil", Reads(<<>>, b)))
          /\ Sound(Taken(m, "float32", Reads(PlusInf, b)))
      BY <2>5, TakeSound
    <3> QED BY <2>3, <2>8, <3>1
  <2>9. CASE tag \notin {105, 102, 115, 98, 84, 70, 78, 73}
    BY <2>4, <2>9 DEF Sound
  <2> QED BY <2>6, <2>7, <2>8, <2>9
<1> QED BY <1>1, <1>2

\* decodeBundle: the element whose size passed the guard, and what follows it,
\* are within the bundle.
THEOREM ElementNeverBeyond ==
  ASSUME NEW b \in Seq(Byte), Len(b) >= 4, ~Misfit(b)
  PROVE  /\ Upto(From(b, 4), AsInt32(b)) \in Seq(Byte)
         /\ From(b, 4 + AsInt32(b)) \in Seq(Byte)
<1>1. Len(b) \in Nat BY LenProperties
<1>2. PICK n \in Nat : n = AsInt32(b) /\ n <= Len(b) - 4
  BY <1>1, SizeFits
<1>3. PICK d \in Seq(Byte) : d = From(b, 4) /\ Len(d) = Len(b) - 4
  BY <1>1, SliceWithin
<1>4. Upto(d, n) \in Seq(Byte) BY <1>2, <1>3, SliceWithin
<1>5. 4 + n \in Nat /\ 4 + n <= Len(b) BY <1>1, <1>2
<1>6. From(b, 4 + n) \in Seq(Byte) BY <1>5, SliceWithin
<1> QED BY <1>2, <1>3, <1>4, <1>6

-----------------------------------------------------------------------------
(* Numbers. *)

\* Induction: a set of numbers with zero and with each one's successor has all.
LEMMA AllNats ==
  ASSUME NEW S, 0 \in S, \A n \in Nat : n \in S => n + 1 \in S
  PROVE  \A n \in Nat : n \in S
<1> SUFFICES ASSUME NEW n \in Nat, n \notin S PROVE FALSE
  OBVIOUS
<1> DEFINE T == {k \in Nat : k \notin S}
<1>1. T \subseteq Nat /\ T # {}
  OBVIOUS
<1>2. PICK k \in T : \A j \in T : k <= j
  <2> HIDE DEF T
  <2> QED
    BY <1>1, LeastOfNats
<1>3. k \in Nat /\ k \notin S /\ k # 0
  OBVIOUS
<1>4. k - 1 \in Nat /\ (k - 1) + 1 = k
  BY <1>3
<1>5. k - 1 \in T
  BY <1>3, <1>4
<1> QED
  BY <1>2, <1>4, <1>5

\* Max is the greatest member.
LEMMA MaxIs ==
  ASSUME NEW S, S \subseteq Int, NEW m \in S, \A y \in S : m >= y
  PROVE  Max(S) = m
<1>1. \A x \in S : (\A y \in S : x >= y) => x = m
  OBVIOUS
<1>2. \E x \in S : \A y \in S : x >= y
  OBVIOUS
<1>3. Max(S) \in S /\ \A y \in S : Max(S) >= y
  BY <1>2, Zenon DEF Max
<1> HIDE DEF Max
<1> QED
  BY <1>1, <1>3

-----------------------------------------------------------------------------
(* decodeMessage's loop over the tags. *)

\* One turn of FoldLeft over tags, with g for the turns before.
Turn(g, base, tags, s) ==
  IF s = {} THEN base ELSE Argument(g[s \ {Max(s)}], tags[Max(s)])

\* The loop, as the function that MapThenFoldSet defines.
Turns(base, tags) == CHOOSE g : g = [s \in SUBSET DOMAIN tags |-> Turn(g, base, tags, s)]

\* FoldLeft is the last turn of the loop.
LEMMA FoldIsTurns ==
  ASSUME NEW base, NEW tags
  PROVE  FoldLeft(Argument, base, tags) = Turns(base, tags)[DOMAIN tags]
BY DEF FoldLeft, MapThenFoldSet, Turns, Turn

\* Turns is what its definition says: the loop is well founded.
LEMMA TurnsUnfold ==
  ASSUME NEW base, NEW tags \in Seq(Byte)
  PROVE  Turns(base, tags) =
           [s \in SUBSET DOMAIN tags |-> Turn(Turns(base, tags), base, tags, s)]
<1>1. PICK n \in Nat : DOMAIN tags = 1..n
  BY LenProperties
<1> DEFINE Upon(k, g) == g = [s \in SUBSET (1..k) |-> Turn(g, base, tags, s)]
           T == {k \in Nat : \E g : Upon(k, g)}
<1>2. 0 \in T
  <2> DEFINE g0 == [s \in {{}} |-> base]
  <2>1. SUBSET (1..0) = {{}}
    OBVIOUS
  <2>2. g0 = [s \in {{}} |-> Turn(g0, base, tags, s)]
    BY DEF Turn
  <2>3. Upon(0, g0)
    BY <2>1, <2>2
  <2> QED
    BY <2>3
<1>3. ASSUME NEW k \in Nat, k \in T
      PROVE  k + 1 \in T
  <2>1. PICK g : Upon(k, g)
    BY <1>3
  <2> HIDE DEF T
  <2> DEFINE h == [s \in SUBSET (1..(k + 1)) |->
                     IF k + 1 \in s
                     THEN Argument(g[s \ {k + 1}], tags[k + 1])
                     ELSE g[s]]
  <2>2. \A s \in SUBSET (1..k) : h[s] = g[s]
    <3>1. \A s \in SUBSET (1..k) : s \in SUBSET (1..(k + 1)) /\ k + 1 \notin s
      OBVIOUS
    <3> QED
      BY <3>1
  <2>3. ASSUME NEW s \in SUBSET (1..(k + 1))
        PROVE  h[s] = Turn(h, base, tags, s)
    <3>1. CASE k + 1 \in s
      <4>1. Max(s) = k + 1
        <5>1. s \subseteq Int /\ \A y \in s : k + 1 >= y
          OBVIOUS
        <5> QED
          BY <3>1, <5>1, MaxIs, Zenon
      <4>2. s \ {k + 1} \in SUBSET (1..k)
        OBVIOUS
      <4>3. h[s \ {k + 1}] = g[s \ {k + 1}]
        BY <2>2, <4>2
      <4>4. h[s] = Argument(g[s \ {k + 1}], tags[k + 1])
        BY <3>1
      <4> HIDE DEF h
      <4> QED
        BY <3>1, <4>1, <4>3, <4>4 DEF Turn
    <3>2. CASE k + 1 \notin s
      <4>1. s \in SUBSET (1..k)
        BY <3>2
      <4>2. s \ {Max(s)} \in SUBSET (1..k)
        BY <4>1
      <4>3. h[s] = g[s] /\ h[s \ {Max(s)}] = g[s \ {Max(s)}]
        BY <2>2, <4>1, <4>2
      <4>4. g[s] = Turn(g, base, tags, s)
        BY <2>1, <4>1
      <4> HIDE DEF h
      <4> QED
        BY <4>3, <4>4 DEF Turn
    <3> QED
      BY <3>1, <3>2
  <2>4. h = [s \in SUBSET (1..(k + 1)) |-> h[s]]
    OBVIOUS
  <2>5. Upon(k + 1, h)
    <3> HIDE DEF h
    <3> QED
      BY <2>3, <2>4
  <2>6. \E f : Upon(k + 1, f)
    <3> HIDE DEF h, Upon
    <3> QED
      BY <2>5
  <2> QED
    BY <2>6 DEF T
<1>4. n \in T
  <2> HIDE DEF T
  <2> QED
    BY <1>2, <1>3, AllNats
<1>5. \E g : Upon(n, g)
  BY <1>4
<1> QED
  BY <1>1, <1>5 DEF Turns

\* The loop turn by turn: f[k] is what the first k tags make of base.
LEMMA LoopTurns ==
  ASSUME NEW base, NEW tags \in Seq(Byte)
  PROVE  \E f : /\ f[0] = base
                /\ \A k \in 1..Len(tags) : f[k] = Argument(f[k - 1], tags[k])
                /\ FoldLeft(Argument, base, tags) = f[Len(tags)]
<1>1. PICK n \in Nat : n = Len(tags) /\ DOMAIN tags = 1..n
  BY LenProperties
<1>2. PICK t : /\ t = [s \in SUBSET (1..n) |-> Turn(t, base, tags, s)]
               /\ FoldLeft(Argument, base, tags) = t[1..n]
  <2>1. PICK t : t = Turns(base, tags)
    OBVIOUS
  <2>2. t = [s \in SUBSET DOMAIN tags |-> Turn(t, base, tags, s)]
    BY <2>1, TurnsUnfold, Zenon
  <2>3. FoldLeft(Argument, base, tags) = t[DOMAIN tags]
    BY <2>1, FoldIsTurns, Zenon
  <2>4. t = [s \in SUBSET (1..n) |-> Turn(t, base, tags, s)]
    BY <1>1, <2>2, Zenon
  <2>5. FoldLeft(Argument, base, tags) = t[1..n]
    BY <1>1, <2>3, Zenon
  <2> QED
    BY <2>4, <2>5, Zenon
<1> DEFINE f == [k \in 0..n |-> t[1..k]]
<1>3. f[0] = base
  <2>1. 1..0 = {} /\ {} \in SUBSET (1..n)
    OBVIOUS
  <2>2. t[{}] = base
    BY <1>2, <2>1 DEF Turn
  <2> QED
    BY <2>1, <2>2
<1>4. ASSUME NEW k \in 1..n
      PROVE  f[k] = Argument(f[k - 1], tags[k])
  <2>1. k \in 0..n /\ k - 1 \in 0..n
    OBVIOUS
  <2>2. Max(1..k) = k
    <3>1. 1..k \subseteq Int /\ k \in 1..k /\ \A y \in 1..k : k >= y
      OBVIOUS
    <3> QED
      BY <3>1, MaxIs, Zenon
  <2>3. 1..k # {} /\ (1..k) \ {k} = 1..(k - 1) /\ 1..k \in SUBSET (1..n)
    <3>1. k \in Int /\ 1 <= k /\ k <= n
      OBVIOUS
    <3>2. \A x : x \in 1..(k - 1) <=> x \in 1..k /\ x # k
      BY <3>1
    <3>3. \A x : x \in 1..k => x \in 1..n
      BY <3>1
    <3>4. k \in 1..k
      BY <3>1
    <3> QED
      BY <3>2, <3>3, <3>4
  <2>4. t[1..k] = Argument(t[1..(k - 1)], tags[k])
    <3>1. t[1..k] = Turn(t, base, tags, 1..k)
      BY <1>2, <2>3
    <3> QED
      BY <3>1, <2>2, <2>3 DEF Turn
  <2> QED
    BY <2>1, <2>4
<1>5. FoldLeft(Argument, base, tags) = f[n]
  BY <1>1, <1>2
<1> HIDE DEF f
<1> QED
  BY <1>1, <1>3, <1>4, <1>5

\* The loop over the type tags, whatever they are, stays within the packet.
LEMMA LoopSound ==
  ASSUME NEW base, Sound(base), NEW tags \in Seq(Byte)
  PROVE  Sound(FoldLeft(Argument, base, tags))
<1>1. PICK f : /\ f[0] = base
               /\ \A k \in 1..Len(tags) : f[k] = Argument(f[k - 1], tags[k])
               /\ FoldLeft(Argument, base, tags) = f[Len(tags)]
  BY LoopTurns
<1>2. PICK n \in Nat : n = Len(tags)
  BY LenProperties
<1> DEFINE T == {k \in Nat : k <= n => Sound(f[k])}
<1>3. 0 \in T
  BY <1>1
<1>4. ASSUME NEW k \in Nat, k \in T
      PROVE  k + 1 \in T
  <2> SUFFICES ASSUME k + 1 <= n PROVE Sound(f[k + 1])
    OBVIOUS
  <2>1. Sound(f[k])
    BY <1>4
  <2>2. k + 1 \in 1..Len(tags) /\ (k + 1) - 1 = k
    BY <1>2
  <2>3. f[k + 1] = Argument(f[k], tags[k + 1])
    BY <1>1, <2>2
  <2> QED
    BY <2>1, <2>3, ArgumentNeverBeyond
<1>5. n \in T
  <2> HIDE DEF T
  <2> QED
    BY <1>3, <1>4, AllNats
<1> QED
  BY <1>1, <1>2, <1>5

\* A message never makes the decoder slice beyond its end.
LEMMA MessageNeverBeyond ==
  ASSUME NEW b \in Seq(Byte)
  PROVE  decodeMessage(b).st # "panic"
<1> DEFINE a == readString(b)
           t == readString(a.rest)
           m == FoldLeft(Argument, [st |-> "ok", args |-> <<>>, rest |-> t.rest],
                         Tail(t.val))
<1>1. CASE ~a.ok \/ a.rest = <<>> \/ ~t.ok \/ t.val = <<>>
  BY <1>1 DEF decodeMessage, Failed, Decoded
<1>2. CASE ~(~a.ok \/ a.rest = <<>> \/ ~t.ok \/ t.val = <<>>)
  <2>1. a.rest \in Seq(Byte)
    BY <1>2, StringWithin DEF LeavesPacket
  <2>2. t.rest \in Seq(Byte) /\ t.val \in Seq(Byte)
    BY <1>2, <2>1, StringWithin DEF LeavesPacket
  <2>3. Tail(t.val) \in Seq(Byte)
    BY <1>2, <2>2
  <2>4. Sound([st |-> "ok", args |-> <<>>, rest |-> t.rest])
    BY <2>2 DEF Sound
  <2>5. Sound(m)
    BY <2>3, <2>4, LoopSound
  <2>6. m.st # "panic"
    BY <2>5 DEF Sound
  <2> HIDE DEF m
  <2>7. decodeMessage(b) \in {Failed, Decoded(<<[addr |-> a.val, args |-> <<>>]>>),
                             Decoded(<<[addr |-> a.val, args |-> m.args]>>)}
    BY <2>6 DEF decodeMessage, m
  <2> QED
    BY <2>7 DEF Failed, Decoded
<1> QED
  BY <1>1, <1>2

-----------------------------------------------------------------------------
(* decodeBundle and decodePacket call themselves with shorter slices only, *)
(* so Elements and decodePacket are what their definitions say.            *)

\* A bundle's elements once more, with g for what is made of shorter slices.
Element(g, b) ==
  IF b = Beyond THEN [st |-> "panic", elems |-> <<>>]
  ELSE IF Len(b) < 4 THEN [st |-> "ok", elems |-> <<>>]
  ELSE IF Misfit(b) THEN [st |-> "error", elems |-> <<>>]
  ELSE [g[From(b, 4 + AsInt32(b))] EXCEPT
          !.elems = <<Upto(From(b, 4), AsInt32(b))>> \o @]

\* What a bundle decodes to, from its elements and what these decode to.
Whole(bundle, parts) ==
  LET states == {bundle.st} \union {parts[k].st : k \in DOMAIN parts}
  IN  IF "panic" \in states THEN Panicked
      ELSE IF "error" \in states THEN Failed
      ELSE Decoded(FlattenSeq([k \in DOMAIN parts |-> parts[k].msgs]))

\* A packet once more, with g for what is made of shorter ones.
Packet(g, b) ==
  LET bundle == Elements[From(b, 16)]
  IN  IF Len(b) < 8 \/ Upto(b, 8) # BundleHeader THEN decodeMessage(b)
      ELSE IF Len(b) < 16 THEN Failed
      ELSE Whole(bundle, [k \in DOMAIN bundle.elems |-> g[bundle.elems[k]]])

\* One of the two, so that what is said of both is proved once.
Step(what, g, b) == IF what = "elements" THEN Element(g, b) ELSE Packet(g, b)

\* The slices of less than n bytes, Beyond having none.
Size(b) == IF b = Beyond THEN 0 ELSE Len(b)
Short(n) == {b \in Slice : Size(b) < n}

\* What is made of a slice depends on shorter ones only.
Local(what) ==
  \A n \in Nat : \A g, h :
    (\A b \in Short(n) : g[b] = h[b])
      => \A b \in Short(n + 1) : Step(what, g, b) = Step(what, h, b)

\* g is what the definition says, of the short slices.
Upon(what, g, n) == g = [b \in Short(n) |-> Step(what, g, b)]

\* Sizes are numbers.
LEMMA SizeIsNat ==
  ASSUME NEW b \in Slice
  PROVE  Size(b) \in Nat
  BY LenProperties DEF Size, Slice

\* What Local says of one slice.
LEMMA LocalStep ==
  ASSUME NEW what, Local(what), NEW n \in Nat, NEW g, NEW h,
         \A b \in Short(n) : g[b] = h[b], NEW b \in Short(n + 1)
  PROVE  Step(what, g, b) = Step(what, h, b)
BY Zenon DEF Local

\* Slices shorter than m are shorter than n.
LEMMA ShortGrows ==
  ASSUME NEW m \in Nat, NEW n \in Nat, m <= n
  PROVE  Short(m) \subseteq Short(n)
<1>1. \A b \in Slice : Size(b) < m => Size(b) < n
  BY SizeIsNat
<1> QED
  BY <1>1, Zenon DEF Short

\* There is only one function that is what the definition says.
LEMMA UponAgree ==
  ASSUME NEW what, Local(what), NEW g, NEW h, NEW m \in Nat, NEW n \in Nat,
         m <= n, Upon(what, g, m), Upon(what, h, n)
  PROVE  \A b \in Short(m) : g[b] = h[b]
<1> DEFINE T == {k \in Nat : k <= m => \A b \in Short(k) : g[b] = h[b]}
<1>1. ASSUME NEW k \in Nat, k <= m, NEW b \in Short(k)
      PROVE  g[b] = Step(what, g, b) /\ h[b] = Step(what, h, b)
  <2>1. k <= n
    BY <1>1
  <2>2. b \in Short(m) /\ b \in Short(n)
    BY <1>1, <2>1, ShortGrows, Zenon
  <2> QED
    BY <2>2, Zenon DEF Upon
<1>2. 0 \in T
  <2>1. \A b \in Slice : ~(Size(b) < 0)
    BY SizeIsNat
  <2>2. 0 \in Nat
    OBVIOUS
  <2> QED
    BY <2>1, <2>2, Zenon DEF Short
<1>3. ASSUME NEW k \in Nat, k \in T
      PROVE  k + 1 \in T
  <2>1. k + 1 \in Nat /\ (k + 1 <= m => k <= m)
    OBVIOUS
  <2>2. ASSUME k + 1 <= m, NEW b \in Short(k + 1)
        PROVE  g[b] = h[b]
    <3>1. \A c \in Short(k) : g[c] = h[c]
      BY <1>3, <2>1, <2>2, Zenon
    <3>2. Step(what, g, b) = Step(what, h, b)
      <4> HIDE DEF T
      <4> QED
        BY <2>2, <3>1, LocalStep
    <3> QED
      BY <1>1, <2>1, <2>2, <3>2, Zenon
  <2> QED
    BY <2>1, <2>2, Zenon
<1>4. m \in T
  <2> HIDE DEF T
  <2> QED
    BY <1>2, <1>3, AllNats
<1>5. m <= m
  OBVIOUS
<1> QED
  BY <1>4, <1>5, Zenon

\* And there is one, for each bound on the length.
LEMMA UponExists ==
  ASSUME NEW what, Local(what), NEW n \in Nat
  PROVE  \E g : Upon(what, g, n)
<1> DEFINE T == {k \in Nat : \E g : Upon(what, g, k)}
<1>1. 0 \in T
  <2> DEFINE g == [b \in Short(0) |-> 0]
  <2>1. \A b \in Slice : ~(Size(b) < 0)
    BY SizeIsNat
  <2>2. Short(0) = {}
    BY <2>1, Zenon DEF Short
  <2>3. g = [b \in Short(0) |-> Step(what, g, b)]
    BY <2>2, Zenon
  <2>4. Upon(what, g, 0)
    BY <2>3, Zenon DEF Upon
  <2> HIDE DEF g
  <2> QED
    BY <2>4
<1>2. ASSUME NEW k \in Nat, k \in T
      PROVE  k + 1 \in T
  <2>1. PICK g : Upon(what, g, k)
    BY <1>2
  <2> DEFINE h == [b \in Short(k + 1) |-> Step(what, g, b)]
  <2>2. \A b \in Short(k) : g[b] = Step(what, g, b)
    BY <2>1, Zenon DEF Upon
  <2>3. \A b \in Short(k) : h[b] = g[b]
    <3>1. k + 1 \in Nat /\ k <= k + 1
      OBVIOUS
    <3>2. Short(k) \subseteq Short(k + 1)
      BY <3>1, ShortGrows, Zenon
    <3> QED
      BY <2>2, <3>2, Zenon
  <2>4. \A b \in Short(k + 1) : Step(what, h, b) = Step(what, g, b)
    <3> HIDE DEF h, T
    <3> QED
      BY <2>3, LocalStep
  <2>5. h = [b \in Short(k + 1) |-> Step(what, h, b)]
    BY <2>4, Zenon
  <2>6. Upon(what, h, k + 1)
    BY <2>5, Zenon DEF Upon
  <2> HIDE DEF h
  <2>7. k + 1 \in Nat
    OBVIOUS
  <2> QED
    BY <2>6, <2>7, Zenon
<1> HIDE DEF T
<1>3. n \in T
  BY <1>1, <1>2, AllNats
<1> QED
  BY <1>3 DEF T

\* So there is a function that is what the definition says of every slice.
LEMMA RecursionHolds ==
  ASSUME NEW what, Local(what)
  PROVE  \E f : f = [b \in Slice |-> Step(what, f, b)]
<1> DEFINE G(n) == CHOOSE g : Upon(what, g, n)
           f == [b \in Slice |-> G(Size(b) + 1)[b]]
<1>2. \A n \in Nat : Upon(what, G(n), n)
  BY UponExists, Zenon
<1> HIDE DEF G
<1>4. ASSUME NEW b \in Slice
      PROVE  f[b] = Step(what, f, b)
  <2>1. PICK n \in Nat : n = Size(b) /\ n + 1 \in Nat /\ n < n + 1
    BY SizeIsNat
  <2>2. b \in Short(n + 1)
    BY <2>1, Zenon DEF Short
  <2>3. f[b] = G(n + 1)[b]
    BY <2>1
  <2>4. G(n + 1)[b] = Step(what, G(n + 1), b)
    <3>1. Upon(what, G(n + 1), n + 1)
      BY <1>2, <2>1
    <3> QED
      BY <2>2, <3>1, Zenon DEF Upon
  <2>5. ASSUME NEW c \in Short(n)
        PROVE  f[c] = G(n + 1)[c]
    <3>1. c \in Slice /\ Size(c) < n
      BY Zenon DEF Short
    <3>2. PICK m \in Nat : m = Size(c)
      BY <3>1, SizeIsNat
    <3>3. f[c] = G(m + 1)[c]
      BY <3>1, <3>2
    <3>4. m + 1 \in Nat /\ n + 1 \in Nat /\ m + 1 <= n + 1 /\ m < m + 1
      BY <3>1, <3>2
    <3>5. c \in Short(m + 1)
      BY <3>1, <3>2, <3>4, Zenon DEF Short
    <3>6. Upon(what, G(m + 1), m + 1) /\ Upon(what, G(n + 1), n + 1)
      BY <1>2, <3>4, Zenon
    <3>7. \A d \in Short(m + 1) : G(m + 1)[d] = G(n + 1)[d]
      BY <3>4, <3>6, UponAgree
    <3> QED
      BY <3>3, <3>5, <3>7, Zenon
  <2>6. Step(what, f, b) = Step(what, G(n + 1), b)
    <3> HIDE DEF f
    <3> QED
      BY <2>2, <2>5, LocalStep, Zenon
  <2> QED
    BY <2>3, <2>4, <2>6, Zenon
<1>5. f = [b \in Slice |-> f[b]]
  OBVIOUS
<1>6. f = [b \in Slice |-> Step(what, f, b)]
  <2> HIDE DEF f
  <2> QED
    BY <1>4, <1>5, Zenon
<1> HIDE DEF f
<1> QED
  BY <1>6

\* Slices behind a positive offset are shorter.
LEMMA ShortFrom ==
  ASSUME NEW n \in Nat, NEW b \in Short(n + 1), b # Beyond,
         NEW k \in Nat, 1 <= k, k <= Len(b)
  PROVE  From(b, k) \in Short(n)
<1>1. b \in Seq(Byte) /\ Len(b) < n + 1
  BY Zenon DEF Short, Size, Slice
<1>2. From(b, k) \in Seq(Byte) /\ Len(From(b, k)) = Len(b) - k
  BY <1>1, SliceWithin
<1>3. Len(b) \in Nat
  BY <1>1, LenProperties
<1>4. Len(b) - k < n
  BY <1>1, <1>3
<1>5. From(b, k) # Beyond
  BY <1>2, BeyondIsNoPacket
<1> QED
  BY <1>2, <1>4, <1>5, Zenon DEF Short, Size, Slice

\* Elements goes on with a shorter slice: a size takes four bytes.
LEMMA ElementLocal == Local("elements")
<1> SUFFICES ASSUME NEW n \in Nat, NEW g, NEW h,
                    \A b \in Short(n) : g[b] = h[b],
                    NEW b \in Short(n + 1)
             PROVE  Element(g, b) = Element(h, b)
  BY DEF Local, Step
<1>1. CASE b = Beyond \/ Len(b) < 4 \/ Misfit(b)
  BY <1>1, Zenon DEF Element
<1>2. CASE ~(b = Beyond \/ Len(b) < 4 \/ Misfit(b))
  <2>1. b \in Seq(Byte)
    BY <1>2, Zenon DEF Short, Slice
  <2>2. Len(b) \in Nat /\ Len(b) >= 4
    BY <1>2, <2>1, LenProperties
  <2>3. PICK size \in Nat : size = AsInt32(b) /\ size <= Len(b) - 4
    BY <1>2, <2>1, <2>2, SizeFits
  <2>4. 4 + size \in Nat /\ 1 <= 4 + size /\ 4 + size <= Len(b)
    BY <2>2, <2>3
  <2>5. From(b, 4 + size) \in Short(n)
    BY <1>2, <2>4, ShortFrom, Zenon
  <2>6. g[From(b, 4 + AsInt32(b))] = h[From(b, 4 + AsInt32(b))]
    BY <2>3, <2>5, Zenon
  <2> QED
    BY <2>6, Zenon DEF Element
<1> QED
  BY <1>1, <1>2

\* Elements is what its definition says of every slice.
LEMMA ElementsUnfold == \A b \in Slice : Elements[b] = Element(Elements, b)
<1>1. \E g : g = [b \in Slice |-> Element(g, b)]
  <2>1. \E g : g = [b \in Slice |-> Step("elements", g, b)]
    BY ElementLocal, RecursionHolds, Zenon
  <2> QED
    BY <2>1, Zenon DEF Step
<1>2. Elements = CHOOSE g : g = [b \in Slice |-> Element(g, b)]
  BY DEF Elements, Element
<1>3. Elements = [b \in Slice |-> Element(Elements, b)]
  BY <1>1, <1>2, Zenon
<1> QED
  BY <1>3, Zenon

\* The packets shorter than b.
Shorter(b) == {e \in Seq(Byte) : Len(e) < Len(b)}

\* What Elements says of a bundle: its elements are shorter packets.
Fits(r, b) == /\ r \in [st : {"ok", "error"}, elems : Seq(Shorter(b))]

\* Sequences over a set are sequences over a greater one.
LEMMA SequencesGrow ==
  ASSUME NEW S, NEW T, S \subseteq T
  PROVE  Seq(S) \subseteq Seq(T)
<1> SUFFICES ASSUME NEW s \in Seq(S)
             PROVE  s \in Seq(T)
  OBVIOUS
<1>1. PICK n \in Nat : s \in [1..n -> S]
  BY SeqDef
<1>2. s \in [1..n -> T]
  BY <1>1
<1> QED
  BY <1>2, SeqDef

\* A record with shorter elements fits.
LEMMA FitsRecord ==
  ASSUME NEW b, NEW st \in {"ok", "error"}, NEW elems \in Seq(Shorter(b))
  PROVE  Fits([st |-> st, elems |-> elems], b)
BY DEF Fits

\* One more element still fits.
LEMMA ElementFits ==
  ASSUME NEW b \in Seq(Byte), Len(b) >= 4, ~Misfit(b),
         Fits(Elements[From(b, 4 + AsInt32(b))], From(b, 4 + AsInt32(b)))
  PROVE  Fits(Elements[b], b)
<1>1. Len(b) \in Nat
  BY LenProperties
<1>2. PICK size \in Nat : size = AsInt32(b) /\ size <= Len(b) - 4
  BY <1>1, SizeFits
<1>3. 4 + size \in Nat /\ 4 + size <= Len(b)
  BY <1>1, <1>2
<1>4. PICK d \in Seq(Byte) : d = From(b, 4 + size) /\ Len(d) = Len(b) - (4 + size)
  BY <1>3, SliceWithin
<1>5. PICK r : r = Elements[d] /\ Fits(r, d)
  BY <1>2, <1>4, Zenon
<1>6. PICK e \in Seq(Byte) : e = Upto(From(b, 4), size) /\ Len(e) < Len(b)
  <2>1. PICK c \in Seq(Byte) : c = From(b, 4) /\ Len(c) = Len(b) - 4
    BY <1>1, SliceWithin
  <2>2. Upto(c, size) \in Seq(Byte)
    BY <1>2, <2>1, SliceWithin
  <2>3. Len(c) \in Nat /\ size <= Len(c)
    BY <1>2, <2>1, LenProperties
  <2>4. Upto(c, size) = SubSeq(c, 1, size)
    BY <2>3, Zenon DEF Upto
  <2>5. Len(Upto(c, size)) = size
    BY <1>2, <2>3, <2>4
  <2>6. size < Len(b)
    BY <1>1, <1>2
  <2> QED
    BY <2>1, <2>2, <2>5, <2>6
<1>7. Elements[b] = [r EXCEPT !.elems = <<e>> \o @]
  <2>1. b # Beyond
    BY BeyondIsNoPacket
  <2>2. b \in Slice
    BY Zenon DEF Slice
  <2>3. Elements[b] = Element(Elements, b)
    BY <2>2, ElementsUnfold, Zenon
  <2>4. ~(Len(b) < 4)
    BY <1>1
  <2> QED
    BY <1>2, <1>4, <1>5, <1>6, <2>1, <2>3, <2>4, Zenon DEF Element
<1>8. Shorter(d) \subseteq Shorter(b)
  <2>1. \A x \in Seq(Byte) : Len(x) < Len(d) => Len(x) < Len(b)
    <3>1. Len(d) < Len(b)
      BY <1>1, <1>4
    <3> QED
      BY <1>1, <3>1, LenProperties
  <2> QED
    BY <2>1, Zenon DEF Shorter
<1>9. r.elems \in Seq(Shorter(b)) /\ r.st \in {"ok", "error"}
      /\ r = [st |-> r.st, elems |-> r.elems]
  <2>1. r \in [st : {"ok", "error"}, elems : Seq(Shorter(d))]
    BY <1>5, Zenon DEF Fits
  <2>2. r.st \in {"ok", "error"} /\ r.elems \in Seq(Shorter(d))
        /\ r = [st |-> r.st, elems |-> r.elems]
    BY <2>1
  <2>3. Seq(Shorter(d)) \subseteq Seq(Shorter(b))
    BY <1>8, SequencesGrow, Zenon
  <2> QED
    BY <2>2, <2>3, Zenon
<1>10. <<e>> \o r.elems \in Seq(Shorter(b))
  <2>1. PICK S : S = Shorter(b)
    OBVIOUS
  <2>2. e \in S
    BY <1>6, <2>1, Zenon DEF Shorter
  <2>3. PICK s \in Seq(S) : s = r.elems
    BY <1>9, <2>1, Zenon
  <2>4. <<e>> \in Seq(S)
    BY <2>2
  <2>5. <<e>> \o s \in Seq(S)
    BY <2>4, ConcatProperties, Zenon
  <2> QED
    BY <2>1, <2>3, <2>5, Zenon
<1>11. Elements[b] = [st |-> r.st, elems |-> <<e>> \o r.elems]
  <2>1. PICK x, y : x = r.st /\ y = r.elems
    OBVIOUS
  <2>2. r = [st |-> x, elems |-> y]
    BY <1>9, <2>1, Zenon
  <2>3. [r EXCEPT !.elems = <<e>> \o @] = [st |-> x, elems |-> <<e>> \o y]
    <3>1. \A z : [[st |-> x, elems |-> y] EXCEPT !.elems = z]
                   = [st |-> x, elems |-> z]
      OBVIOUS
    <3> QED
      BY <2>1, <2>2, <3>1, Zenon
  <2> QED
    BY <1>7, <2>1, <2>3, Zenon
<1> QED
  BY <1>9, <1>10, <1>11, FitsRecord, Zenon

\* decodeBundle never slices beyond the end, and its elements are shorter.
LEMMA ElementsFit == \A b \in Seq(Byte) : Fits(Elements[b], b)
<1> DEFINE T == {n \in Nat : \A b \in Seq(Byte) : Len(b) < n => Fits(Elements[b], b)}
<1>1. 0 \in T
  <2>1. \A b \in Seq(Byte) : ~(Len(b) < 0)
    BY LenProperties
  <2>2. 0 \in Nat
    OBVIOUS
  <2> QED
    BY <2>1, <2>2, Zenon
<1>2. ASSUME NEW n \in Nat, n \in T
      PROVE  n + 1 \in T
  <2>1. \A b \in Seq(Byte) : Len(b) < n => Fits(Elements[b], b)
    BY <1>2, Zenon
  <2>2. ASSUME NEW b \in Seq(Byte), Len(b) < n + 1
        PROVE  Fits(Elements[b], b)
    <3>1. Len(b) \in Nat
      BY LenProperties
    <3>2. CASE Len(b) < 4 \/ Misfit(b)
      <4>1. b # Beyond
        BY BeyondIsNoPacket
      <4>2. b \in Slice
        BY Zenon DEF Slice
      <4>3. Elements[b] = Element(Elements, b)
        BY <4>2, ElementsUnfold, Zenon
      <4>4. \/ Elements[b] = [st |-> "ok", elems |-> <<>>]
            \/ Elements[b] = [st |-> "error", elems |-> <<>>]
        BY <3>2, <4>1, <4>3, Zenon DEF Element
      <4>5. <<>> \in Seq(Shorter(b))
        BY EmptySeq
      <4> QED
        BY <4>4, <4>5, FitsRecord, Zenon
    <3>3. CASE ~(Len(b) < 4 \/ Misfit(b))
      <4>1. Len(b) >= 4
        BY <3>1, <3>3
      <4>2. PICK size \in Nat : size = AsInt32(b) /\ size <= Len(b) - 4
        BY <3>1, <3>3, <4>1, SizeFits
      <4>3. 4 + size \in Nat /\ 4 + size <= Len(b)
        BY <3>1, <4>2
      <4>4. From(b, 4 + size) \in Seq(Byte) /\ Len(From(b, 4 + size)) = Len(b) - (4 + size)
        BY <4>3, SliceWithin
      <4>5. Len(From(b, 4 + size)) < n
        BY <2>2, <3>1, <4>2, <4>4
      <4>6. Fits(Elements[From(b, 4 + size)], From(b, 4 + size))
        BY <2>1, <4>4, <4>5, Zenon
      <4> QED
        BY <3>3, <4>1, <4>2, <4>6, ElementFits, Zenon
    <3> QED
      BY <3>2, <3>3, Zenon
  <2>3. n + 1 \in Nat
    OBVIOUS
  <2> QED
    BY <2>2, <2>3, Zenon
<1> HIDE DEF T
<1>3. \A n \in Nat : n \in T
  BY <1>1, <1>2, AllNats
<1> QED
  <2>1. ASSUME NEW b \in Seq(Byte)
        PROVE  Fits(Elements[b], b)
    <3>1. Len(b) + 1 \in Nat /\ Len(b) < Len(b) + 1
      BY LenProperties
    <3>2. Len(b) + 1 \in T
      BY <1>3, <3>1, Zenon
    <3> QED
      BY <3>1, <3>2, Zenon DEF T
  <2> QED
    BY <2>1

\* What a bundle's elements are: packets, shorter than the bundle.
LEMMA BundleElements ==
  ASSUME NEW b \in Seq(Byte), Len(b) >= 16
  PROVE  LET bundle == Elements[From(b, 16)]
         IN  /\ bundle.st # "panic"
             /\ \A k \in DOMAIN bundle.elems : /\ bundle.elems[k] \in Seq(Byte)
                                               /\ Len(bundle.elems[k]) < Len(b)
<1>1. Len(b) \in Nat
  BY LenProperties
<1>2. PICK d \in Seq(Byte) : d = From(b, 16) /\ Len(d) = Len(b) - 16
  BY <1>1, SliceWithin
<1>3. PICK r : r = Elements[d] /\ Fits(r, d)
  BY ElementsFit, Zenon
<1>4. r.st # "panic" /\ r.elems \in Seq(Shorter(d))
  BY <1>3 DEF Fits
<1>5. ASSUME NEW k \in DOMAIN r.elems
      PROVE  r.elems[k] \in Seq(Byte) /\ Len(r.elems[k]) < Len(b)
  <2>1. r.elems[k] \in Shorter(d)
    <3>1. \A S : \A s \in Seq(S) : \A j \in DOMAIN s : s[j] \in S
      BY ElementOfSeq, LenProperties
    <3> QED
      BY <1>4, <3>1, Zenon
  <2>2. r.elems[k] \in Seq(Byte) /\ Len(r.elems[k]) < Len(d)
    BY <2>1, Zenon DEF Shorter
  <2>3. \A x \in Seq(Byte) : Len(x) < Len(d) => Len(x) < Len(b)
    BY <1>1, <1>2, LenProperties
  <2> QED
    BY <2>2, <2>3, Zenon
<1> QED
  BY <1>2, <1>3, <1>4, <1>5, Zenon

\* decodePacket goes on with elements, which are shorter than their bundle.
LEMMA PacketLocal == Local("packet")
<1> SUFFICES ASSUME NEW n \in Nat, NEW g, NEW h,
                    \A b \in Short(n) : g[b] = h[b],
                    NEW b \in Short(n + 1)
             PROVE  Packet(g, b) = Packet(h, b)
  BY DEF Local, Step
<1>1. CASE Len(b) < 8 \/ Upto(b, 8) # BundleHeader \/ Len(b) < 16
  BY <1>1, Zenon DEF Packet
<1>2. CASE ~(Len(b) < 8 \/ Upto(b, 8) # BundleHeader \/ Len(b) < 16)
  <2>1. b # Beyond
    <3>1. Len(Beyond) < 8
      BY DEF Beyond
    <3> QED
      BY <1>2, <3>1, Zenon
  <2>2. b \in Seq(Byte) /\ Len(b) < n + 1
    BY <2>1, Zenon DEF Short, Size, Slice
  <2>3. Len(b) \in Nat /\ Len(b) >= 16
    BY <1>2, <2>2, LenProperties
  <2>4. PICK bundle : /\ bundle = Elements[From(b, 16)]
                      /\ \A k \in DOMAIN bundle.elems :
                           /\ bundle.elems[k] \in Seq(Byte)
                           /\ Len(bundle.elems[k]) < Len(b)
    BY <2>2, <2>3, BundleElements, Zenon
  <2>5. ASSUME NEW k \in DOMAIN bundle.elems
        PROVE  g[bundle.elems[k]] = h[bundle.elems[k]]
    <3>1. PICK e \in Seq(Byte) : e = bundle.elems[k] /\ Len(e) < Len(b)
      BY <2>4, Zenon
    <3>2. Len(e) < n
      BY <2>2, <2>3, <3>1, LenProperties
    <3>3. e # Beyond
      BY BeyondIsNoPacket
    <3>4. e \in Short(n)
      BY <3>2, <3>3, Zenon DEF Short, Size, Slice
    <3> QED
      BY <3>1, <3>4, Zenon
  <2>6. [k \in DOMAIN bundle.elems |-> g[bundle.elems[k]]]
          = [k \in DOMAIN bundle.elems |-> h[bundle.elems[k]]]
    BY <2>5, Zenon
  <2> QED
    BY <2>4, <2>6, Zenon DEF Packet
<1> QED
  BY <1>1, <1>2

\* decodePacket is what its definition says of every slice.
LEMMA PacketUnfold == \A b \in Slice : decodePacket[b] = Packet(decodePacket, b)
<1>1. \E g : g = [b \in Slice |-> Packet(g, b)]
  <2>1. PICK g : g = [b \in Slice |-> Step("packet", g, b)]
    BY PacketLocal, RecursionHolds, Zenon
  <2>2. \A b : Step("packet", g, b) = Packet(g, b)
    BY DEF Step
  <2>3. [b \in Slice |-> Step("packet", g, b)] = [b \in Slice |-> Packet(g, b)]
    BY <2>2, Zenon
  <2> QED
    BY <2>1, <2>3, Zenon
<1>2. decodePacket = CHOOSE g : g = [b \in Slice |-> Packet(g, b)]
  BY DEF decodePacket, Packet, Whole
<1>3. decodePacket = [b \in Slice |-> Packet(decodePacket, b)]
  BY <1>1, <1>2, Zenon
<1> QED
  BY <1>3, Zenon

\* A bundle panics only where one of its parts does.
LEMMA WholeNeverBeyond ==
  ASSUME NEW bundle, NEW parts, bundle.st # "panic",
         \A k \in DOMAIN parts : parts[k].st # "panic"
  PROVE  Whole(bundle, parts).st # "panic"
<1>1. PICK states : states = {bundle.st} \union {parts[k].st : k \in DOMAIN parts}
  OBVIOUS
<1>2. "panic" \notin states
  BY <1>1
<1>3. \/ Whole(bundle, parts) = Failed
      \/ \E ms : Whole(bundle, parts) = Decoded(ms)
  BY <1>1, <1>2, Zenon DEF Whole
<1> QED
  BY <1>3 DEF Failed, Decoded

\* decodePacket: no packet, whatever its bytes and however deep its bundles,
\* makes the decoder slice beyond the end of its bytes.
THEOREM PacketNeverBeyond == \A b \in Seq(Byte) : decodePacket[b].st # "panic"
<1> DEFINE T == {n \in Nat : \A b \in Seq(Byte) :
                               Len(b) < n => decodePacket[b].st # "panic"}
<1>1. 0 \in T
  <2>1. \A b \in Seq(Byte) : ~(Len(b) < 0)
    BY LenProperties
  <2>2. 0 \in Nat
    OBVIOUS
  <2> QED
    BY <2>1, <2>2, Zenon
<1>2. ASSUME NEW n \in Nat, n \in T
      PROVE  n + 1 \in T
  <2>1. \A b \in Seq(Byte) : Len(b) < n => decodePacket[b].st # "panic"
    BY <1>2, Zenon
  <2>2. ASSUME NEW b \in Seq(Byte), Len(b) < n + 1
        PROVE  decodePacket[b].st # "panic"
    <3>1. Len(b) \in Nat
      BY LenProperties
    <3>2. b \in Slice
      BY Zenon DEF Slice
    <3>3. decodePacket[b] = Packet(decodePacket, b)
      BY <3>2, PacketUnfold, Zenon
    <3>4. CASE Len(b) < 8 \/ Upto(b, 8) # BundleHeader
      <4>1. Packet(decodePacket, b) = decodeMessage(b)
        BY <3>4, Zenon DEF Packet
      <4> QED
        BY <3>3, <4>1, MessageNeverBeyond, Zenon
    <3>5. CASE ~(Len(b) < 8 \/ Upto(b, 8) # BundleHeader) /\ Len(b) < 16
      <4>1. Packet(decodePacket, b) = Failed
        BY <3>5, Zenon DEF Packet
      <4> QED
        BY <3>3, <4>1 DEF Failed
    <3>6. CASE ~(Len(b) < 8 \/ Upto(b, 8) # BundleHeader) /\ ~(Len(b) < 16)
      <4>1. Len(b) >= 16
        BY <3>1, <3>6
      <4>2. PICK bundle : /\ bundle = Elements[From(b, 16)]
                          /\ bundle.st # "panic"
                          /\ \A k \in DOMAIN bundle.elems :
                               /\ bundle.elems[k] \in Seq(Byte)
                               /\ Len(bundle.elems[k]) < Len(b)
        BY <4>1, BundleElements, Zenon
      <4>3. PICK parts : parts = [k \in DOMAIN bundle.elems |->
                                    decodePacket[bundle.elems[k]]]
        OBVIOUS
      <4>4. Packet(decodePacket, b) = Whole(bundle, parts)
        BY <3>6, <4>2, <4>3, Zenon DEF Packet
      <4>5. ASSUME NEW k \in DOMAIN bundle.elems
            PROVE  decodePacket[bundle.elems[k]].st # "panic"
        <5>1. PICK e \in Seq(Byte) : e = bundle.elems[k] /\ Len(e) < Len(b)
          BY <4>2, Zenon
        <5>2. Len(e) < n
          BY <2>2, <3>1, <5>1, LenProperties
        <5> QED
          BY <2>1, <5>1, <5>2, Zenon
      <4>6. \A k \in DOMAIN parts : parts[k].st # "panic"
        BY <4>3, <4>5, Zenon
      <4> QED
        BY <3>3, <4>2, <4>4, <4>6, WholeNeverBeyond, Zenon
    <3> QED
      BY <3>4, <3>5, <3>6, Zenon
  <2>3. n + 1 \in Nat
    OBVIOUS
  <2> QED
    BY <2>2, <2>3, Zenon
<1> HIDE DEF T
<1>3. \A n \in Nat : n \in T
  BY <1>1, <1>2, AllNats
<1> QED
  <2>1. ASSUME NEW b \in Seq(Byte)
        PROVE  decodePacket[b].st # "panic"
    <3>1. Len(b) + 1 \in Nat /\ Len(b) < Len(b) + 1
      BY LenProperties
    <3>2. Len(b) + 1 \in T
      BY <1>3, <3>1, Zenon
    <3> QED
      BY <3>1, <3>2, Zenon DEF T
  <2> QED
    BY <2>1

-----------------------------------------------------------------------------
(* Packets and what they start with. *)

\* p is w, or w cut after some byte.
Start(p, w) == /\ p \in Seq(Byte)
               /\ w \in Seq(Byte)
               /\ Len(p) <= Len(w)
               /\ \A k \in 1..Len(p) : p[k] = w[k]

\* The bytes of two packets, one behind the other.
LEMMA JoinedBytes ==
  ASSUME NEW x \in Seq(Byte), NEW y \in Seq(Byte)
  PROVE  /\ x \o y \in Seq(Byte)
         /\ Len(x \o y) = Len(x) + Len(y)
         /\ \A k \in 1..Len(x) : (x \o y)[k] = x[k]
         /\ \A k \in 1..Len(y) : (x \o y)[Len(x) + k] = y[k]
<1>1. Len(x) \in Nat /\ Len(y) \in Nat
  BY LenProperties
<1>2. x \o y \in Seq(Byte) /\ Len(x \o y) = Len(x) + Len(y)
  BY ConcatProperties
<1>3. \A k \in 1..(Len(x) + Len(y)) :
        (x \o y)[k] = IF k <= Len(x) THEN x[k] ELSE y[k - Len(x)]
  BY ConcatProperties
<1>4. ASSUME NEW k \in 1..Len(x)
      PROVE  (x \o y)[k] = x[k]
  <2>1. k \in 1..(Len(x) + Len(y)) /\ k <= Len(x)
    BY <1>1
  <2> QED
    BY <1>3, <2>1
<1>5. ASSUME NEW k \in 1..Len(y)
      PROVE  (x \o y)[Len(x) + k] = y[k]
  <2>1. PICK j : j = Len(x) + k
    OBVIOUS
  <2>2. j \in 1..(Len(x) + Len(y)) /\ ~(j <= Len(x)) /\ j - Len(x) = k
    BY <1>1, <2>1
  <2>3. (x \o y)[j] = y[j - Len(x)]
    BY <1>3, <2>2, Zenon
  <2> QED
    BY <2>1, <2>2, <2>3, Zenon
<1> QED
  BY <1>2, <1>4, <1>5, Zenon

\* Packets with the same bytes are the same.
LEMMA SameBytes ==
  ASSUME NEW x \in Seq(Byte), NEW y \in Seq(Byte), Len(x) = Len(y),
         \A k \in 1..Len(x) : x[k] = y[k]
  PROVE  x = y
<1>1. DOMAIN x = 1..Len(x) /\ DOMAIN y = 1..Len(x)
  BY LenProperties
<1>2. x = [k \in 1..Len(x) |-> x[k]] /\ y = [k \in 1..Len(x) |-> y[k]]
  BY <1>1
<1> QED
  BY <1>2, SeqEqual

\* A packet starts with all of itself, and with nothing else of its length.
LEMMA StartWhole ==
  ASSUME NEW w \in Seq(Byte)
  PROVE  /\ Start(w, w)
         /\ \A p : Start(p, w) /\ Len(p) = Len(w) => p = w
<1>1. Start(w, w)
  BY LenProperties DEF Start
<1>2. \A p : Start(p, w) /\ Len(p) = Len(w) => p = w
  BY SameBytes, Zenon DEF Start
<1> QED
  BY <1>1, <1>2

\* The bytes of the slices within a packet.
LEMMA SlicedBytes ==
  ASSUME NEW b \in Seq(Byte), NEW n \in Nat, n <= Len(b)
  PROVE  /\ Upto(b, n) \in Seq(Byte)
         /\ Len(Upto(b, n)) = n
         /\ \A k \in 1..n : Upto(b, n)[k] = b[k]
         /\ From(b, n) \in Seq(Byte)
         /\ Len(From(b, n)) = Len(b) - n
         /\ \A k \in 1..(Len(b) - n) : From(b, n)[k] = b[n + k]
<1>1. Len(b) \in Nat
  BY LenProperties
<1>2. Upto(b, n) = SubSeq(b, 1, n) /\ From(b, n) = SubSeq(b, n + 1, Len(b))
  BY Zenon DEF Upto, From
<1>3. Len(SubSeq(b, 1, n)) = n /\ \A k \in 1..n : SubSeq(b, 1, n)[k] = b[k]
  BY <1>1
<1>4. \A k \in 1..(Len(b) - n) : SubSeq(b, n + 1, Len(b))[k] = b[n + k]
  BY <1>1
<1>5. /\ Upto(b, n) \in Seq(Byte)
      /\ From(b, n) \in Seq(Byte)
      /\ Len(From(b, n)) = Len(b) - n
  BY SliceWithin
<1> QED
  BY <1>2, <1>3, <1>4, <1>5, Zenon

\* What starts with x goes on behind it.
LEMMA StartBehind ==
  ASSUME NEW x \in Seq(Byte), NEW y \in Seq(Byte), NEW b, Start(b, x \o y)
  PROVE  /\ \A k \in 1..Len(b) : k <= Len(x) => b[k] = x[k]
         /\ Len(b) >= Len(x) =>
              /\ Start(From(b, Len(x)), y)
              /\ b = x \o From(b, Len(x))
              /\ b = x \o y => From(b, Len(x)) = y
         /\ Len(b) < Len(x) => b # x \o y
<1>1. Len(x) \in Nat /\ Len(y) \in Nat /\ Len(b) \in Nat /\ b \in Seq(Byte)
  BY LenProperties DEF Start
<1>2. PICK w \in Seq(Byte) : /\ w = x \o y
                             /\ Len(w) = Len(x) + Len(y)
                             /\ \A k \in 1..Len(x) : w[k] = x[k]
                             /\ \A k \in 1..Len(y) : w[Len(x) + k] = y[k]
  BY JoinedBytes, Zenon
<1>3. Len(b) <= Len(w) /\ \A k \in 1..Len(b) : b[k] = w[k]
  BY <1>2, Zenon DEF Start
<1>4. ASSUME NEW k \in 1..Len(b), k <= Len(x)
      PROVE  b[k] = x[k]
  <2>1. k \in 1..Len(x)
    BY <1>1, <1>4
  <2> QED
    BY <1>2, <1>3, <2>1, Zenon
<1>5. ASSUME Len(b) >= Len(x)
      PROVE  /\ Start(From(b, Len(x)), y)
             /\ b = x \o From(b, Len(x))
             /\ b = x \o y => From(b, Len(x)) = y
  <2>0. PICK n \in Nat : n = Len(x) /\ n <= Len(b)
    BY <1>1, <1>5
  <2>1. PICK q \in Seq(Byte) : /\ q = From(b, n)
                               /\ Len(q) = Len(b) - n
                               /\ \A k \in 1..(Len(b) - n) : q[k] = b[n + k]
    BY <1>1, <2>0, SlicedBytes, ZenonT(40)
  <2>2. Len(q) <= Len(y) /\ Len(b) = n + Len(q) /\ Len(q) \in Nat
    BY <1>1, <1>2, <1>3, <2>0, <2>1
  <2>3. ASSUME NEW k \in 1..Len(q)
        PROVE  q[k] = y[k] /\ q[k] = b[n + k]
    <3>1. k \in 1..(Len(b) - n) /\ k \in 1..Len(y) /\ n + k \in 1..Len(b)
      BY <1>1, <2>0, <2>1, <2>2
    <3> QED
      BY <1>2, <1>3, <2>0, <2>1, <3>1, Zenon
  <2>4. Start(q, y)
    BY <2>2, <2>3, Zenon DEF Start
  <2>5. b = x \o q
    <3>1. PICK v \in Seq(Byte) : /\ v = x \o q
                                 /\ Len(v) = n + Len(q)
                                 /\ \A k \in 1..n : v[k] = x[k]
                                 /\ \A k \in 1..Len(q) : v[n + k] = q[k]
      <4>1. /\ x \o q \in Seq(Byte)
            /\ Len(x \o q) = Len(x) + Len(q)
            /\ \A k \in 1..Len(x) : (x \o q)[k] = x[k]
            /\ \A k \in 1..Len(q) : (x \o q)[Len(x) + k] = q[k]
        BY JoinedBytes
      <4>2. PICK v \in Seq(Byte) : /\ v = x \o q
                                   /\ Len(v) = Len(x) + Len(q)
                                   /\ \A k \in 1..Len(x) : v[k] = x[k]
                                   /\ \A k \in 1..Len(q) : v[Len(x) + k] = q[k]
        BY <4>1, Zenon
      <4> QED
        BY <2>0, <4>2
    <3>2. ASSUME NEW k \in 1..Len(b)
          PROVE  b[k] = v[k]
      <4>1. CASE k <= n
        <5>1. k \in 1..n /\ k <= Len(x)
          BY <2>0, <4>1
        <5> QED
          BY <1>4, <3>1, <5>1, Zenon
      <4>2. CASE k > n
        <5>1. PICK j : j = k - n /\ j \in 1..Len(q) /\ n + j = k
          BY <1>1, <2>2, <4>2
        <5> QED
          BY <2>3, <3>1, <5>1, Zenon
      <4> QED
        BY <4>1, <4>2
    <3>3. Len(b) = Len(v)
      BY <2>2, <3>1, Zenon
    <3> QED
      BY <1>1, <3>1, <3>2, <3>3, SameBytes, Zenon
  <2>6. b = x \o y => q = y
    <3>1. SUFFICES ASSUME b = x \o y PROVE q = y
      OBVIOUS
    <3>2. Len(q) = Len(y)
      <4>1. Len(b) = Len(w)
        BY <1>2, <3>1, Zenon
      <4> QED
        BY <1>1, <1>2, <2>0, <2>2, <4>1
    <3> QED
      BY <2>4, <3>2, StartWhole, Zenon
  <2> QED
    BY <2>0, <2>1, <2>4, <2>5, <2>6, Zenon
<1>6. Len(b) < Len(x) => b # x \o y
  <2>1. Len(b) < Len(x) => Len(b) # Len(w)
    BY <1>1, <1>2
  <2> QED
    BY <1>2, <2>1, Zenon
<1> QED
  BY <1>4, <1>5, <1>6, Zenon

\* Joining associates.
LEMMA JoinAssociates ==
  ASSUME NEW x \in Seq(Byte), NEW y \in Seq(Byte), NEW z \in Seq(Byte)
  PROVE  (x \o y) \o z = x \o (y \o z)
BY ConcatAssociative

-----------------------------------------------------------------------------
(* Words. *)

\* appendInt32 and int32(binary.BigEndian.Uint32(b)): four bytes hold an
\* int32, and the first tells its sign.
LEMMA WordBytes ==
  ASSUME NEW v \in Int32
  PROVE  /\ appendInt32(v) \in Seq(Byte)
         /\ Len(appendInt32(v)) = 4
         /\ (appendInt32(v)[1] >= 128) <=> v < 0
         /\ AsInt32(appendInt32(v)) = v
<1>0. v \in Int /\ -2147483648 <= v /\ v <= 2147483647
  BY SMT DEF Int32
<1>a. PICK low, sign : /\ low = IF v < 0 THEN (v + 2147483647) + 1 ELSE v
                       /\ sign = IF v < 0 THEN 128 ELSE 0
  OBVIOUS
<1>1. /\ v < 0 => low = v + 2147483648 /\ sign = 128
      /\ ~(v < 0) => low = v /\ sign = 0
      /\ low \in Nat /\ low <= 2147483647 /\ sign \in {0, 128}
  BY <1>0, <1>a, SMT
<1>2. PICK p \in Nat, q \in Nat, r \in Nat, s \in Nat :
        /\ p <= 127 /\ q <= 255 /\ r <= 255 /\ s <= 255
        /\ p = low \div 16777216
        /\ q = (low \div 65536) % 256
        /\ r = (low \div 256) % 256
        /\ s = low % 256
        /\ low = p * 16777216 + q * 65536 + r * 256 + s
  <2>1. low \div 16777216 <= 127
    BY <1>1, SMT
  <2>2. PICK h1 \in Nat, h2 \in Nat, h3 \in Nat :
          h1 = low \div 256 /\ h2 = low \div 65536 /\ h3 = low \div 16777216
    BY <1>1, SMT
  <2>3. h2 = h1 \div 256 /\ h3 = h2 \div 256
    BY <1>1, <2>2, SMT
  <2>4. \A x \in Nat : /\ x % 256 = x - 256 * (x \div 256)
                      /\ x % 256 \in Nat /\ x % 256 <= 255
    BY SMT
  <2>5. PICK q \in Nat, r \in Nat, s \in Nat :
          /\ q <= 255 /\ r <= 255 /\ s <= 255
          /\ q = h2 % 256 /\ r = h1 % 256 /\ s = low % 256
    BY <1>1, <2>4, SMT
  <2>6. s = low - 256 * h1 /\ r = h1 - 256 * h2 /\ q = h2 - 256 * h3
    BY <1>1, <2>2, <2>3, <2>4, <2>5, SMT
  <2>7. low = h3 * 16777216 + q * 65536 + r * 256 + s
    BY <1>1, <2>6, SMT
  <2> QED
    BY <2>1, <2>2, <2>5, <2>7, SMT
<1>3. appendInt32(v) = <<sign + p, q, r, s>>
  BY <1>a, <1>2, SMT DEF appendInt32
<1>4. sign + p \in Byte /\ q \in Byte /\ r \in Byte /\ s \in Byte
  BY <1>1, <1>2, SMT DEF Byte
<1>5. <<sign + p, q, r, s>> \in Seq(Byte)
  BY <1>4, SMT
<1>6. PICK w : w = <<sign + p, q, r, s>>
  OBVIOUS
<1>7. w[1] = sign + p /\ w[2] = q /\ w[3] = r /\ w[4] = s /\ Len(w) = 4
  BY <1>6, SMT
<1>8. (w[1] >= 128) <=> v < 0
  BY <1>1, <1>2, <1>7, <1>0, SMT
<1>9. AsInt32(w) = (IF w[1] >= 128 THEN w[1] - 256 ELSE w[1]) * 16777216
                      + w[2] * 65536 + w[3] * 256 + w[4]
  BY SMT DEF AsInt32
<1>10. AsInt32(w) = v
  <2>1. CASE v < 0
    <3>1. w[1] - 256 = p - 128 /\ w[1] >= 128
      BY <1>1, <1>2, <1>7, <2>1, <1>0, SMT
    <3>2. AsInt32(w) = (p - 128) * 16777216 + q * 65536 + r * 256 + s
      BY <1>7, <1>9, <3>1, SMT
    <3>3. v = low - 2147483648
      BY <1>1, <2>1, <1>0, SMT
    <3> QED
      BY <1>2, <3>2, <3>3, SMT
  <2>2. CASE ~(v < 0)
    <3>1. w[1] = p /\ ~(w[1] >= 128)
      BY <1>1, <1>2, <1>7, <2>2, <1>0, SMT
    <3>2. AsInt32(w) = p * 16777216 + q * 65536 + r * 256 + s
      BY <1>7, <1>9, <3>1, SMT
    <3>3. v = low
      BY <1>1, <2>2, <1>0, SMT
    <3> QED
      BY <1>2, <3>2, <3>3, SMT
  <2> QED
    BY <2>1, <2>2, SMT
<1> QED
  BY <1>3, <1>5, <1>6, <1>7, <1>8, <1>10, Zenon

-----------------------------------------------------------------------------
(* What the readers make of an encoded value, whole or cut. *)

\* The padding.
LEMMA ZeroBytes ==
  ASSUME NEW n \in Nat
  PROVE  /\ Zeros(n) \in Seq(Byte)
         /\ Len(Zeros(n)) = n
         /\ \A k \in 1..n : Zeros(n)[k] = 0
<1>1. Zeros(n) \in [1..n -> Byte]
  BY DEF Zeros, Byte
<1>2. Zeros(n) \in Seq(Byte)
  BY <1>1, SeqDef
<1>3. DOMAIN Zeros(n) = 1..n /\ \A k \in 1..n : Zeros(n)[k] = 0
  BY DEF Zeros
<1>4. Len(Zeros(n)) = n
  BY <1>2, <1>3, LenProperties
<1> QED
  BY <1>2, <1>3, <1>4

\* pad4 rounds up.
LEMMA PadBounds ==
  ASSUME NEW n \in Nat
  PROVE  pad4(n) \in Nat /\ n <= pad4(n)
<1>1. PICK h \in Nat : h = (n + 3) \div 4
  BY SMT
<1>2. 4 * h <= n + 3 /\ n + 3 < 4 * h + 4
  BY <1>1, SMT
<1>3. pad4(n) = h * 4
  BY <1>1, SMT DEF pad4
<1> QED
  BY <1>2, <1>3, SMT

\* Bytes other than null are bytes.
LEMMA BytesWithoutNull == Seq(Byte \ {0}) \subseteq Seq(Byte)
<1>1. Byte \ {0} \subseteq Byte
  OBVIOUS
<1> QED
  BY <1>1, SequencesGrow, Zenon

\* The bytes of an encoded string: its own, and at least one null.
LEMMA StringBytes ==
  ASSUME NEW s \in Seq(Byte)
  PROVE  LET e == encodeString(s)
         IN  /\ e \in Seq(Byte)
             /\ Len(e) = pad4(Len(s) + 1)
             /\ Len(s) < Len(e)
             /\ \A k \in 1..Len(s) : e[k] = s[k]
             /\ e[Len(s) + 1] = 0
<1>1. PICK l \in Nat : l = Len(s)
  BY LenProperties
<1>2. PICK n \in Nat : n = pad4(l + 1) /\ l + 1 <= n
  BY <1>1, PadBounds
<1>3. n - l \in Nat
  BY <1>2
<1>4. PICK z \in Seq(Byte) : z = Zeros(n - l) /\ Len(z) = n - l
                             /\ \A k \in 1..(n - l) : z[k] = 0
  BY <1>3, ZeroBytes, Zenon
<1>5. encodeString(s) = s \o z
  BY <1>1, <1>2, <1>4, Zenon DEF encodeString
<1>6. /\ s \o z \in Seq(Byte)
      /\ Len(s \o z) = Len(s) + Len(z)
      /\ \A k \in 1..Len(s) : (s \o z)[k] = s[k]
      /\ \A k \in 1..Len(z) : (s \o z)[Len(s) + k] = z[k]
  BY JoinedBytes
<1>7. PICK e \in Seq(Byte) : /\ e = s \o z
                             /\ Len(e) = Len(s) + Len(z)
                             /\ \A k \in 1..Len(s) : e[k] = s[k]
                             /\ \A k \in 1..Len(z) : e[Len(s) + k] = z[k]
  BY <1>6, Zenon
<1>8. Len(e) = n /\ l < n
  <2>1. Len(e) = l + (n - l)
    BY <1>1, <1>4, <1>7, Zenon
  <2>2. l + (n - l) = n /\ l < n
    BY <1>2
  <2> QED
    BY <2>1, <2>2, Zenon
<1>9. e[Len(s) + 1] = 0
  <2>1. 1 \in 1..Len(z) /\ 1 \in 1..(n - l)
    BY <1>2, <1>4
  <2> QED
    BY <1>4, <1>7, <2>1, Zenon
<1>10. pad4(Len(s) + 1) = n
  BY <1>1, <1>2, Zenon
<1>11. Len(s) < n
  BY <1>1, <1>8
<1> QED
  BY <1>5, <1>7, <1>8, <1>9, <1>10, <1>11, Zenon

\* Behind all bytes there are none.
LEMMA NothingLeft ==
  ASSUME NEW b \in Seq(Byte), NEW r \in Seq(Byte)
  PROVE  From(b, Len(b)) = <<>> /\ Start(<<>>, r)
<1>1. Len(b) \in Nat /\ Len(r) \in Nat
  BY LenProperties
<1>2. PICK q \in Seq(Byte) : q = From(b, Len(b)) /\ Len(q) = 0
  <2>1. PICK n \in Nat : n = Len(b) /\ n <= Len(b) /\ Len(b) - n = 0
    BY <1>1
  <2>2. From(b, n) \in Seq(Byte) /\ Len(From(b, n)) = Len(b) - n
    BY <2>1, SliceWithin
  <2> QED
    BY <2>1, <2>2, Zenon
<1>3. q = <<>>
  BY <1>2, EmptySeq
<1>4. <<>> \in Seq(Byte) /\ Len(<<>>) = 0
  BY EmptySeq
<1>5. Start(<<>>, r)
  BY <1>1, <1>4 DEF Start
<1> QED
  BY <1>2, <1>3, <1>5, Zenon

\* The least of the nulls of b.
LEMMA FirstNull ==
  ASSUME NEW b \in Seq(Byte), NEW n \in 1..Len(b), b[n] = 0,
         \A k \in 1..Len(b) : k < n => b[k] # 0
  PROVE  readString(b) = Reads(Upto(b, n - 1), From(b, AtMost(pad4(n), Len(b))))
<1> DEFINE nulls == {k \in DOMAIN b : b[k] = 0}
           null  == CHOOSE k \in nulls : \A j \in nulls : k <= j
<1>1. Len(b) \in Nat /\ DOMAIN b = 1..Len(b)
  BY LenProperties
<1>2. n \in nulls /\ \A j \in nulls : j \in 1..Len(b) /\ b[j] = 0
  BY <1>1
<1>3. \A j \in nulls : n <= j
  <2> HIDE DEF nulls
  <2> QED
    BY <1>1, <1>2
<1>4. null \in nulls /\ \A j \in nulls : null <= j
  <2> HIDE DEF nulls
  <2> QED
    BY <1>2, <1>3, Zenon
<1>5. null = n
  <2>1. null <= n /\ n <= null
    BY <1>2, <1>3, <1>4, Zenon
  <2>2. null \in Int /\ n \in Int
    BY <1>1, <1>4
  <2> HIDE DEF null
  <2> QED
    BY <2>1, <2>2
<1>6. nulls # {}
  BY <1>2, Zenon
<1>7. readString(b) = IF nulls = {} THEN Unreadable
                      ELSE Reads(Upto(b, null - 1),
                                 From(b, AtMost(pad4(null), Len(b))))
  BY DEF readString
<1> HIDE DEF nulls, null
<1> QED
  BY <1>5, <1>6, <1>7, Zenon

\* readString: without a null there is no string.
LEMMA NoNull ==
  ASSUME NEW b \in Seq(Byte), \A k \in 1..Len(b) : b[k] # 0
  PROVE  readString(b) = Unreadable
<1>1. {k \in DOMAIN b : b[k] = 0} = {}
  BY LenProperties
<1> QED
  BY <1>1, Zenon DEF readString

\* What a reader makes of what starts with the encoding of val: nothing, or
\* val, and it leaves what starts with the rest.
ReadsBack(read, b, w, val, r) ==
  \/ read = Unreadable /\ b # w
  \/ \E q : read = Reads(val, q) /\ Start(q, r) /\ (b = w => q = r)

\* Skipping what is encoded, or as much of it as there is, leaves the rest.
LEMMA SkipBack ==
  ASSUME NEW e \in Seq(Byte), NEW r \in Seq(Byte), NEW b, Start(b, e \o r)
  PROVE  /\ Start(From(b, AtMost(Len(e), Len(b))), r)
         /\ b = e \o r => From(b, AtMost(Len(e), Len(b))) = r
<1>0. b \in Seq(Byte)
  BY Zenon DEF Start
<1>1. /\ \A k \in 1..Len(b) : k <= Len(e) => b[k] = e[k]
      /\ Len(b) >= Len(e) =>
           /\ Start(From(b, Len(e)), r)
           /\ b = e \o From(b, Len(e))
           /\ b = e \o r => From(b, Len(e)) = r
      /\ Len(b) < Len(e) => b # e \o r
  BY StartBehind, Zenon
<1>2. PICK n \in Nat, p \in Nat : n = Len(b) /\ p = Len(e)
  BY <1>0, LenProperties
<1>3. CASE n >= p
  <2>1. AtMost(p, n) = p
    BY <1>3 DEF AtMost
  <2> QED
    BY <1>1, <1>2, <1>3, <2>1, Zenon
<1>4. CASE n < p
  <2>1. AtMost(p, n) = n
    BY <1>4 DEF AtMost
  <2>2. From(b, Len(b)) = <<>> /\ Start(<<>>, r)
    BY <1>0, NothingLeft, Zenon
  <2> QED
    BY <1>1, <1>2, <1>4, <2>1, <2>2, Zenon
<1> QED
  BY <1>2, <1>3, <1>4

\* encodeString, readString: a string without a null comes back; if its bytes
\* were cut, readString fails or the cut was in the padding.
LEMMA StringBack ==
  ASSUME NEW s \in Seq(Byte \ {0}), NEW r \in Seq(Byte), NEW b,
         Start(b, encodeString(s) \o r)
  PROVE  ReadsBack(readString(b), b, encodeString(s) \o r, s, r)
<1>0. s \in Seq(Byte) /\ b \in Seq(Byte)
  BY BytesWithoutNull DEF Start
<1>1. PICK e \in Seq(Byte) : /\ e = encodeString(s)
                             /\ Len(e) = pad4(Len(s) + 1)
                             /\ Len(s) < Len(e)
                             /\ \A k \in 1..Len(s) : e[k] = s[k]
                             /\ e[Len(s) + 1] = 0
  BY <1>0, StringBytes, Zenon
<1>2. Start(b, e \o r)
  BY <1>1, Zenon
<1>3. PICK l \in Nat, n \in Nat, p \in Nat : l = Len(s) /\ n = Len(b) /\ p = Len(e) /\ l < p
  BY <1>0, <1>1, LenProperties
<1>4. /\ \A k \in 1..Len(b) : k <= Len(e) => b[k] = e[k]
      /\ Len(b) < Len(e) => b # e \o r
  <2>1. /\ \A k \in 1..Len(b) : k <= Len(e) => b[k] = e[k]
        /\ Len(b) >= Len(e) =>
             /\ Start(From(b, Len(e)), r)
             /\ b = e \o From(b, Len(e))
             /\ b = e \o r => From(b, Len(e)) = r
        /\ Len(b) < Len(e) => b # e \o r
    BY <1>2, StartBehind, Zenon
  <2> QED
    BY <2>1, Zenon
<1>5. \A k \in 1..Len(s) : s[k] # 0
  <2>1. \A k \in 1..Len(s) : s[k] \in Byte \ {0}
    BY ElementOfSeq
  <2> QED
    BY <2>1
<1>6. \A k \in 1..n : k <= l => b[k] = s[k] /\ b[k] # 0
  <2>1. \A k \in 1..n : k <= l => k \in 1..Len(b) /\ k <= Len(e) /\ k \in 1..Len(s)
    BY <1>3
  <2> QED
    BY <1>1, <1>4, <1>5, <2>1, Zenon
<1>7. CASE n <= l
  <2>1. \A k \in 1..Len(b) : b[k] # 0
    <3>1. \A k \in 1..Len(b) : k \in 1..n /\ k <= l
      BY <1>3, <1>7
    <3> QED
      BY <1>6, <3>1, Zenon
  <2>2. readString(b) = Unreadable
    BY <1>0, <2>1, NoNull, Zenon
  <2>3. Len(b) < Len(e)
    BY <1>3, <1>7
  <2> QED
    BY <1>1, <1>4, <2>2, <2>3, Zenon DEF ReadsBack
<1>8. CASE n > l
  <2>1. l + 1 \in 1..Len(b) /\ l + 1 <= Len(e)
    BY <1>3, <1>8
  <2>2. b[l + 1] = 0
    BY <1>1, <1>3, <1>4, <2>1, Zenon
  <2>3. \A k \in 1..Len(b) : k < l + 1 => b[k] # 0
    <3>1. \A k \in 1..Len(b) : k < l + 1 => k \in 1..n /\ k <= l
      BY <1>3
    <3> QED
      BY <1>6, <3>1, Zenon
  <2>4. readString(b) = Reads(Upto(b, (l + 1) - 1), From(b, AtMost(pad4(l + 1), Len(b))))
    BY <1>0, <2>1, <2>2, <2>3, FirstNull, Zenon
  <2>5. Upto(b, (l + 1) - 1) = s
    <3>1. (l + 1) - 1 = l /\ l <= Len(b)
      BY <1>3, <1>8
    <3>2. PICK u \in Seq(Byte) : u = Upto(b, l) /\ Len(u) = l /\ \A k \in 1..l : u[k] = b[k]
      BY <1>0, <3>1, SlicedBytes, Zenon
    <3>3. \A k \in 1..Len(u) : u[k] = s[k]
      <4>1. \A k \in 1..Len(u) : k \in 1..l /\ k \in 1..n /\ k <= l
        BY <1>8, <3>2
      <4> QED
        BY <1>6, <3>2, <4>1, Zenon
    <3>4. Len(u) = Len(s)
      BY <1>3, <3>2, Zenon
    <3>5. u = s
      BY <1>0, <3>3, <3>4, SameBytes, Zenon
    <3> QED
      BY <3>1, <3>2, <3>5, Zenon
  <2>6. pad4(l + 1) = p
    BY <1>1, <1>3, Zenon
  <2>7. PICK q : /\ q = From(b, AtMost(p, Len(b)))
                 /\ Start(q, r)
                 /\ b = e \o r => q = r
    <3>1. /\ Start(From(b, AtMost(Len(e), Len(b))), r)
          /\ b = e \o r => From(b, AtMost(Len(e), Len(b))) = r
      BY <1>2, SkipBack, Zenon
    <3> QED
      BY <1>3, <3>1, Zenon
  <2>8. readString(b) = Reads(s, q)
    BY <2>4, <2>5, <2>6, <2>7, Zenon
  <2> QED
    BY <1>1, <2>7, <2>8, Zenon DEF ReadsBack
<1> QED
  BY <1>3, <1>7, <1>8

\* The first four bytes.
LEMMA FirstFour ==
  ASSUME NEW e \in Seq(Byte), Len(e) = 4, NEW r \in Seq(Byte), NEW b,
         Start(b, e \o r)
  PROVE  /\ Len(b) < 4 => b # e \o r
         /\ ~(Len(b) < 4) => /\ Upto(b, 4) = e
                             /\ AsInt32(b) = AsInt32(e)
                             /\ b[1] = e[1]
                             /\ Start(From(b, 4), r)
                             /\ b = e \o r => From(b, 4) = r
<1>0. b \in Seq(Byte)
  BY Zenon DEF Start
<1>1. /\ \A k \in 1..Len(b) : k <= Len(e) => b[k] = e[k]
      /\ Len(b) >= Len(e) =>
           /\ Start(From(b, Len(e)), r)
           /\ b = e \o From(b, Len(e))
           /\ b = e \o r => From(b, Len(e)) = r
      /\ Len(b) < Len(e) => b # e \o r
  BY StartBehind, Zenon
<1>2. PICK n \in Nat : n = Len(b)
  BY <1>0, LenProperties
<1>3. ASSUME ~(n < 4)
      PROVE  Upto(b, 4) = e /\ AsInt32(b) = AsInt32(e) /\ b[1] = e[1]
  <2>1. \A k \in 1..4 : b[k] = e[k]
    <3>1. \A k \in 1..4 : k \in 1..Len(b) /\ k <= 4
      BY <1>2, <1>3
    <3> QED
      BY <1>1, <3>1, Zenon
  <2>2. b[1] = e[1] /\ b[2] = e[2] /\ b[3] = e[3] /\ b[4] = e[4]
    BY <2>1
  <2>3. AsInt32(b) = AsInt32(e)
    BY <2>2, SMT DEF AsInt32
  <2>4. PICK u \in Seq(Byte) : u = Upto(b, 4) /\ Len(u) = 4 /\ \A k \in 1..4 : u[k] = b[k]
    <3>1. 4 \in Nat /\ 4 <= Len(b)
      BY <1>2, <1>3
    <3> QED
      BY <1>0, <3>1, SlicedBytes, Zenon
  <2>5. u = e
    <3>1. Len(u) = Len(e) /\ \A k \in 1..Len(u) : u[k] = e[k]
      BY <2>1, <2>4, Zenon
    <3> QED
      BY <3>1, SameBytes, Zenon
  <2> QED
    BY <2>2, <2>3, <2>4, <2>5, Zenon
<1>4. ~(n < 4) => Len(b) >= Len(e)
  BY <1>2
<1>5. n < 4 => Len(b) < Len(e)
  BY <1>2
<1> QED
  BY <1>1, <1>2, <1>3, <1>4, <1>5, Zenon

\* appendInt32, readInt32: an integer comes back.
LEMMA IntegerBack ==
  ASSUME NEW v \in Int32, NEW r \in Seq(Byte), NEW b, Start(b, appendInt32(v) \o r)
  PROVE  ReadsBack(readInt32(b), b, appendInt32(v) \o r, v, r)
<1>1. PICK e \in Seq(Byte) : e = appendInt32(v) /\ Len(e) = 4 /\ AsInt32(e) = v
  BY WordBytes, Zenon
<1>2. Start(b, e \o r)
  BY <1>1, Zenon
<1>3. /\ Len(b) < 4 => b # e \o r
      /\ ~(Len(b) < 4) => /\ Upto(b, 4) = e
                          /\ AsInt32(b) = AsInt32(e)
                          /\ b[1] = e[1]
                          /\ Start(From(b, 4), r)
                          /\ b = e \o r => From(b, 4) = r
  BY <1>1, <1>2, FirstFour, Zenon
<1>4. readInt32(b) = IF Len(b) < 4 THEN Unreadable ELSE Reads(AsInt32(b), From(b, 4))
  BY Zenon DEF readInt32
<1> QED
  BY <1>1, <1>3, <1>4, Zenon DEF ReadsBack

\* readFloat32: the bits of a float come back.
LEMMA FloatBack ==
  ASSUME NEW f \in [1..4 -> Byte], NEW r \in Seq(Byte), NEW b, Start(b, f \o r)
  PROVE  /\ f \in Seq(Byte)
         /\ ReadsBack(readFloat32(b), b, f \o r, f, r)
<1>1. f \in Seq(Byte) /\ Len(f) = 4
  <2>1. f \in Seq(Byte)
    <3>1. \A n \in Nat : [1..n -> Byte] \subseteq Seq(Byte)
      BY SeqDef
    <3>2. 4 \in Nat
      OBVIOUS
    <3> QED
      BY <3>1, <3>2, Zenon
  <2> QED
    BY <2>1, LenProperties
<1>3. /\ Len(b) < 4 => b # f \o r
      /\ ~(Len(b) < 4) => /\ Upto(b, 4) = f
                          /\ AsInt32(b) = AsInt32(f)
                          /\ b[1] = f[1]
                          /\ Start(From(b, 4), r)
                          /\ b = f \o r => From(b, 4) = r
  BY <1>1, FirstFour, Zenon
<1>4. readFloat32(b) = IF Len(b) < 4 THEN Unreadable ELSE Reads(Upto(b, 4), From(b, 4))
  BY Zenon DEF readFloat32
<1> QED
  BY <1>1, <1>3, <1>4, Zenon DEF ReadsBack

\* The length of what fits into a datagram is an int32.
LEMMA LengthIsInt32 ==
  ASSUME NEW n \in Nat, n <= Datagram
  PROVE  n \in Int32 /\ ~(n < 0)
BY SMT DEF Int32, Datagram

\* The head of what is written with its size: the size, and what follows.
LEMMA SizeBack ==
  ASSUME NEW x \in Seq(Byte), Len(x) <= Datagram, NEW y \in Seq(Byte), NEW b,
         Start(b, appendInt32(Len(x)) \o y)
  PROVE  /\ appendInt32(Len(x)) \in Seq(Byte)
         /\ Len(b) < 4 => b # appendInt32(Len(x)) \o y
         /\ ~(Len(b) < 4) => /\ AsInt32(b) = Len(x)
                             /\ Misfit(b) <=> Len(From(b, 4)) < Len(x)
                             /\ Start(From(b, 4), y)
                             /\ b = appendInt32(Len(x)) \o y => From(b, 4) = y
<1>0. b \in Seq(Byte)
  BY Zenon DEF Start
<1>1. PICK l \in Nat, n \in Nat : l = Len(x) /\ n = Len(b)
  BY <1>0, LenProperties
<1>2. l \in Int32 /\ ~(l < 0)
  BY <1>1, LengthIsInt32, Zenon
<1>3. PICK e \in Seq(Byte) : /\ e = appendInt32(l) /\ Len(e) = 4
                             /\ (e[1] >= 128) <=> l < 0
                             /\ AsInt32(e) = l
  BY <1>2, WordBytes, Zenon
<1>4. Start(b, e \o y)
  BY <1>1, <1>3, Zenon
<1>5. /\ Len(b) < 4 => b # e \o y
      /\ ~(Len(b) < 4) => /\ Upto(b, 4) = e
                          /\ AsInt32(b) = AsInt32(e)
                          /\ b[1] = e[1]
                          /\ Start(From(b, 4), y)
                          /\ b = e \o y => From(b, 4) = y
  BY <1>3, <1>4, FirstFour, ZenonT(40)
<1>6. ASSUME ~(Len(b) < 4)
      PROVE  Misfit(b) <=> Len(From(b, 4)) < Len(x)
  <2>1. 4 \in Nat /\ 4 <= Len(b)
    BY <1>1, <1>6
  <2>2. Len(From(b, 4)) = n - 4
    BY <1>0, <1>1, <2>1, SlicedBytes, Zenon
  <2>3. Misfit(b) <=> l > n - 4
    <3>1. ~(b[1] >= 128)
      BY <1>2, <1>3, <1>5, <1>6, Zenon
    <3>2. AsInt32(b) = l
      BY <1>3, <1>5, <1>6, Zenon
    <3> QED
      BY <1>1, <3>1, <3>2, Zenon DEF Misfit
  <2>4. l > n - 4 <=> n - 4 < l
    BY <1>1
  <2> QED
    BY <1>1, <2>2, <2>3, <2>4, Zenon
<1> QED
  BY <1>1, <1>3, <1>5, <1>6, Zenon

\* appendBlob: the size, the bytes, the padding.
LEMMA BlobBytes ==
  ASSUME NEW x \in Seq(Byte), Len(x) <= Datagram
  PROVE  \E p \in Seq(Byte) :
           /\ appendBlob(x) = appendInt32(Len(x)) \o p
           /\ appendBlob(x) \in Seq(Byte)
           /\ appendInt32(Len(x)) \in Seq(Byte)
           /\ Len(p) = pad4(Len(x))
           /\ Len(x) <= Len(p)
           /\ \A k \in 1..Len(x) : p[k] = x[k]
<1>1. PICK l \in Nat : l = Len(x)
  BY LenProperties
<1>2. PICK n \in Nat : n = pad4(l) /\ l <= n /\ n - l \in Nat
  BY <1>1, PadBounds
<1>3. PICK z \in Seq(Byte) : z = Zeros(n - l) /\ Len(z) = n - l
  BY <1>2, ZeroBytes, Zenon
<1>4. l \in Int32
  BY <1>1, LengthIsInt32, Zenon
<1>5. PICK e \in Seq(Byte) : e = appendInt32(l)
  BY <1>4, WordBytes, Zenon
<1>6. appendBlob(x) = (e \o x) \o z
  BY <1>1, <1>2, <1>3, <1>5, Zenon DEF appendBlob
<1>7. (e \o x) \o z = e \o (x \o z)
  BY JoinAssociates, Zenon
<1>8. PICK p \in Seq(Byte) : /\ p = x \o z
                             /\ Len(p) = Len(x) + Len(z)
                             /\ \A k \in 1..Len(x) : p[k] = x[k]
  BY JoinedBytes, Zenon
<1>9. e \o p \in Seq(Byte)
  BY JoinedBytes, Zenon
<1>10. Len(p) = n /\ Len(x) <= n
  <2>1. Len(p) = l + (n - l)
    BY <1>1, <1>3, <1>8, Zenon
  <2>2. l + (n - l) = n
    BY <1>2
  <2> QED
    BY <1>1, <1>2, <2>1, <2>2, Zenon
<1> QED
  BY <1>1, <1>2, <1>5, <1>6, <1>7, <1>8, <1>9, <1>10, Zenon

\* appendBlob, readBlob: a blob comes back; if its bytes were cut, readBlob
\* fails or the cut was in the padding.
LEMMA BlobBack ==
  ASSUME NEW x \in Seq(Byte), Len(x) <= Datagram, NEW r \in Seq(Byte), NEW b,
         Start(b, appendBlob(x) \o r)
  PROVE  ReadsBack(readBlob(b), b, appendBlob(x) \o r, x, r)
<1>0. b \in Seq(Byte)
  BY Zenon DEF Start
<1>1. PICK p \in Seq(Byte) :
           /\ appendBlob(x) = appendInt32(Len(x)) \o p
           /\ appendInt32(Len(x)) \in Seq(Byte)
           /\ Len(p) = pad4(Len(x))
           /\ Len(x) <= Len(p)
           /\ \A k \in 1..Len(x) : p[k] = x[k]
  BY BlobBytes, Zenon
<1>2. appendBlob(x) \o r = appendInt32(Len(x)) \o (p \o r)
  <2>1. PICK e \in Seq(Byte) : e = appendInt32(Len(x))
    BY <1>1, Zenon
  <2>2. (e \o p) \o r = e \o (p \o r)
    BY JoinAssociates, Zenon
  <2> QED
    BY <1>1, <2>1, <2>2, Zenon
<1>3. PICK y \in Seq(Byte) : y = p \o r
  BY JoinedBytes, Zenon
<1>4. /\ Len(b) < 4 => b # appendInt32(Len(x)) \o y
      /\ ~(Len(b) < 4) => /\ AsInt32(b) = Len(x)
                          /\ Misfit(b) <=> Len(From(b, 4)) < Len(x)
                          /\ Start(From(b, 4), y)
                          /\ b = appendInt32(Len(x)) \o y => From(b, 4) = y
  <2>1. Start(b, appendInt32(Len(x)) \o y)
    BY <1>2, <1>3, Zenon
  <2> QED
    BY <2>1, SizeBack, Zenon
<1>5. CASE Len(b) < 4
  <2>1. readBlob(b) = Unreadable
    BY <1>5, Zenon DEF readBlob
  <2> QED
    BY <1>2, <1>3, <1>4, <1>5, <2>1, Zenon DEF ReadsBack
<1>6. CASE ~(Len(b) < 4)
  <2>1. PICK d \in Seq(Byte) : d = From(b, 4) /\ Start(d, y)
    BY <1>4, <1>6, Zenon DEF Start
  <2>2. PICK l \in Nat, n \in Nat, m \in Nat : l = Len(x) /\ n = Len(d) /\ m = Len(p)
    BY LenProperties
  <2>3. /\ \A k \in 1..Len(d) : k <= Len(p) => d[k] = p[k]
        /\ Len(d) >= Len(p) =>
             /\ Start(From(d, Len(p)), r)
             /\ d = p \o From(d, Len(p))
             /\ d = p \o r => From(d, Len(p)) = r
        /\ Len(d) < Len(p) => d # p \o r
    <3>1. Start(d, p \o r)
      BY <1>3, <2>1, Zenon
    <3> QED
      BY <3>1, StartBehind, Zenon
  <2>4. CASE n < l
    <3>1. readBlob(b) = Unreadable
      <4>1. Misfit(b)
        BY <1>4, <1>6, <2>1, <2>2, <2>4, Zenon
      <4> QED
        BY <4>1, Zenon DEF readBlob
    <3>2. Len(d) < Len(p)
      BY <1>1, <2>2, <2>4
    <3>3. d # y
      BY <1>3, <2>3, <3>2, Zenon
    <3> QED
      BY <1>2, <1>3, <1>4, <1>6, <2>1, <3>1, <3>3, Zenon DEF ReadsBack
  <2>5. CASE ~(n < l)
    <3>1. readBlob(b) = Reads(Upto(d, l), From(d, AtMost(pad4(l), Len(d))))
      <4>1. ~Misfit(b) /\ AsInt32(b) = l
        BY <1>4, <1>6, <2>1, <2>2, <2>5, Zenon
      <4> QED
        BY <1>6, <2>1, <4>1, Zenon DEF readBlob
    <3>2. Upto(d, l) = x
      <4>1. l <= Len(d)
        BY <2>2, <2>5
      <4>2. PICK u \in Seq(Byte) : u = Upto(d, l) /\ Len(u) = l /\ \A k \in 1..l : u[k] = d[k]
        BY <4>1, SlicedBytes, Zenon
      <4>3. \A k \in 1..Len(u) : u[k] = x[k]
        <5>1. \A k \in 1..Len(u) : /\ k \in 1..l /\ k \in 1..Len(d)
                                   /\ k <= Len(p) /\ k \in 1..Len(x)
          BY <1>1, <2>2, <2>5, <4>2
        <5> QED
          BY <1>1, <2>3, <4>2, <5>1, Zenon
      <4>4. Len(u) = Len(x)
        BY <2>2, <4>2, Zenon
      <4> QED
        BY <4>2, <4>3, <4>4, SameBytes, Zenon
    <3>3. PICK q : /\ q = From(d, AtMost(Len(p), Len(d)))
                   /\ Start(q, r)
                   /\ d = p \o r => q = r
      <4>1. Start(d, p \o r)
        BY <1>3, <2>1, Zenon
      <4>2. /\ Start(From(d, AtMost(Len(p), Len(d))), r)
            /\ d = p \o r => From(d, AtMost(Len(p), Len(d))) = r
        BY <4>1, SkipBack, Zenon
      <4> QED
        BY <4>2, Zenon
    <3>4. readBlob(b) = Reads(x, q)
      BY <1>1, <2>2, <3>1, <3>2, <3>3, Zenon
    <3> QED
      BY <1>2, <1>3, <1>4, <1>6, <2>1, <3>3, <3>4, Zenon DEF ReadsBack
  <2> QED
    BY <2>4, <2>5
<1> QED
  BY <1>5, <1>6

\* What a turn of the loop makes of what starts with the encoding of a value.
ValueBack(m, a, b, args, r) ==
  \/ m.st = "error" /\ b # BodyOf(a) \o r
  \/ \E q : /\ m = [st |-> "ok", args |-> Append(args, WireValue(a)), rest |-> q]
            /\ Start(q, r)
            /\ b = BodyOf(a) \o r => q = r

\* A turn of the loop takes what its reader brings back.
LEMMA TakenBack ==
  ASSUME NEW a, NEW args, NEW b, NEW r, NEW read,
         ReadsBack(read, b, BodyOf(a) \o r, WireValue(a)[2], r),
         WireValue(a) = <<WireValue(a)[1], WireValue(a)[2]>>,
         WireValue(a)[1] \in {"string", "blob"} => WireValue(a)[2] \in Seq(Byte)
  PROVE  ValueBack(Taken([st |-> "ok", args |-> args, rest |-> b],
                         WireValue(a)[1], read), a, b, args, r)
<1>1. PICK m : m = [st |-> "ok", args |-> args, rest |-> b]
  OBVIOUS
<1>2. CASE read = Unreadable /\ b # BodyOf(a) \o r
  <2>1. ~read.ok
    BY <1>2 DEF Unreadable
  <2>2. Taken(m, WireValue(a)[1], read) = [m EXCEPT !.st = "error"]
    BY <2>1, Zenon DEF Taken
  <2>3. [m EXCEPT !.st = "error"].st = "error"
    BY <1>1
  <2> QED
    BY <1>1, <1>2, <2>2, <2>3, Zenon DEF ValueBack
<1>3. ASSUME NEW q, read = Reads(WireValue(a)[2], q), Start(q, r),
             b = BodyOf(a) \o r => q = r
      PROVE  ValueBack(Taken(m, WireValue(a)[1], read), a, b, args, r)
  <2>1. read.ok /\ read.val = WireValue(a)[2] /\ read.rest = q
    BY <1>3 DEF Reads
  <2>2. q # Beyond
    BY <1>3, BeyondIsNoPacket, Zenon DEF Start
  <2>3. WireValue(a)[1] \in {"string", "blob"} => WireValue(a)[2] # Beyond
    BY BeyondIsNoPacket, Zenon
  <2>4. Taken(m, WireValue(a)[1], read)
          = [st |-> "ok",
             args |-> Append(m.args, <<WireValue(a)[1], WireValue(a)[2]>>),
             rest |-> q]
    BY <2>1, <2>2, <2>3, Zenon DEF Taken
  <2>5. m.args = args
    BY <1>1
  <2>6. Taken(m, WireValue(a)[1], read)
          = [st |-> "ok", args |-> Append(args, WireValue(a)), rest |-> q]
    BY <2>4, <2>5, Zenon
  <2> QED
    BY <1>3, <2>6, Zenon DEF ValueBack
<1> QED
  BY <1>1, <1>2, <1>3, Zenon DEF ReadsBack

\* The value v is encoded as body, and announced by tag.
Encoded(a, tag, type, v, body) ==
  TagOf(a) = tag /\ WireValue(a) = <<type, v>> /\ BodyOf(a) = body

\* How each kind of value is encoded.
Kinds(a, v) ==
  \/ Encoded(a, 105, "int32", v, appendInt32(v)) /\ v \in Int32
  \/ Encoded(a, 102, "float32", v, v) /\ v \in [1..4 -> Byte]
  \/ Encoded(a, 115, "string", v, encodeString(v)) /\ v \in Seq(Byte \ {0})
  \/ Encoded(a, 98, "blob", v, appendBlob(v)) /\ v \in Seq(Byte) /\ Len(v) <= Datagram
  \/ Encoded(a, 84, "bool", v, <<>>) /\ v = TRUE
  \/ Encoded(a, 70, "bool", v, <<>>) /\ v = FALSE
  \/ Encoded(a, 78, "nil", v, <<>>) /\ v = <<>>

\* encodeMessage: every value is of one of these kinds.
LEMMA ValueKinds ==
  ASSUME NEW a \in Value
  PROVE  Kinds(a, a[2])
<1>1. CASE a \in Integer \X Int32
  <2>0. a[1] \in Integer /\ a[2] \in Int32
    BY <1>1
  <2>1. /\ a[1] \in Integer /\ a[2] \in Int32 /\ a[1] \notin Float
        /\ a[1] # "string" /\ a[1] # "blob" /\ a[1] # "bool"
    BY <2>0 DEF Float, Integer
  <2>2. TagOf(a) = 105
    BY <2>1 DEF TagOf
  <2>3. BodyOf(a) = appendInt32(a[2])
    BY <2>1 DEF BodyOf
  <2>4. WireValue(a) = <<"int32", a[2]>>
    BY <2>1 DEF WireValue
  <2> QED
    BY <2>1, <2>2, <2>3, <2>4, Zenon DEF Kinds, Encoded
<1>2. CASE a \in Float \X [1..4 -> Byte]
  <2>0. a[1] \in Float /\ a[2] \in [1..4 -> Byte]
    BY <1>2
  <2>1. /\ a[1] \in Float /\ a[2] \in [1..4 -> Byte] /\ a[1] \notin Integer
        /\ a[1] # "string" /\ a[1] # "blob" /\ a[1] # "bool"
    BY <2>0 DEF Float, Integer
  <2>2. TagOf(a) = 102
    BY <2>1 DEF TagOf
  <2>3. BodyOf(a) = a[2]
    BY <2>1 DEF BodyOf
  <2>4. WireValue(a) = <<"float32", a[2]>>
    BY <2>1 DEF WireValue
  <2> QED
    BY <2>1, <2>2, <2>3, <2>4, Zenon DEF Kinds, Encoded
<1>3. CASE a \in {"string"} \X Seq(Byte \ {0})
  <2>1. a[1] = "string" /\ a[2] \in Seq(Byte \ {0})
    BY <1>3
  <2>2. a[1] \notin Integer /\ a[1] \notin Float
    BY <2>1 DEF Float, Integer
  <2>3. TagOf(a) = 115
    BY <2>1, <2>2 DEF TagOf
  <2>4. BodyOf(a) = encodeString(a[2])
    BY <2>1, <2>2 DEF BodyOf
  <2>5. WireValue(a) = <<"string", a[2]>>
    BY <2>1, <2>2 DEF WireValue
  <2> QED
    BY <2>1, <2>3, <2>4, <2>5, Zenon DEF Kinds, Encoded
<1>4. CASE a \in {"blob"} \X {x \in Seq(Byte) : Len(x) <= Datagram}
  <2>1. a[1] = "blob" /\ a[2] \in Seq(Byte) /\ Len(a[2]) <= Datagram
    BY <1>4
  <2>2. a[1] \notin Integer /\ a[1] \notin Float /\ a[1] # "string"
    BY <2>1 DEF Float, Integer
  <2>3. TagOf(a) = 98
    BY <2>1, <2>2 DEF TagOf
  <2>4. BodyOf(a) = appendBlob(a[2])
    BY <2>1, <2>2 DEF BodyOf
  <2>5. WireValue(a) = <<"blob", a[2]>>
    BY <2>1, <2>2 DEF WireValue
  <2> QED
    BY <2>1, <2>3, <2>4, <2>5, Zenon DEF Kinds, Encoded
<1>5. CASE a \in {"bool"} \X BOOLEAN
  <2>1. a[1] = "bool" /\ a[2] \in {TRUE, FALSE}
    BY <1>5
  <2>2. a[1] \notin Integer /\ a[1] \notin Float /\ a[1] # "string" /\ a[1] # "blob"
    BY <2>1 DEF Float, Integer
  <2>3. TagOf(a) = IF a[2] THEN 84 ELSE 70
    BY <2>1, <2>2 DEF TagOf
  <2>4. BodyOf(a) = <<>>
    BY <2>1, <2>2 DEF BodyOf
  <2>5. WireValue(a) = <<"bool", a[2]>>
    BY <2>1, <2>2 DEF WireValue
  <2>6. CASE a[2] = TRUE
    BY <2>3, <2>4, <2>5, <2>6, Zenon DEF Kinds, Encoded
  <2>7. CASE a[2] = FALSE
    BY <2>3, <2>4, <2>5, <2>7, Zenon DEF Kinds, Encoded
  <2> QED
    BY <2>1, <2>6, <2>7, Zenon
<1>6. CASE a = <<"nil", <<>> >>
  <2>1. a[1] = "nil" /\ a[2] = <<>>
    BY <1>6
  <2>2. a[1] \notin Integer /\ a[1] \notin Float /\ a[1] # "string" /\ a[1] # "blob"
        /\ a[1] # "bool"
    BY <2>1 DEF Float, Integer
  <2>3. TagOf(a) = 78
    BY <2>2 DEF TagOf
  <2>4. BodyOf(a) = <<>>
    BY <2>2 DEF BodyOf
  <2>5. WireValue(a) = <<"nil", <<>> >>
    BY <2>1, <2>2 DEF WireValue
  <2> QED
    BY <2>1, <2>3, <2>4, <2>5, Zenon DEF Kinds, Encoded
<1> QED
  BY <1>1, <1>2, <1>3, <1>4, <1>5, <1>6, Zenon DEF Value

\* A value that takes no bytes.
LEMMA BodilessBack ==
  ASSUME NEW v, NEW r \in Seq(Byte), NEW b, Start(b, <<>> \o r)
  PROVE  ReadsBack(Reads(v, b), b, <<>> \o r, v, r)
<1>1. <<>> \o r = r
  BY ConcatEmptySeq
<1> QED
  BY <1>1, Zenon DEF ReadsBack

\* What a turn of the loop reads.
TurnReads(m, a, b, r, type, v, read) ==
  /\ WireValue(a) = <<type, v>>
  /\ Argument(m, TagOf(a)) = Taken(m, type, read)
  /\ ReadsBack(read, b, BodyOf(a) \o r, v, r)
  /\ type \in {"string", "blob"} => v \in Seq(Byte)

\* decodeMessage, encodeMessage: a turn of the loop reads the value that was
\* written, and leaves what was written behind it; if its bytes were cut, it
\* reports an error.
LEMMA ArgumentBack ==
  ASSUME NEW a \in Value, NEW args, NEW r \in Seq(Byte), NEW b,
         Start(b, BodyOf(a) \o r)
  PROVE  ValueBack(Argument([st |-> "ok", args |-> args, rest |-> b], TagOf(a)),
                   a, b, args, r)
<1>1. PICK m, v : m = [st |-> "ok", args |-> args, rest |-> b] /\ v = a[2]
  OBVIOUS
<1>2. m.st = "ok" /\ m.rest = b
  BY <1>1
<1>3. /\ Argument(m, 105) = Taken(m, "int32", readInt32(b))
      /\ Argument(m, 102) = Taken(m, "float32", readFloat32(b))
      /\ Argument(m, 115) = Taken(m, "string", readString(b))
      /\ Argument(m, 98) = Taken(m, "blob", readBlob(b))
      /\ Argument(m, 84) = Taken(m, "bool", Reads(TRUE, b))
      /\ Argument(m, 70) = Taken(m, "bool", Reads(FALSE, b))
      /\ Argument(m, 78) = Taken(m, "nil", Reads(<<>>, b))
  BY <1>2 DEF Argument, Taken
<1>4. \A type, val, read : TurnReads(m, a, b, r, type, val, read)
                             => ValueBack(Argument(m, TagOf(a)), a, b, args, r)
  <2> SUFFICES ASSUME NEW type, NEW val, NEW read,
                      TurnReads(m, a, b, r, type, val, read)
               PROVE  ValueBack(Argument(m, TagOf(a)), a, b, args, r)
    BY Zenon
  <2>0. /\ WireValue(a) = <<type, val>>
        /\ Argument(m, TagOf(a)) = Taken(m, type, read)
        /\ ReadsBack(read, b, BodyOf(a) \o r, val, r)
        /\ type \in {"string", "blob"} => val \in Seq(Byte)
    BY Zenon DEF TurnReads
  <2>1. WireValue(a)[1] = type /\ WireValue(a)[2] = val
    BY <2>0
  <2>2. /\ ReadsBack(read, b, BodyOf(a) \o r, WireValue(a)[2], r)
        /\ WireValue(a) = <<WireValue(a)[1], WireValue(a)[2]>>
        /\ WireValue(a)[1] \in {"string", "blob"} => WireValue(a)[2] \in Seq(Byte)
    BY <2>0, <2>1, Zenon
  <2>3. ValueBack(Taken([st |-> "ok", args |-> args, rest |-> b],
                        WireValue(a)[1], read), a, b, args, r)
    BY <2>2, TakenBack, Zenon
  <2> QED
    BY <1>1, <2>0, <2>1, <2>3, Zenon
<1>5. CASE Encoded(a, 105, "int32", v, appendInt32(v)) /\ v \in Int32
  <2>1. TagOf(a) = 105 /\ WireValue(a) = <<"int32", v>> /\ BodyOf(a) = appendInt32(v)
    BY <1>5, Zenon DEF Encoded
  <2>2. ReadsBack(readInt32(b), b, BodyOf(a) \o r, v, r)
    <3>1. Start(b, appendInt32(v) \o r)
      BY <2>1, Zenon
    <3>2. ReadsBack(readInt32(b), b, appendInt32(v) \o r, v, r)
      BY <1>5, <3>1, IntegerBack
    <3> QED
      BY <2>1, <3>2, Zenon
  <2>3. Argument(m, TagOf(a)) = Taken(m, "int32", readInt32(b))
    BY <1>3, <2>1, Zenon
  <2>4. "int32" \in {"string", "blob"} => v \in Seq(Byte)
    OBVIOUS
  <2>5. TurnReads(m, a, b, r, "int32", v, readInt32(b))
    BY <2>1, <2>2, <2>3, <2>4, Zenon DEF TurnReads
  <2> QED
    BY <1>1, <1>4, <2>5, Zenon
<1>6. CASE Encoded(a, 102, "float32", v, v) /\ v \in [1..4 -> Byte]
  <2>1. TagOf(a) = 102 /\ WireValue(a) = <<"float32", v>> /\ BodyOf(a) = v
    BY <1>6, Zenon DEF Encoded
  <2>2. ReadsBack(readFloat32(b), b, BodyOf(a) \o r, v, r)
    <3>1. Start(b, v \o r)
      BY <2>1, Zenon
    <3>2. ReadsBack(readFloat32(b), b, v \o r, v, r)
      BY <1>6, <3>1, FloatBack
    <3> QED
      BY <2>1, <3>2, Zenon
  <2>3. Argument(m, TagOf(a)) = Taken(m, "float32", readFloat32(b))
    BY <1>3, <2>1, Zenon
  <2>4. "float32" \in {"string", "blob"} => v \in Seq(Byte)
    OBVIOUS
  <2>5. TurnReads(m, a, b, r, "float32", v, readFloat32(b))
    BY <2>1, <2>2, <2>3, <2>4, Zenon DEF TurnReads
  <2> QED
    BY <1>1, <1>4, <2>5, Zenon
<1>7. CASE Encoded(a, 115, "string", v, encodeString(v)) /\ v \in Seq(Byte \ {0})
  <2>1. TagOf(a) = 115 /\ WireValue(a) = <<"string", v>> /\ BodyOf(a) = encodeString(v)
    BY <1>7, Zenon DEF Encoded
  <2>2. ReadsBack(readString(b), b, BodyOf(a) \o r, v, r)
    <3>1. Start(b, encodeString(v) \o r)
      BY <2>1, Zenon
    <3>2. ReadsBack(readString(b), b, encodeString(v) \o r, v, r)
      BY <1>7, <3>1, StringBack
    <3> QED
      BY <2>1, <3>2, Zenon
  <2>3. Argument(m, TagOf(a)) = Taken(m, "string", readString(b))
    BY <1>3, <2>1, Zenon
  <2>4. "string" \in {"string", "blob"} => v \in Seq(Byte)
    BY <1>7, BytesWithoutNull, Zenon
  <2>5. TurnReads(m, a, b, r, "string", v, readString(b))
    BY <2>1, <2>2, <2>3, <2>4, Zenon DEF TurnReads
  <2> QED
    BY <1>1, <1>4, <2>5, Zenon
<1>8. CASE Encoded(a, 98, "blob", v, appendBlob(v))
               /\ v \in Seq(Byte) /\ Len(v) <= Datagram
  <2>1. TagOf(a) = 98 /\ WireValue(a) = <<"blob", v>> /\ BodyOf(a) = appendBlob(v)
    BY <1>8, Zenon DEF Encoded
  <2>2. ReadsBack(readBlob(b), b, BodyOf(a) \o r, v, r)
    <3>1. Start(b, appendBlob(v) \o r)
      BY <2>1, Zenon
    <3>2. ReadsBack(readBlob(b), b, appendBlob(v) \o r, v, r)
      BY <1>8, <3>1, BlobBack
    <3> QED
      BY <2>1, <3>2, Zenon
  <2>3. Argument(m, TagOf(a)) = Taken(m, "blob", readBlob(b))
    BY <1>3, <2>1, Zenon
  <2>4. "blob" \in {"string", "blob"} => v \in Seq(Byte)
    BY <1>8, Zenon
  <2>5. TurnReads(m, a, b, r, "blob", v, readBlob(b))
    BY <2>1, <2>2, <2>3, <2>4, Zenon DEF TurnReads
  <2> QED
    BY <1>1, <1>4, <2>5, Zenon
<1>9. CASE Encoded(a, 84, "bool", v, <<>>) /\ v = TRUE
  <2>1. TagOf(a) = 84 /\ WireValue(a) = <<"bool", TRUE>> /\ BodyOf(a) = <<>>
    BY <1>9, Zenon DEF Encoded
  <2>2. ReadsBack(Reads(TRUE, b), b, BodyOf(a) \o r, TRUE, r)
    BY <2>1, BodilessBack, Zenon
  <2>3. Argument(m, TagOf(a)) = Taken(m, "bool", Reads(TRUE, b))
    BY <1>3, <2>1, Zenon
  <2>4. "bool" \in {"string", "blob"} => TRUE \in Seq(Byte)
    OBVIOUS
  <2>5. TurnReads(m, a, b, r, "bool", TRUE, Reads(TRUE, b))
    BY <2>1, <2>2, <2>3, <2>4, Zenon DEF TurnReads
  <2> QED
    BY <1>1, <1>4, <2>5, Zenon
<1>10. CASE Encoded(a, 70, "bool", v, <<>>) /\ v = FALSE
  <2>1. TagOf(a) = 70 /\ WireValue(a) = <<"bool", FALSE>> /\ BodyOf(a) = <<>>
    BY <1>10, Zenon DEF Encoded
  <2>2. ReadsBack(Reads(FALSE, b), b, BodyOf(a) \o r, FALSE, r)
    BY <2>1, BodilessBack, Zenon
  <2>3. Argument(m, TagOf(a)) = Taken(m, "bool", Reads(FALSE, b))
    BY <1>3, <2>1, Zenon
  <2>4. "bool" \in {"string", "blob"} => FALSE \in Seq(Byte)
    OBVIOUS
  <2>5. TurnReads(m, a, b, r, "bool", FALSE, Reads(FALSE, b))
    BY <2>1, <2>2, <2>3, <2>4, Zenon DEF TurnReads
  <2> QED
    BY <1>1, <1>4, <2>5, Zenon
<1>11. CASE Encoded(a, 78, "nil", v, <<>>) /\ v = <<>>
  <2>1. TagOf(a) = 78 /\ WireValue(a) = <<"nil", <<>>>> /\ BodyOf(a) = <<>>
    BY <1>11, Zenon DEF Encoded
  <2>2. ReadsBack(Reads(<<>>, b), b, BodyOf(a) \o r, <<>>, r)
    BY <2>1, BodilessBack, Zenon
  <2>3. Argument(m, TagOf(a)) = Taken(m, "nil", Reads(<<>>, b))
    BY <1>3, <2>1, Zenon
  <2>4. "nil" \in {"string", "blob"} => <<>> \in Seq(Byte)
    OBVIOUS
  <2>5. TurnReads(m, a, b, r, "nil", <<>>, Reads(<<>>, b))
    BY <2>1, <2>2, <2>3, <2>4, Zenon DEF TurnReads
  <2> QED
    BY <1>1, <1>4, <2>5, Zenon
<1>12. Kinds(a, v)
  BY <1>1, ValueKinds, Zenon
<1> QED
  BY <1>5, <1>6, <1>7, <1>8, <1>9, <1>10, <1>11, <1>12, ZenonT(40) DEF Kinds

\* The body of a value is bytes, and its tag is no null.
LEMMA ValueBytes ==
  ASSUME NEW a \in Value
  PROVE  BodyOf(a) \in Seq(Byte) /\ TagOf(a) \in Byte \ {0}
<1>0. PICK v : Kinds(a, v)
  BY ValueKinds, Zenon
<1>1. TagOf(a) \in {105, 102, 115, 98, 84, 70, 78}
  BY <1>0 DEF Kinds, Encoded
<1>2. TagOf(a) \in Byte \ {0}
  BY <1>1 DEF Byte
<1>3. \A w \in Int32 : appendInt32(w) \in Seq(Byte)
  BY WordBytes, Zenon
<1>4. \A f \in [1..4 -> Byte] : f \in Seq(Byte)
  <2>1. \A n \in Nat : [1..n -> Byte] \subseteq Seq(Byte)
    BY SeqDef
  <2>2. 4 \in Nat
    OBVIOUS
  <2> QED
    BY <2>1, <2>2, Zenon
<1>5. \A s \in Seq(Byte \ {0}) : encodeString(s) \in Seq(Byte)
  BY BytesWithoutNull, StringBytes, Zenon
<1>6. \A x \in Seq(Byte) : Len(x) <= Datagram => appendBlob(x) \in Seq(Byte)
  BY BlobBytes, Zenon
<1>7. <<>> \in Seq(Byte)
  BY EmptySeq
<1>8. BodyOf(a) \in Seq(Byte)
  BY <1>0, <1>3, <1>4, <1>5, <1>6, <1>7, Zenon DEF Kinds, Encoded
<1> QED
  BY <1>2, <1>8

-----------------------------------------------------------------------------
(* FlattenSeq. *)

\* It joins its sequences from the left.
LEMMA FlattenJoins ==
  ASSUME NEW seqs, NEW n \in Nat, Len(seqs) = n, n # 0
  PROVE  \E f : /\ f[1] = seqs[1]
                /\ \A i \in 2..n : f[i] = f[i - 1] \o seqs[i]
                /\ FlattenSeq(seqs) = f[n]
<1> DEFINE Joined(k, f) ==
             f = [i \in 1..k |-> IF i = 1 THEN seqs[i] ELSE f[i - 1] \o seqs[i]]
           T == {k \in Nat : \E f : Joined(k, f)}
<1>1. 0 \in T
  <2> DEFINE g == [i \in 1..0 |-> 0]
  <2>1. 1..0 = {}
    OBVIOUS
  <2>2. g = [i \in 1..0 |-> IF i = 1 THEN seqs[i] ELSE g[i - 1] \o seqs[i]]
    BY <2>1, Zenon
  <2>3. \E f : Joined(0, f)
    <3> HIDE DEF g
    <3> QED
      BY <2>2
  <2> QED
    BY <2>3
<1>2. ASSUME NEW k \in Nat, k \in T
      PROVE  k + 1 \in T
  <2>1. PICK g : Joined(k, g)
    BY <1>2
  <2> DEFINE h == [i \in 1..(k + 1) |->
                     IF i = k + 1 THEN IF i = 1 THEN seqs[i] ELSE g[i - 1] \o seqs[i]
                     ELSE g[i]]
  <2>2. \A i \in 1..k : h[i] = g[i]
    <3>1. \A i \in 1..k : i \in 1..(k + 1) /\ i # k + 1
      OBVIOUS
    <3> QED
      BY <3>1, Zenon
  <2>3. ASSUME NEW i \in 1..(k + 1)
        PROVE  h[i] = IF i = 1 THEN seqs[i] ELSE h[i - 1] \o seqs[i]
    <3>1. i # 1 => i - 1 \in 1..k
      OBVIOUS
    <3>2. i # 1 => h[i - 1] = g[i - 1]
      BY <2>2, <3>1, Zenon
    <3>3. CASE i = k + 1
      <4>1. h[i] = IF i = 1 THEN seqs[i] ELSE g[i - 1] \o seqs[i]
        BY <3>3, Zenon
      <4> HIDE DEF h
      <4> QED
        BY <3>2, <4>1, Zenon
    <3>4. CASE i # k + 1
      <4>1. i \in 1..k
        BY <3>4
      <4>2. h[i] = g[i]
        BY <2>2, <4>1, Zenon
      <4>3. g[i] = IF i = 1 THEN seqs[i] ELSE g[i - 1] \o seqs[i]
        BY <2>1, <4>1, Zenon
      <4> HIDE DEF h
      <4> QED
        BY <3>2, <4>2, <4>3, Zenon
    <3> QED
      BY <3>3, <3>4
  <2>4. h = [i \in 1..(k + 1) |-> h[i]]
    OBVIOUS
  <2>5. Joined(k + 1, h)
    <3> HIDE DEF h
    <3> QED
      BY <2>3, <2>4, Zenon
  <2>6. k + 1 \in Nat
    OBVIOUS
  <2> HIDE DEF h, Joined
  <2> QED
    BY <2>5, <2>6, Zenon
<1>3. n \in T
  <2> HIDE DEF T
  <2> QED
    BY <1>1, <1>2, AllNats
<1>4. \E f : Joined(n, f)
  BY <1>3
<1> DEFINE f == CHOOSE f : Joined(n, f)
<1>5. Joined(n, f)
  BY <1>4, Zenon
<1>6. FlattenSeq(seqs) = f[n]
  BY DEF FlattenSeq
<1> HIDE DEF f
<1>7. f[1] = seqs[1]
  <2>1. 1 \in 1..n
    OBVIOUS
  <2> QED
    BY <1>5, <2>1, Zenon
<1>8. \A i \in 2..n : f[i] = f[i - 1] \o seqs[i]
  <2>1. \A i \in 2..n : i \in 1..n /\ i # 1
    OBVIOUS
  <2> QED
    BY <1>5, <2>1, Zenon
<1> QED
  BY <1>6, <1>7, <1>8, Zenon

\* rest[k] is what is written behind the first k values of args.
Behind(rest, args, n) ==
  /\ rest[n] = <<>>
  /\ \A k \in 0..n : rest[k] \in Seq(Byte)
  /\ \A k \in 1..n : rest[k - 1] = BodyOf(args[k]) \o rest[k]

\* There is such a function.
LEMMA BehindExists ==
  ASSUME NEW args \in Seq(Value), NEW n \in Nat, n = Len(args)
  PROVE  \E rest : Behind(rest, args, n)
<1> DEFINE Upward(rest, j) ==
             /\ rest[n] = <<>>
             /\ \A k \in (n - j)..n : rest[k] \in Seq(Byte)
             /\ \A k \in (n - j + 1)..n : rest[k - 1] = BodyOf(args[k]) \o rest[k]
           T == {j \in Nat : j <= n => \E rest : Upward(rest, j)}
<1>1. 0 \in T
  <2> DEFINE g == [k \in 0..n |-> <<>>]
  <2>1. g[n] = <<>>
    OBVIOUS
  <2>2. \A k \in (n - 0)..n : k \in 0..n
    OBVIOUS
  <2>3. \A k \in (n - 0)..n : g[k] \in Seq(Byte)
    BY <2>2, EmptySeq, Zenon
  <2>4. \A k \in (n - 0 + 1)..n : FALSE
    OBVIOUS
  <2>5. Upward(g, 0)
    <3> HIDE DEF g
    <3> QED
      BY <2>1, <2>3, <2>4, Zenon
  <2>6. 0 \in Nat
    OBVIOUS
  <2> HIDE DEF g, Upward
  <2> QED
    BY <2>5, <2>6, Zenon
<1>2. ASSUME NEW j \in Nat, j \in T
      PROVE  j + 1 \in T
  <2>0. j + 1 \in Nat /\ (j + 1 <= n => j <= n)
    OBVIOUS
  <2> HIDE DEF Upward
  <2> SUFFICES ASSUME j + 1 <= n
               PROVE  \E rest : Upward(rest, j + 1)
    BY <2>0, Zenon
  <2>1. PICK g : Upward(g, j)
    BY <1>2, <2>0, Zenon
  <2> USE DEF Upward
  <2>2. PICK i \in 1..n : i = n - j /\ i - 1 = n - (j + 1) /\ i = n - (j + 1) + 1
    OBVIOUS
  <2> DEFINE h == [k \in 0..n |-> IF k = i - 1 THEN BodyOf(args[i]) \o g[i] ELSE g[k]]
  <2>3. i \in 0..n /\ i - 1 \in 0..n /\ i # i - 1 /\ n # i - 1 /\ n \in 0..n
        /\ i \in (n - j)..n
    BY <2>2
  <2>4. /\ h[i - 1] = BodyOf(args[i]) \o g[i]
        /\ \A k \in i..n : k \in 0..n /\ h[k] = g[k]
    <3>1. \A k \in i..n : k \in 0..n /\ k # i - 1
      BY <2>2
    <3> QED
      BY <2>3, <3>1, Zenon
  <2> HIDE DEF h
  <2>5. \A k \in i..n : h[k] \in Seq(Byte)
    BY <2>1, <2>2, <2>4, Zenon
  <2>6. h[n] = <<>>
    <3>1. n \in i..n
      BY <2>2
    <3> QED
      BY <2>1, <2>4, <3>1, Zenon
  <2>7. h[i - 1] = BodyOf(args[i]) \o h[i] /\ h[i - 1] \in Seq(Byte)
    <3>1. h[i] = g[i]
      <4>1. i \in i..n
        BY <2>2
      <4> QED
        BY <2>4, <4>1, Zenon
    <3>2. h[i] \in Seq(Byte)
      <4>1. i \in i..n
        BY <2>2
      <4> QED
        BY <2>5, <4>1, Zenon
    <3>3. BodyOf(args[i]) \in Seq(Byte)
      <4>1. args[i] \in Value
        BY ElementOfSeq
      <4> QED
        BY <4>1, ValueBytes, Zenon
    <3>4. PICK x \in Seq(Byte), y \in Seq(Byte) : x = BodyOf(args[i]) /\ y = h[i]
      BY <3>2, <3>3, Zenon
    <3>5. x \o y \in Seq(Byte)
      BY JoinedBytes
    <3> QED
      BY <2>4, <3>1, <3>4, <3>5, Zenon
  <2>8. \A k \in (i + 1)..n : h[k - 1] = BodyOf(args[k]) \o h[k]
    <3>1. \A k \in (i + 1)..n : k \in i..n /\ k - 1 \in i..n /\ k \in (n - j + 1)..n
      BY <2>2
    <3> QED
      BY <2>1, <2>4, <3>1, Zenon
  <2>9. \A k \in (i - 1)..n : h[k] \in Seq(Byte)
    <3>1. \A k \in (i - 1)..n : k = i - 1 \/ k \in i..n
      BY <2>2
    <3> QED
      BY <2>5, <2>7, <3>1, Zenon
  <2>10. \A k \in i..n : h[k - 1] = BodyOf(args[k]) \o h[k]
    <3>1. \A k \in i..n : k = i \/ k \in (i + 1)..n
      BY <2>2
    <3> QED
      BY <2>7, <2>8, <3>1, Zenon
  <2>11. Upward(h, j + 1)
    BY <2>2, <2>6, <2>9, <2>10, Zenon
  <2> HIDE DEF Upward
  <2> QED
    BY <2>11, Zenon
<1>3. n \in T
  <2> HIDE DEF T
  <2> QED
    BY <1>1, <1>2, AllNats
<1>4. PICK rest : Upward(rest, n)
  <2>1. n <= n
    OBVIOUS
  <2> HIDE DEF Upward
  <2> QED
    BY <1>3, <2>1, Zenon
<1>5. n - n = 0 /\ n - n + 1 = 1
  OBVIOUS
<1>6. Behind(rest, args, n)
  BY <1>4, <1>5, Zenon DEF Behind
<1> QED
  BY <1>6, Zenon

\* Joining nothing.
LEMMA EmptyJoins ==
  ASSUME NEW x \in Seq(Byte)
  PROVE  x \o <<>> = x /\ <<>> \o x = x
BY ConcatEmptySeq

\* The bodies of all values, one behind the other, are what is behind none.
LEMMA BodiesBehind ==
  ASSUME NEW args \in Seq(Value), NEW n \in Nat, n = Len(args),
         NEW rest, Behind(rest, args, n)
  PROVE  FlattenSeq([k \in DOMAIN args |-> BodyOf(args[k])]) = rest[0]
<1>1. DOMAIN args = 1..n
  BY LenProperties
<1>2. \A k \in 1..n : BodyOf(args[k]) \in Seq(Byte)
  <2>1. \A k \in 1..n : args[k] \in Value
    BY ElementOfSeq
  <2> QED
    BY <2>1, ValueBytes, Zenon
<1>3. PICK seqs : seqs = [k \in 1..n |-> BodyOf(args[k])]
  OBVIOUS
<1>4. seqs \in Seq(Seq(Byte)) /\ Len(seqs) = n
  <2>1. seqs \in [1..n -> Seq(Byte)]
    BY <1>2, <1>3, Zenon
  <2>2. \A S : \A s \in [1..n -> S] : s \in Seq(S)
    BY SeqDef
  <2>3. seqs \in Seq(Seq(Byte))
    BY <2>1, <2>2, Zenon
  <2>4. DOMAIN seqs = 1..n
    BY <1>3, Zenon
  <2>5. \A S : \A s \in Seq(S) : DOMAIN s = 1..n => Len(s) = n
    BY LenProperties
  <2> QED
    BY <2>3, <2>4, <2>5, Zenon
<1>5. CASE n = 0
  <2>1. seqs = <<>>
    <3>1. \A S : \A s \in Seq(S) : Len(s) = 0 => s = <<>>
      BY EmptySeq
    <3> QED
      BY <1>4, <1>5, <3>1, Zenon
  <2>2. FlattenSeq(seqs) = seqs
    <3>1. Len(seqs) = 0
      BY <1>4, <1>5, Zenon
    <3> QED
      BY <3>1, Zenon DEF FlattenSeq
  <2>3. rest[0] = <<>>
    BY <1>5, Zenon DEF Behind
  <2> QED
    BY <1>1, <1>3, <2>1, <2>2, <2>3, Zenon
<1>6. CASE n # 0
  <2>1. PICK f : /\ f[1] = seqs[1]
                 /\ \A i \in 2..n : f[i] = f[i - 1] \o seqs[i]
                 /\ FlattenSeq(seqs) = f[n]
    BY <1>4, <1>6, FlattenJoins, Zenon
  <2> DEFINE T == {k \in Nat : k + 1 <= n => /\ f[k + 1] \in Seq(Byte)
                                             /\ f[k + 1] \o rest[k + 1] = rest[0]}
  <2>2. 0 \in T
    <3>1. 0 + 1 = 1 /\ 1 \in 1..n /\ 1 - 1 = 0 /\ 0 \in Nat
      BY <1>6
    <3>2. f[1] = BodyOf(args[1]) /\ f[1] \in Seq(Byte)
      BY <1>2, <1>3, <2>1, <3>1, Zenon
    <3>3. rest[0] = f[1] \o rest[1]
      BY <3>1, <3>2, Zenon DEF Behind
    <3> QED
      BY <3>1, <3>2, <3>3, Zenon
  <2>3. ASSUME NEW k \in Nat, k \in T
        PROVE  k + 1 \in T
    <3>0. k + 1 \in Nat
      OBVIOUS
    <3> SUFFICES ASSUME (k + 1) + 1 <= n
                 PROVE  /\ f[(k + 1) + 1] \in Seq(Byte)
                        /\ f[(k + 1) + 1] \o rest[(k + 1) + 1] = rest[0]
      BY <3>0, Zenon
    <3>1. PICK i \in Nat : i = k + 1
      OBVIOUS
    <3>2. /\ i + 1 \in 2..n /\ i + 1 \in 1..n /\ (i + 1) - 1 = i
          /\ i \in 0..n /\ i + 1 \in 0..n /\ k + 1 <= n
      BY <3>1
    <3>3. f[i] \in Seq(Byte) /\ f[i] \o rest[i] = rest[0]
      BY <2>3, <3>1, <3>2, Zenon
    <3>4. PICK x \in Seq(Byte), y \in Seq(Byte), z \in Seq(Byte) :
            x = f[i] /\ y = BodyOf(args[i + 1]) /\ z = rest[i + 1]
      BY <1>2, <3>2, <3>3, Zenon DEF Behind
    <3>5. f[i + 1] = x \o y
      BY <1>3, <2>1, <3>2, <3>4, Zenon
    <3>6. rest[i] = y \o z
      BY <3>2, <3>4, Zenon DEF Behind
    <3>7. (x \o y) \o z = x \o (y \o z) /\ x \o y \in Seq(Byte)
      <4>1. (x \o y) \o z = x \o (y \o z)
        BY JoinAssociates, Zenon
      <4>2. x \o y \in Seq(Byte)
        BY JoinedBytes
      <4> QED
        BY <4>1, <4>2
    <3> QED
      BY <3>1, <3>3, <3>4, <3>5, <3>6, <3>7, Zenon
  <2>4. \A k \in Nat : k \in T
    <3> HIDE DEF T
    <3> QED
      BY <2>2, <2>3, AllNats
  <2>5. PICK k \in Nat : k + 1 = n /\ k + 1 <= n
    <3>1. n - 1 \in Nat /\ (n - 1) + 1 = n /\ n <= n
      BY <1>6
    <3> QED
      BY <3>1, Zenon
  <2>6. f[n] \in Seq(Byte) /\ f[n] \o rest[n] = rest[0]
    <3>1. k \in T
      BY <2>4, Zenon
    <3>2. /\ f[k + 1] \in Seq(Byte)
          /\ f[k + 1] \o rest[k + 1] = rest[0]
      BY <2>5, <3>1, Zenon
    <3> QED
      BY <2>5, <3>2, Zenon
  <2>7. f[n] \o <<>> = f[n]
    BY <2>6, EmptyJoins, Zenon
  <2> QED
    BY <1>1, <1>3, <2>1, <2>6, <2>7, Zenon DEF Behind
<1> QED
  BY <1>5, <1>6

\* The type tags, the bodies and, as they come back, the values of args.
Tags(args) == [k \in DOMAIN args |-> TagOf(args[k])]
Bodies(args) == [k \in DOMAIN args |-> BodyOf(args[k])]
WireValues(args) == [k \in DOMAIN args |-> WireValue(args[k])]

\* The state of the loop after k tags: the first k values, or an error if the
\* packet was cut.
Reached(m, args, k, b, rest, q) ==
  /\ m = [st |-> "ok", args |-> [j \in 1..k |-> WireValue(args[j])], rest |-> q]
  /\ Start(q, rest[k])
  /\ b = rest[0] => q = rest[k]

Midway(m, args, k, b, rest) ==
  \/ m.st = "error" /\ b # rest[0]
  \/ \E q : Reached(m, args, k, b, rest, q)

\* One turn of the loop.
LEMMA MidwayStep ==
  ASSUME NEW args \in Seq(Value), NEW n \in Nat, n = Len(args),
         NEW rest, Behind(rest, args, n), NEW b,
         NEW k \in Nat, k + 1 \in 1..n, NEW m, Midway(m, args, k, b, rest)
  PROVE  Midway(Argument(m, TagOf(args[k + 1])), args, k + 1, b, rest)
<1>1. PICK a \in Value : a = args[k + 1]
  BY ElementOfSeq
<1>2. PICK r \in Seq(Byte) : r = rest[k + 1]
  <2>1. k + 1 \in 0..n
    OBVIOUS
  <2> QED
    BY <2>1, Zenon DEF Behind
<1>3. rest[k] = BodyOf(a) \o r
  <2>1. (k + 1) - 1 = k
    OBVIOUS
  <2> QED
    BY <1>1, <1>2, <2>1, Zenon DEF Behind
<1>4. CASE m.st = "error" /\ b # rest[0]
  <2>1. Argument(m, TagOf(a)) = m
    <3>1. m.st # "ok"
      BY <1>4
    <3> QED
      BY <3>1, Zenon DEF Argument
  <2> QED
    BY <1>1, <1>4, <2>1, Zenon DEF Midway, Reached
<1>5. ASSUME NEW q,
             m = [st |-> "ok",
                  args |-> [j \in 1..k |-> WireValue(args[j])],
                  rest |-> q],
             Start(q, rest[k]),
             b = rest[0] => q = rest[k]
      PROVE  Midway(Argument(m, TagOf(a)), args, k + 1, b, rest)
  <2>1. PICK read : read = [j \in 1..k |-> WireValue(args[j])]
    OBVIOUS
  <2>2. Start(q, BodyOf(a) \o r)
    BY <1>3, <1>5, Zenon
  <2>3. ValueBack(Argument([st |-> "ok", args |-> read, rest |-> q], TagOf(a)),
                  a, q, read, r)
    BY <2>2, ArgumentBack, Zenon
  <2>4. ValueBack(Argument(m, TagOf(a)), a, q, read, r)
    BY <1>5, <2>1, <2>3, Zenon
  <2>5. CASE Argument(m, TagOf(a)).st = "error" /\ q # BodyOf(a) \o r
    <3>1. b # rest[0]
      BY <1>3, <1>5, <2>5, Zenon
    <3> QED
      BY <2>5, <3>1, Zenon DEF Midway, Reached
  <2>6. ASSUME NEW s,
               Argument(m, TagOf(a))
                 = [st |-> "ok", args |-> Append(read, WireValue(a)), rest |-> s],
               Start(s, r),
               q = BodyOf(a) \o r => s = r
        PROVE  Midway(Argument(m, TagOf(a)), args, k + 1, b, rest)
    <3>1. Append(read, WireValue(a)) = [j \in 1..(k + 1) |-> WireValue(args[j])]
      <4>1. DOMAIN read = 1..k /\ \A j \in 1..k : read[j] = WireValue(args[j])
        BY <2>1, Zenon
      <4>2. Len(read) = k
        <5>1. \A S : \A x \in [1..k -> S] : Len(x) = k
          BY SeqDef, LenProperties
        <5>2. read \in [1..k -> {WireValue(args[j]) : j \in 1..k}]
          BY <2>1
        <5> QED
          BY <5>1, <5>2, Zenon
      <4>3. PICK w : w = WireValue(a)
        OBVIOUS
      <4>4. /\ Len(Append(read, w)) = k + 1
            /\ \A j \in 1..k : Append(read, w)[j] = read[j]
            /\ Append(read, w)[k + 1] = w
            /\ \E S : Append(read, w) \in Seq(S)
        <5>1. PICK S : S = {WireValue(args[j]) : j \in 1..k} \union {w}
          OBVIOUS
        <5>2. w \in S
          BY <5>1
        <5>3. \A j \in 1..k : read[j] \in S
          BY <4>1, <5>1
        <5>4. read \in [1..k -> S]
          BY <2>1, <4>1, <5>3, Zenon
        <5>5. \A x \in [1..k -> S] : x \in Seq(S)
          BY SeqDef
        <5>6. read \in Seq(S)
          BY <5>4, <5>5, Zenon
        <5> QED
          BY <4>2, <5>2, <5>6, AppendProperties
      <4>5. /\ DOMAIN Append(read, w) = 1..(k + 1)
            /\ Append(read, w) = [j \in DOMAIN Append(read, w) |-> Append(read, w)[j]]
        BY <4>4, LenProperties
      <4>6. ASSUME NEW j \in 1..(k + 1)
            PROVE  Append(read, w)[j] = WireValue(args[j])
        <5>1. CASE j \in 1..k
          BY <4>1, <4>4, <5>1, Zenon
        <5>2. CASE j \notin 1..k
          <6>1. j = k + 1
            BY <5>2
          <6> QED
            BY <1>1, <4>3, <4>4, <6>1, Zenon
        <5> QED
          BY <5>1, <5>2
      <4> QED
        BY <4>3, <4>5, <4>6, Zenon
    <3>2. b = rest[0] => s = r
      BY <1>3, <1>5, <2>6, Zenon
    <3> QED
      BY <1>2, <2>6, <3>1, <3>2, Zenon DEF Midway, Reached
  <2> QED
    BY <2>4, <2>5, <2>6, Zenon DEF ValueBack
<1>6. \A q : Reached(m, args, k, b, rest, q)
                => Midway(Argument(m, TagOf(a)), args, k + 1, b, rest)
  BY <1>5, Zenon DEF Reached
<1>7. Midway(Argument(m, TagOf(a)), args, k + 1, b, rest)
  <2>1. (m.st = "error" /\ b # rest[0]) \/ \E q : Reached(m, args, k, b, rest, q)
    BY Zenon DEF Midway
  <2> QED
    BY <1>1, <1>4, <1>6, <2>1, Zenon
<1> QED
  BY <1>1, <1>7, Zenon

\* The type tags are bytes other than null, one for each value.
LEMMA TagBytes ==
  ASSUME NEW args \in Seq(Value)
  PROVE  /\ Tags(args) \in Seq(Byte \ {0})
         /\ Tags(args) \in Seq(Byte)
         /\ Len(Tags(args)) = Len(args)
<1>1. PICK n \in Nat : n = Len(args) /\ DOMAIN args = 1..n
  BY LenProperties
<1>2. \A k \in 1..n : TagOf(args[k]) \in Byte \ {0}
  <2>1. \A k \in 1..n : args[k] \in Value
    BY <1>1, ElementOfSeq
  <2> QED
    BY <2>1, ValueBytes, Zenon
<1>3. Tags(args) \in [1..n -> Byte \ {0}]
  BY <1>1, <1>2, Zenon DEF Tags
<1>4. \A S : \A x \in [1..n -> S] : x \in Seq(S) /\ Len(x) = n
  BY SeqDef, LenProperties
<1>5. Tags(args) \in Seq(Byte \ {0}) /\ Len(Tags(args)) = n
  BY <1>3, <1>4, Zenon
<1> QED
  BY <1>1, <1>5, BytesWithoutNull, Zenon

\* decodeMessage, encodeMessage: the loop over the type tags brings all values
\* back; if the packet was cut it may report an error instead.
LEMMA LoopBack ==
  ASSUME NEW args \in Seq(Value), NEW b, Start(b, FlattenSeq(Bodies(args)))
  PROVE  LET m == FoldLeft(Argument, [st |-> "ok", args |-> <<>>, rest |-> b],
                           Tags(args))
         IN  \/ m.st = "error" /\ b # FlattenSeq(Bodies(args))
             \/ m.st = "ok" /\ m.args = WireValues(args)
<1>1. PICK n \in Nat : n = Len(args) /\ DOMAIN args = 1..n
  BY LenProperties
<1>2. PICK rest : Behind(rest, args, n)
  BY <1>1, BehindExists, Zenon
<1>3. FlattenSeq(Bodies(args)) = rest[0]
  BY <1>1, <1>2, BodiesBehind, Zenon DEF Bodies
<1>4. PICK base : base = [st |-> "ok", args |-> <<>>, rest |-> b]
  OBVIOUS
<1>5. Tags(args) \in Seq(Byte) /\ Len(Tags(args)) = n
  BY <1>1, TagBytes, Zenon
<1>6. PICK f : /\ f[0] = base
               /\ \A k \in 1..n : f[k] = Argument(f[k - 1], Tags(args)[k])
               /\ FoldLeft(Argument, base, Tags(args)) = f[n]
  <2>1. \E f : /\ f[0] = base
               /\ \A k \in 1..Len(Tags(args)) : f[k] = Argument(f[k - 1], Tags(args)[k])
               /\ FoldLeft(Argument, base, Tags(args)) = f[Len(Tags(args))]
    BY <1>5, LoopTurns
  <2> QED
    BY <1>5, <2>1, Zenon
<1>7. \A k \in 1..n : Tags(args)[k] = TagOf(args[k])
  BY <1>1, Zenon DEF Tags
<1> DEFINE T == {k \in Nat : k <= n => Midway(f[k], args, k, b, rest)}
<1>8. 0 \in T
  <2>1. [j \in 1..0 |-> WireValue(args[j])] = <<>>
    OBVIOUS
  <2>2. Midway(base, args, 0, b, rest)
    BY <1>3, <1>4, <2>1, Zenon DEF Midway, Reached
  <2>3. 0 \in Nat
    OBVIOUS
  <2> QED
    BY <1>6, <2>2, <2>3, Zenon
<1>9. ASSUME NEW k \in Nat, k \in T
      PROVE  k + 1 \in T
  <2>0. k + 1 \in Nat /\ (k + 1 <= n => k <= n /\ k + 1 \in 1..n) /\ (k + 1) - 1 = k
    OBVIOUS
  <2> SUFFICES ASSUME k + 1 <= n
               PROVE  Midway(f[k + 1], args, k + 1, b, rest)
    BY <2>0, Zenon
  <2>1. Midway(f[k], args, k, b, rest)
    BY <1>9, <2>0, Zenon
  <2>2. Midway(Argument(f[k], TagOf(args[k + 1])), args, k + 1, b, rest)
    <3>1. k + 1 \in 1..n
      BY <2>0, Zenon
    <3> HIDE DEF T
    <3> QED
      BY <1>1, <1>2, <2>1, <3>1, MidwayStep
  <2>3. f[k + 1] = Argument(f[k], TagOf(args[k + 1]))
    BY <1>6, <1>7, <2>0, Zenon
  <2> QED
    BY <2>2, <2>3, Zenon
<1>10. n \in T
  <2> HIDE DEF T
  <2> QED
    BY <1>8, <1>9, AllNats
<1>11. Midway(f[n], args, n, b, rest)
  <2>1. n <= n
    OBVIOUS
  <2> QED
    BY <1>10, <2>1, Zenon
<1>12. CASE f[n].st = "error" /\ b # rest[0]
  BY <1>3, <1>4, <1>6, <1>12, Zenon
<1>13. ASSUME NEW q,
              f[n] = [st |-> "ok",
                      args |-> [j \in 1..n |-> WireValue(args[j])],
                      rest |-> q]
       PROVE  f[n].st = "ok" /\ f[n].args = WireValues(args)
  <2>1. [j \in 1..n |-> WireValue(args[j])] = WireValues(args)
    BY <1>1, Zenon DEF WireValues
  <2>2. f[n] = [st |-> "ok", args |-> WireValues(args), rest |-> q]
    BY <1>13, <2>1, Zenon
  <2> QED
    BY <2>2
<1>14. \/ f[n].st = "error" /\ b # rest[0]
       \/ f[n].st = "ok" /\ f[n].args = WireValues(args)
  BY <1>11, <1>13, Zenon DEF Midway, Reached
<1> QED
  BY <1>3, <1>4, <1>6, <1>14, Zenon

\* The messages that encodeMessage takes.
Sendable == {m \in [addr : Seq(Byte \ {0}), args : Seq(Value)] : Encodable(m)}

\* A message cut to its address.
Unargued(m) == [addr |-> m.addr, args |-> <<>>]

\* What decodeMessage makes of what starts with the packet of a message.
MessageComesBack(d, m, b) ==
  \/ d = Failed /\ b # encodeMessage(m)
  \/ d = Decoded(<<Unargued(m)>>) /\ b # encodeMessage(m)
  \/ d = Decoded(<<Wire(m)>>)

\* The three parts of the packet of a message.
LEMMA MessageParts ==
  ASSUME NEW m \in Sendable
  PROVE  \E e, t, v \in Seq(Byte) :
           /\ e = encodeString(m.addr)
           /\ t = encodeString(<<Comma>> \o Tags(m.args))
           /\ v = FlattenSeq(Bodies(m.args))
           /\ encodeMessage(m) = e \o (t \o v)
           /\ Len(e) > 0 /\ e[1] = Slash
           /\ t \o v # <<>>
           /\ m.addr \in Seq(Byte \ {0}) /\ m.args \in Seq(Value)
           /\ <<Comma>> \o Tags(m.args) \in Seq(Byte \ {0})
           /\ <<Comma>> \o Tags(m.args) # <<>>
           /\ (<<Comma>> \o Tags(m.args))[1] = Comma
           /\ Tail(<<Comma>> \o Tags(m.args)) = Tags(m.args)
<1>1. /\ m \in [addr : Seq(Byte \ {0}), args : Seq(Value)]
      /\ m.addr # <<>> /\ m.addr[1] = Slash
  BY Zenon DEF Sendable, Encodable
<1>2. PICK addr \in Seq(Byte \ {0}), args \in Seq(Value) : m.addr = addr /\ m.args = args
  BY <1>1
<1>3. addr \in Seq(Byte) /\ Len(addr) >= 1
  <2>1. Len(addr) >= 1
    BY <1>1, <1>2, LenProperties, EmptySeq
  <2> QED
    BY <2>1, BytesWithoutNull
<1>4. PICK e \in Seq(Byte) : /\ e = encodeString(addr)
                             /\ Len(addr) < Len(e)
                             /\ \A k \in 1..Len(addr) : e[k] = addr[k]
  BY <1>3, StringBytes, Zenon
<1>5. Len(e) > 0 /\ e[1] = Slash
  <2>1. 1 \in 1..Len(addr)
    BY <1>3, LenProperties
  <2>2. e[1] = Slash
    BY <1>1, <1>2, <1>4, <2>1, Zenon
  <2> QED
    BY <1>3, <1>4, <2>2, LenProperties
<1>6. PICK tags \in Seq(Byte \ {0}) : tags = Tags(args)
  BY TagBytes, Zenon
<1>7. PICK c \in Seq(Byte \ {0}) : c = <<Comma>> \o tags /\ c # <<>> /\ c[1] = Comma /\ Tail(c) = tags
  <2>1. Comma \in Byte \ {0}
    BY DEF Comma, Byte
  <2>2. PICK c : c = <<Comma>> \o tags
    OBVIOUS
  <2>3. PICK S : S = Byte \ {0}
    OBVIOUS
  <2>4. /\ c \in Seq(S)
        /\ Len(c) = Len(tags) + 1
        /\ c[1] = Comma
        /\ \A k \in 1..Len(tags) : c[k + 1] = tags[k]
    <3> HIDE DEF Comma
    <3>1. tags \in Seq(S) /\ Comma \in S
      BY <2>1, <2>3
    <3>2. \A x \in S : /\ <<x>> \o tags \in Seq(S)
                      /\ Len(<<x>> \o tags) = Len(tags) + 1
                      /\ (<<x>> \o tags)[1] = x
                      /\ \A k \in 1..Len(tags) : (<<x>> \o tags)[k + 1] = tags[k]
      BY <3>1
    <3> QED
      BY <2>2, <3>1, <3>2, Zenon
  <2>5. c # <<>> /\ Tail(c) = tags
    <3>1. tags \in Seq(S)
      BY <2>3
    <3>2. Len(tags) >= 0
      BY <3>1, LenProperties
    <3>3. Len(c) # 0 /\ Len(Tail(c)) = Len(tags) /\ Tail(c) \in Seq(S)
      BY <2>4, <3>1, <3>2, LenProperties
    <3>4. c # <<>>
      BY <3>3
    <3>5. \A k \in 1..Len(tags) : Tail(c)[k] = c[k + 1]
      BY <2>4, <3>1, <3>2
    <3>6. \A k \in 1..Len(tags) : Tail(c)[k] = tags[k]
      BY <2>4, <3>5, Zenon
    <3> QED
      BY <3>1, <3>3, <3>4, <3>6, SeqEqual
  <2> QED
    BY <2>2, <2>3, <2>4, <2>5, Zenon
<1>8. c \in Seq(Byte)
  BY BytesWithoutNull
<1>9. PICK t \in Seq(Byte) : t = encodeString(c) /\ Len(c) < Len(t)
  BY <1>8, StringBytes, Zenon
<1>10. PICK v \in Seq(Byte) : v = FlattenSeq(Bodies(args))
  <2>1. PICK n \in Nat : n = Len(args)
    BY LenProperties
  <2>2. PICK rest : Behind(rest, args, n)
    BY <2>1, BehindExists, Zenon
  <2>3. FlattenSeq(Bodies(args)) = rest[0]
    BY <2>1, <2>2, BodiesBehind, Zenon DEF Bodies
  <2>4. 0 \in 0..n
    OBVIOUS
  <2> QED
    BY <2>2, <2>3, <2>4, Zenon DEF Behind
<1>11. encodeMessage(m) = e \o (t \o v)
  <2>1. encodeMessage(m) = (e \o t) \o v
    BY <1>2, <1>4, <1>6, <1>7, <1>9, <1>10, Zenon DEF encodeMessage, Tags, Bodies
  <2> QED
    BY <2>1, JoinAssociates, Zenon
<1>12. t \o v # <<>>
  <2>1. Len(c) >= 0
    BY LenProperties
  <2>2. Len(t \o v) = Len(t) + Len(v)
    BY JoinedBytes, Zenon
  <2>3. Len(t \o v) > 0
    BY <1>9, <2>1, <2>2, LenProperties
  <2>4. Len(<<>>) = 0
    OBVIOUS
  <2> QED
    BY <2>3, <2>4
<1>13. /\ e = encodeString(m.addr)
       /\ t = encodeString(<<Comma>> \o Tags(m.args))
       /\ v = FlattenSeq(Bodies(m.args))
       /\ m.addr \in Seq(Byte \ {0}) /\ m.args \in Seq(Value)
       /\ <<Comma>> \o Tags(m.args) \in Seq(Byte \ {0})
       /\ <<Comma>> \o Tags(m.args) # <<>>
       /\ (<<Comma>> \o Tags(m.args))[1] = Comma
       /\ Tail(<<Comma>> \o Tags(m.args)) = Tags(m.args)
  BY <1>2, <1>4, <1>6, <1>7, <1>9, <1>10, Zenon
<1> QED
  BY <1>5, <1>11, <1>12, <1>13, Zenon

\* A message as it comes back.
LEMMA MessageWire ==
  ASSUME NEW m \in Sendable
  PROVE  Wire(m) = [addr |-> m.addr, args |-> WireValues(m.args)]
<1>1. m \in [addr : Seq(Byte \ {0}), args : Seq(Value)]
  BY Zenon DEF Sendable
<1>2. PICK addr \in Seq(Byte \ {0}), args \in Seq(Value) : m = [addr |-> addr, args |-> args]
  BY <1>1
<1>3. \A x : [m EXCEPT !.args = x] = [addr |-> m.addr, args |-> x]
  BY <1>2
<1> QED
  BY <1>3, Zenon DEF Wire, WireValues

\* What decodeMessage makes of the parts that readString and the loop find.
LEMMA AddressRead ==
  ASSUME NEW b, NEW addr, NEW q, readString(b) = Reads(addr, q)
  PROVE  /\ q = <<>> => decodeMessage(b) = Decoded(<<[addr |-> addr, args |-> <<>>]>>)
         /\ q # <<>> /\ readString(q) = Unreadable => decodeMessage(b) = Failed
<1>1. readString(b).ok /\ readString(b).val = addr /\ readString(b).rest = q
  BY DEF Reads
<1>2. q = <<>> => decodeMessage(b) = Decoded(<<[addr |-> addr, args |-> <<>>]>>)
  BY <1>1, Zenon DEF decodeMessage
<1>3. ASSUME q # <<>>, readString(q) = Unreadable
      PROVE  decodeMessage(b) = Failed
  <2>1. ~readString(q).ok
    BY <1>3 DEF Unreadable
  <2> QED
    BY <1>1, <1>3, <2>1, Zenon DEF decodeMessage
<1> QED
  BY <1>2, <1>3, Zenon

LEMMA ArgumentsRead ==
  ASSUME NEW b, NEW addr, NEW q, readString(b) = Reads(addr, q), q # <<>>,
         NEW c, NEW s, readString(q) = Reads(c, s), c # <<>>, c[1] = Comma,
         NEW m, m = FoldLeft(Argument, [st |-> "ok", args |-> <<>>, rest |-> s], Tail(c))
  PROVE  /\ m.st = "error" => decodeMessage(b) = Failed
         /\ m.st = "ok" => decodeMessage(b) = Decoded(<<[addr |-> addr, args |-> m.args]>>)
<1>1. readString(b).ok /\ readString(b).val = addr /\ readString(b).rest = q
  BY DEF Reads
<1>2. readString(q).ok /\ readString(q).val = c /\ readString(q).rest = s
  BY DEF Reads
<1>3. m.st = "error" => decodeMessage(b) = Failed
  BY <1>1, <1>2, Zenon DEF decodeMessage
<1>4. m.st = "ok" => m.st # "error" /\ m.st # "panic"
  OBVIOUS
<1>5. m.st = "ok" => decodeMessage(b) = Decoded(<<[addr |-> addr, args |-> m.args]>>)
  BY <1>1, <1>2, <1>4, Zenon DEF decodeMessage
<1> QED
  BY <1>3, <1>5, Zenon

\* encodeMessage, decodeMessage: a message comes back as it was sent, but for
\* the types that the wire does not know; of its packet cut at any byte comes an
\* error, the whole message, or only its address.
THEOREM MessageBack ==
  ASSUME NEW m \in Sendable, NEW b, Start(b, encodeMessage(m))
  PROVE  MessageComesBack(decodeMessage(b), m, b)
<1>1. PICK e \in Seq(Byte), t \in Seq(Byte), v \in Seq(Byte) :
           /\ e = encodeString(m.addr)
           /\ t = encodeString(<<Comma>> \o Tags(m.args))
           /\ v = FlattenSeq(Bodies(m.args))
           /\ encodeMessage(m) = e \o (t \o v)
           /\ t \o v # <<>>
           /\ m.addr \in Seq(Byte \ {0}) /\ m.args \in Seq(Value)
           /\ <<Comma>> \o Tags(m.args) \in Seq(Byte \ {0})
           /\ <<Comma>> \o Tags(m.args) # <<>>
           /\ (<<Comma>> \o Tags(m.args))[1] = Comma
           /\ Tail(<<Comma>> \o Tags(m.args)) = Tags(m.args)
  BY MessageParts, Zenon
<1>2. PICK y \in Seq(Byte) : y = t \o v
  BY JoinedBytes, Zenon
<1>3. PICK c : c = <<Comma>> \o Tags(m.args)
  OBVIOUS
<1>4. ReadsBack(readString(b), b, e \o y, m.addr, y)
  <2>1. Start(b, encodeString(m.addr) \o y)
    BY <1>1, <1>2, Zenon
  <2> QED
    BY <1>1, <2>1, StringBack, Zenon
<1>5. CASE readString(b) = Unreadable /\ b # e \o y
  <2>1. ~readString(b).ok
    BY <1>5 DEF Unreadable
  <2>2. decodeMessage(b) = Failed
    BY <2>1, Zenon DEF decodeMessage
  <2> QED
    BY <1>1, <1>2, <1>5, <2>2, Zenon DEF MessageComesBack
<1>6. ASSUME NEW q, readString(b) = Reads(m.addr, q), Start(q, y),
             b = e \o y => q = y
      PROVE  MessageComesBack(decodeMessage(b), m, b)
  <2>1. CASE q = <<>>
    <3>1. decodeMessage(b) = Decoded(<<[addr |-> m.addr, args |-> <<>>]>>)
      BY <1>6, <2>1, AddressRead, Zenon
    <3> QED
      BY <1>1, <1>2, <1>6, <2>1, <3>1, Zenon DEF MessageComesBack, Unargued
  <2>2. CASE q # <<>>
    <3>1. ReadsBack(readString(q), q, y, c, v)
      <4>1. Start(q, encodeString(c) \o v)
        BY <1>1, <1>2, <1>3, <1>6, Zenon
      <4>2. c \in Seq(Byte \ {0})
        BY <1>1, <1>3, Zenon
      <4>3. ReadsBack(readString(q), q, encodeString(c) \o v, c, v)
        BY <4>1, <4>2, StringBack, Zenon
      <4> QED
        BY <1>1, <1>2, <1>3, <4>3, Zenon
    <3>2. CASE readString(q) = Unreadable /\ q # y
      <4>1. decodeMessage(b) = Failed
        BY <1>6, <2>2, <3>2, AddressRead, Zenon
      <4> QED
        BY <1>1, <1>2, <1>6, <3>2, <4>1, Zenon DEF MessageComesBack
    <3>3. ASSUME NEW s, readString(q) = Reads(c, s), Start(s, v), q = y => s = v
          PROVE  MessageComesBack(decodeMessage(b), m, b)
      <4>1. PICK l : l = FoldLeft(Argument, [st |-> "ok", args |-> <<>>, rest |-> s],
                                  Tags(m.args))
        OBVIOUS
      <4>2. \/ l.st = "error" /\ s # v
            \/ l.st = "ok" /\ l.args = WireValues(m.args)
        <5>1. Start(s, FlattenSeq(Bodies(m.args)))
          BY <1>1, <3>3, Zenon
        <5>2. PICK args \in Seq(Value) : args = m.args
          BY <1>1
        <5> QED
          BY <1>1, <4>1, <5>1, <5>2, LoopBack, Zenon
      <4>3. /\ l.st = "error" => decodeMessage(b) = Failed
            /\ l.st = "ok" => decodeMessage(b) = Decoded(<<[addr |-> m.addr, args |-> l.args]>>)
        <5>1. c # <<>> /\ c[1] = Comma /\ Tail(c) = Tags(m.args)
          BY <1>1, <1>3, Zenon
        <5>2. l = FoldLeft(Argument, [st |-> "ok", args |-> <<>>, rest |-> s], Tail(c))
          BY <4>1, <5>1, Zenon
        <5> QED
          BY <1>6, <2>2, <3>3, <5>1, <5>2, ArgumentsRead, ZenonT(40)
      <4>4. CASE l.st = "error" /\ s # v
        BY <1>1, <1>2, <1>6, <3>3, <4>3, <4>4, Zenon DEF MessageComesBack
      <4>5. CASE l.st = "ok" /\ l.args = WireValues(m.args)
        <5>1. decodeMessage(b) = Decoded(<<Wire(m)>>)
          BY <4>3, <4>5, MessageWire, Zenon
        <5> QED
          BY <5>1, Zenon DEF MessageComesBack
      <4> QED
        BY <4>2, <4>4, <4>5, Zenon
    <3> QED
      BY <3>1, <3>2, <3>3, Zenon DEF ReadsBack
  <2> QED
    BY <2>1, <2>2, Zenon
<1> QED
  BY <1>4, <1>5, <1>6, Zenon DEF ReadsBack

-----------------------------------------------------------------------------
(* Bundles. *)

\* FlattenSeq of up to two sequences.
LEMMA FlattenFew ==
  /\ FlattenSeq(<<>>) = <<>>
  /\ \A a : FlattenSeq(<<a>>) = a
  /\ \A a, b : FlattenSeq(<<a, b>>) = a \o b
<1>1. FlattenSeq(<<>>) = <<>>
  <2>1. Len(<<>>) = 0
    OBVIOUS
  <2> QED
    BY <2>1, Zenon DEF FlattenSeq
<1>2. ASSUME NEW a
      PROVE  FlattenSeq(<<a>>) = a
  <2>0. PICK n \in Nat : n = 1 /\ n # 0
    OBVIOUS
  <2>a. Len(<<a>>) = 1 /\ <<a>>[1] = a
    OBVIOUS
  <2>1. PICK s : s = <<a>> /\ Len(s) = n /\ s[1] = a
    BY <2>0, <2>a, Zenon
  <2>2. PICK f : /\ f[1] = s[1]
                 /\ \A i \in 2..n : f[i] = f[i - 1] \o s[i]
                 /\ FlattenSeq(s) = f[n]
    BY <2>0, <2>1, FlattenJoins, ZenonT(40)
  <2> QED
    BY <2>0, <2>1, <2>2, Zenon
<1>3. ASSUME NEW a, NEW b
      PROVE  FlattenSeq(<<a, b>>) = a \o b
  <2>0. PICK n \in Nat : n = 2 /\ n # 0
    OBVIOUS
  <2>a. Len(<<a, b>>) = 2 /\ <<a, b>>[1] = a /\ <<a, b>>[2] = b
    OBVIOUS
  <2>1. PICK s : s = <<a, b>> /\ Len(s) = n /\ s[1] = a /\ s[2] = b
    BY <2>0, <2>a, Zenon
  <2>2. PICK f : /\ f[1] = s[1]
                 /\ \A i \in 2..n : f[i] = f[i - 1] \o s[i]
                 /\ FlattenSeq(s) = f[n]
    <3>1. n # 0
      BY <2>0
    <3>2. Len(s) = n
      BY <2>1, Zenon
    <3> QED
      BY <3>1, <3>2, FlattenJoins, Zenon
  <2>3. 2 \in 2..n /\ 2 - 1 = 1
    BY <2>0
  <2>4. f[2] = f[1] \o s[2]
    BY <2>2, <2>3, Zenon
  <2> QED
    BY <2>0, <2>1, <2>2, <2>4, Zenon
<1> QED
  BY <1>1, <1>2, <1>3, Zenon

\* An element of a bundle as it is written: its size and its bytes.
Sized(p) == appendInt32(Len(p)) \o p

\* A bundle of two packets: header, timetag, and two elements.
LEMMA BundleParts ==
  ASSUME NEW w, NEW x
  PROVE  BundleOf(<<w, x>>) = (BundleHeader \o Zeros(8)) \o (Sized(w) \o Sized(x))
<1>0. <<w, x>> = [k \in 1..2 |-> <<w, x>>[k]] /\ <<w, x>>[1] = w /\ <<w, x>>[2] = x
  OBVIOUS
<1>1. PICK s : s = <<w, x>> /\ DOMAIN s = 1..2 /\ s[1] = w /\ s[2] = x
  BY <1>0, Zenon
<1>2. [k \in DOMAIN s |-> appendInt32(Len(s[k])) \o s[k]] = <<Sized(w), Sized(x)>>
  <2>1. [k \in DOMAIN s |-> appendInt32(Len(s[k])) \o s[k]] = [k \in 1..2 |-> Sized(s[k])]
    BY <1>1, Zenon DEF Sized
  <2>2. PICK a, b : a = Sized(w) /\ b = Sized(x)
    OBVIOUS
  <2>3. Sized(s[1]) = a /\ Sized(s[2]) = b
    BY <1>1, <2>2, Zenon
  <2>4. PICK g : g = [k \in 1..2 |-> Sized(s[k])]
    OBVIOUS
  <2>5. g[1] = a /\ g[2] = b /\ DOMAIN g = 1..2 /\ g = [k \in DOMAIN g |-> g[k]]
    BY <2>3, <2>4
  <2>6. g = <<a, b>>
    BY <2>5
  <2> QED
    BY <2>1, <2>2, <2>4, <2>6, Zenon
<1>3. FlattenSeq(<<Sized(w), Sized(x)>>) = Sized(w) \o Sized(x)
  BY FlattenFew, Zenon
<1> QED
  BY <1>1, <1>2, <1>3, Zenon DEF BundleOf

\* What decodeBundle makes of the element p and the elements behind it.
Ahead(p, behind) == [behind EXCEPT !.elems = <<p>> \o @]

\* What decodeBundle makes of what starts with an element and what follows.
ElementBack(c, p, r) ==
  \/ Elements[c] = [st |-> "ok", elems |-> <<>>] /\ c # Sized(p) \o r
  \/ Elements[c] = [st |-> "error", elems |-> <<>>] /\ c # Sized(p) \o r
  \/ \E q : /\ Elements[c] = Ahead(p, Elements[q])
            /\ Start(q, r)
            /\ c = Sized(p) \o r => q = r

\* The bytes of an element.
LEMMA SizedBytes ==
  ASSUME NEW p \in Seq(Byte), Len(p) <= Datagram
  PROVE  Sized(p) \in Seq(Byte) /\ Len(Sized(p)) = 4 + Len(p)
<1>1. PICK v \in Int32 : v = Len(p)
  BY LengthIsInt32, LenProperties, Zenon
<1>2. PICK e \in Seq(Byte) : e = appendInt32(v) /\ Len(e) = 4
  BY WordBytes, Zenon
<1>3. e \o p \in Seq(Byte) /\ Len(e \o p) = Len(e) + Len(p)
  BY JoinedBytes, Zenon
<1> QED
  BY <1>1, <1>2, <1>3, Zenon DEF Sized

\* decodeBundle: an element comes back; if its bytes were cut, it is ignored or
\* it spoils the bundle.
LEMMA ElementReadBack ==
  ASSUME NEW p \in Seq(Byte), Len(p) <= Datagram, NEW r \in Seq(Byte), NEW c,
         Start(c, Sized(p) \o r)
  PROVE  ElementBack(c, p, r)
<1>1. c \in Seq(Byte) /\ c # Beyond /\ c \in Slice
  BY BeyondIsNoPacket, Zenon DEF Start, Slice
<1>2. Elements[c] = Element(Elements, c)
  BY <1>1, ElementsUnfold, Zenon
<1>3. PICK e \in Seq(Byte) : e = appendInt32(Len(p))
  BY SizeBack, StartWhole, JoinedBytes, LengthIsInt32, WordBytes, LenProperties
<1>4. PICK y \in Seq(Byte) : y = p \o r /\ Len(y) = Len(p) + Len(r)
  BY JoinedBytes, Zenon
<1>5. Sized(p) \o r = e \o y
  BY <1>3, <1>4, JoinAssociates, Zenon DEF Sized
<1>6. /\ Len(c) < 4 => c # e \o y
      /\ ~(Len(c) < 4) => /\ AsInt32(c) = Len(p)
                          /\ Misfit(c) <=> Len(From(c, 4)) < Len(p)
                          /\ Start(From(c, 4), y)
                          /\ c = e \o y => From(c, 4) = y
  <2>1. Start(c, appendInt32(Len(p)) \o y)
    BY <1>3, <1>5, Zenon
  <2> QED
    BY <1>3, <2>1, SizeBack, Zenon
<1>7. CASE Len(c) < 4
  <2>1. Elements[c] = [st |-> "ok", elems |-> <<>>]
    BY <1>1, <1>2, <1>7, Zenon DEF Element
  <2> QED
    BY <1>5, <1>6, <1>7, <2>1, Zenon DEF ElementBack
<1>8. CASE ~(Len(c) < 4) /\ Misfit(c)
  <2>1. Elements[c] = [st |-> "error", elems |-> <<>>]
    BY <1>1, <1>2, <1>8, Zenon DEF Element
  <2>2. c # e \o y
    <3>1. Len(From(c, 4)) < Len(p)
      BY <1>6, <1>8, Zenon
    <3>2. ~(Len(y) < Len(p))
      BY <1>4, LenProperties
    <3> QED
      BY <1>6, <1>8, <3>1, <3>2, Zenon
  <2> QED
    BY <1>5, <2>1, <2>2, Zenon DEF ElementBack
<1>9. CASE ~(Len(c) < 4) /\ ~Misfit(c)
  <2>1. PICK d \in Seq(Byte) : d = From(c, 4) /\ Start(d, p \o r)
    BY <1>4, <1>6, <1>9, Zenon DEF Start
  <2>2. PICK l \in Nat, n \in Nat : l = Len(p) /\ n = Len(c) /\ ~(n < 4)
    BY <1>1, <1>9, LenProperties
  <2>3. Len(d) = n - 4
    <3>1. 4 \in Nat /\ 4 <= Len(c)
      BY <2>2
    <3>2. Len(From(c, 4)) = Len(c) - 4
      BY <1>1, <3>1, SlicedBytes, Zenon
    <3> QED
      BY <2>1, <2>2, <3>2, Zenon
  <2>4. ~(Len(d) < l)
    BY <1>6, <1>9, <2>1, <2>2, Zenon
  <2>5. l <= Len(d) /\ l + 4 <= n /\ 4 + l = l + 4 /\ n >= 4 + l /\ l <= l
    BY <2>2, <2>3, <2>4
  <2>6. Upto(d, l) = p
    <3>1. /\ \A k \in 1..Len(d) : k <= Len(p) => d[k] = p[k]
          /\ Len(d) >= Len(p) =>
               /\ Start(From(d, Len(p)), r)
               /\ d = p \o From(d, Len(p))
               /\ d = p \o r => From(d, Len(p)) = r
          /\ Len(d) < Len(p) => d # p \o r
      <4>1. Start(d, p \o r)
        BY <2>1, Zenon
      <4> QED
        BY <4>1, StartBehind
    <3>2. PICK u \in Seq(Byte) : u = Upto(d, l) /\ Len(u) = l /\ \A k \in 1..l : u[k] = d[k]
      BY <2>5, SlicedBytes, Zenon
    <3>3. \A k \in 1..l : k \in 1..Len(d) /\ k <= Len(p)
      BY <2>2, <2>5, <2>3
    <3>4. \A k \in 1..Len(u) : u[k] = p[k]
      BY <3>1, <3>2, <3>3, Zenon
    <3>5. Len(u) = Len(p)
      BY <2>2, <3>2, Zenon
    <3>6. u = p
      BY <3>4, <3>5, SameBytes, Zenon
    <3> QED
      BY <3>2, <3>6, Zenon
  <2>7. PICK q : /\ q = From(c, 4 + l)
                 /\ Start(q, r)
                 /\ c = Sized(p) \o r => q = r
    <3>1. PICK s \in Seq(Byte) : s = Sized(p) /\ Len(s) = 4 + l
      BY <2>2, SizedBytes, Zenon
    <3>2. Start(c, s \o r) /\ Len(c) >= Len(s)
      BY <2>2, <2>5, <3>1, Zenon
    <3>3. Start(From(c, Len(s)), r) /\ (c = s \o r => From(c, Len(s)) = r)
      BY <3>2, StartBehind, Zenon
    <3> QED
      BY <3>1, <3>3, Zenon
  <2>8. AsInt32(c) = l
    BY <1>6, <1>9, <2>2, Zenon
  <2>9. Elements[c] = Ahead(p, Elements[q])
    BY <1>1, <1>2, <1>9, <2>1, <2>6, <2>7, <2>8, Zenon DEF Element, Ahead
  <2> QED
    BY <2>7, <2>9, Zenon DEF ElementBack
<1> QED
  BY <1>7, <1>8, <1>9, Zenon

\* Nothing has no elements.
LEMMA NoElements == Elements[<<>>] = [st |-> "ok", elems |-> <<>>]
<1>1. <<>> \in Seq(Byte) /\ Len(<<>>) < 4
  OBVIOUS
<1>2. PICK c \in Seq(Byte) : c = <<>> /\ Len(c) < 4
  BY <1>1, Zenon
<1>3. c # Beyond /\ c \in Slice
  BY BeyondIsNoPacket, Zenon DEF Slice
<1>4. Elements[c] = Element(Elements, c)
  BY <1>3, ElementsUnfold, Zenon
<1>5. Elements[c] = [st |-> "ok", elems |-> <<>>]
  BY <1>2, <1>3, <1>4, Zenon DEF Element
<1> QED
  BY <1>2, <1>5, Zenon

\* What decodeBundle makes of what starts with the two elements w and x: both,
\* or less if it was cut.
TwoBack(l, c, w, x) ==
  \/ l.st = "error" /\ c # Sized(w) \o Sized(x)
  \/ l = [st |-> "ok", elems |-> <<>>] /\ c # Sized(w) \o Sized(x)
  \/ l = [st |-> "ok", elems |-> <<w>>] /\ c # Sized(w) \o Sized(x)
  \/ l = [st |-> "ok", elems |-> <<w, x>>]

\* The element in front of the others.
LEMMA ElementsJoin ==
  ASSUME NEW p, NEW st, NEW es, NEW r, r = [st |-> st, elems |-> es]
  PROVE  Ahead(p, r) = [st |-> st, elems |-> <<p>> \o es]
<1>1. r.elems = es
  OBVIOUS
<1>2. \A y : [r EXCEPT !.elems = y] = [st |-> st, elems |-> y]
  OBVIOUS
<1> QED
  BY <1>1, <1>2, Zenon DEF Ahead

\* Tuples of up to two.
LEMMA FewElements ==
  ASSUME NEW S, NEW p \in S, NEW q \in S
  PROVE  <<p>> \o <<>> = <<p>> /\ <<p>> \o <<q>> = <<p, q>>
<1>1. <<p>> \in Seq(S) /\ <<q>> \in Seq(S)
  OBVIOUS
<1>2. <<p>> \o <<>> = <<p>>
  BY <1>1, ConcatEmptySeq
<1>3. <<p>> \o <<q>> = Append(<<p>>, q)
  BY <1>1, AppendIsConcat
<1>4. Append(<<p>>, q) = <<p, q>>
  <2>1. /\ Append(<<p>>, q) \in Seq(S)
        /\ Len(Append(<<p>>, q)) = Len(<<p>>) + 1
        /\ \A i \in 1..Len(<<p>>) : Append(<<p>>, q)[i] = <<p>>[i]
        /\ Append(<<p>>, q)[Len(<<p>>) + 1] = q
    BY <1>1, AppendProperties
  <2>2. <<p, q>> \in Seq(S) /\ Len(<<p, q>>) = 2 /\ <<p, q>>[1] = p /\ <<p, q>>[2] = q
    OBVIOUS
  <2>3. Len(<<p>>) = 1 /\ <<p>>[1] = p
    OBVIOUS
  <2>4. \A i \in 1..2 : Append(<<p>>, q)[i] = <<p, q>>[i]
    BY <2>1, <2>2, <2>3
  <2>5. PICK a \in Seq(S), b \in Seq(S) : a = Append(<<p>>, q) /\ b = <<p, q>>
    BY <2>1, <2>2, Zenon
  <2>6. Len(a) = 2 /\ Len(b) = 2
    BY <2>1, <2>2, <2>3, <2>5
  <2>7. \A i \in 1..Len(a) : a[i] = b[i]
    BY <2>4, <2>5, <2>6, Zenon
  <2>8. a = b
    BY <2>6, <2>7, SeqEqual
  <2> QED
    BY <2>5, <2>8, Zenon
<1> QED
  BY <1>2, <1>3, <1>4

\* decodeBundle: both elements come back, in their order.
LEMMA TwoReadBack ==
  ASSUME NEW w \in Seq(Byte), Len(w) <= Datagram,
         NEW x \in Seq(Byte), Len(x) <= Datagram,
         NEW c, Start(c, Sized(w) \o Sized(x))
  PROVE  TwoBack(Elements[c], c, w, x)
<1>1. PICK r \in Seq(Byte) : r = Sized(x)
  BY SizedBytes, Zenon
<1>2. r \o <<>> = r /\ <<>> \in Seq(Byte)
  <2>1. r \o <<>> = r
    BY EmptyJoins, Zenon
  <2> QED
    BY <2>1
<1>3. ElementBack(c, w, r)
  <2>1. Start(c, Sized(w) \o r)
    BY <1>1, Zenon
  <2> QED
    BY <2>1, ElementReadBack, Zenon
<1>4. CASE Elements[c] = [st |-> "ok", elems |-> <<>>] /\ c # Sized(w) \o r
  BY <1>1, <1>4, Zenon DEF TwoBack
<1>5. CASE Elements[c] = [st |-> "error", elems |-> <<>>] /\ c # Sized(w) \o r
  <2>1. Elements[c].st = "error"
    BY <1>5
  <2> QED
    BY <1>1, <1>5, <2>1, Zenon DEF TwoBack
<1>6. ASSUME NEW q, Elements[c] = Ahead(w, Elements[q]),
             Start(q, r), c = Sized(w) \o r => q = r
      PROVE  TwoBack(Elements[c], c, w, x)
  <2>1. ElementBack(q, x, <<>>)
    <3>1. Start(q, Sized(x) \o <<>>)
      BY <1>1, <1>2, <1>6, Zenon
    <3> QED
      BY <1>2, <3>1, ElementReadBack, Zenon
  <2>2. Sized(x) \o <<>> = r
    BY <1>1, <1>2, Zenon
  <2>3. CASE Elements[q] = [st |-> "ok", elems |-> <<>>] /\ q # r
    <3>1. Elements[c] = [st |-> "ok", elems |-> <<w>> \o <<>>]
      BY <1>6, <2>3, ElementsJoin, ZenonT(40)
    <3>2. Elements[c] = [st |-> "ok", elems |-> <<w>>]
      BY <3>1, FewElements, Zenon
    <3> QED
      BY <1>1, <1>6, <2>3, <3>2, Zenon DEF TwoBack
  <2>4. CASE Elements[q] = [st |-> "error", elems |-> <<>>] /\ q # r
    <3>1. Elements[c] = [st |-> "error", elems |-> <<w>> \o <<>>]
      BY <1>6, <2>4, ElementsJoin, Zenon
    <3>2. Elements[c].st = "error"
      BY <3>1
    <3> QED
      BY <1>1, <1>6, <2>4, <3>2, Zenon DEF TwoBack
  <2>5. ASSUME NEW s, Elements[q] = Ahead(x, Elements[s]),
               Start(s, <<>>)
        PROVE  TwoBack(Elements[c], c, w, x)
    <3>1. s = <<>>
      <4>1. s \in Seq(Byte) /\ Len(s) <= Len(<<>>)
        BY <2>5, Zenon DEF Start
      <4> QED
        BY <4>1, LenProperties, EmptySeq
    <3>2. Elements[s] = [st |-> "ok", elems |-> <<>>]
      BY <3>1, NoElements, Zenon
    <3>3. Elements[q] = [st |-> "ok", elems |-> <<x>> \o <<>>]
      BY <2>5, <3>2, ElementsJoin, Zenon
    <3>4. Elements[q] = [st |-> "ok", elems |-> <<x>>]
      BY <3>3, FewElements, Zenon
    <3>5. Elements[c] = [st |-> "ok", elems |-> <<w>> \o <<x>>]
      BY <1>6, <3>4, ElementsJoin, ZenonT(40)
    <3>6. Elements[c] = [st |-> "ok", elems |-> <<w, x>>]
      BY <3>5, FewElements, Zenon
    <3> QED
      BY <3>6, Zenon DEF TwoBack
  <2> QED
    BY <2>1, <2>2, <2>3, <2>4, <2>5, Zenon DEF ElementBack
<1> QED
  BY <1>3, <1>4, <1>5, <1>6, Zenon DEF ElementBack

\* The bytes of a bundle's header: the first null is the eighth byte, and a
\* message does not start like it.
LEMMA HeaderBytes ==
  /\ BundleHeader \in Seq(Byte) /\ Len(BundleHeader) = 8
  /\ \A k \in 1..7 : BundleHeader[k] # 0
  /\ BundleHeader[1] # Slash
  /\ BundleHeader \o Zeros(8) \in Seq(Byte) /\ Len(BundleHeader \o Zeros(8)) = 16
  /\ \A k \in 1..8 : (BundleHeader \o Zeros(8))[k] = BundleHeader[k]
<1>1. BundleHeader \in Seq(Byte) /\ Len(BundleHeader) = 8
  BY SMT DEF BundleHeader, Byte
<1>2. \A k \in 1..7 : BundleHeader[k] # 0
  BY SMT DEF BundleHeader
<1>3. BundleHeader[1] # Slash
  BY SMT DEF BundleHeader, Slash
<1>4. PICK z \in Seq(Byte) : z = Zeros(8) /\ Len(z) = 8
  <2>1. 8 \in Nat
    OBVIOUS
  <2> QED
    BY <2>1, ZeroBytes, Zenon
<1>5. PICK h \in Seq(Byte) : h = BundleHeader /\ Len(h) = 8
  BY <1>1
<1>6. h \o z \in Seq(Byte) /\ Len(h \o z) = 16 /\ \A k \in 1..8 : (h \o z)[k] = h[k]
  <2>1. /\ h \o z \in Seq(Byte)
        /\ Len(h \o z) = Len(h) + Len(z)
        /\ \A k \in 1..Len(h) : (h \o z)[k] = h[k]
    BY JoinedBytes, SMT
  <2> QED
    BY <1>4, <1>5, <2>1, SMT
<1> QED
  BY <1>1, <1>2, <1>3, <1>4, <1>5, <1>6, SMT

\* What the messages ms are on the wire.
Wires(ms) == [k \in DOMAIN ms |-> Wire(ms[k])]
\* The messages that come back.
OnWire == {Wire(m) : m \in Sendable}

\* What one more message is on the wire.
LEMMA WiresGrow ==
  ASSUME NEW ms \in Seq(Sendable), NEW m \in Sendable
  PROVE  /\ Wires(ms) \in Seq(OnWire)
         /\ Wire(m) \in OnWire
         /\ Wires(Append(ms, m)) = Append(Wires(ms), Wire(m))
         /\ Wires(Append(ms, m)) \in Seq(OnWire)
<1>1. Wire(m) \in OnWire
  BY Zenon DEF OnWire
<1>2. ASSUME NEW s \in Seq(Sendable)
      PROVE  Wires(s) \in Seq(OnWire) /\ Len(Wires(s)) = Len(s)
  <2>1. PICK n \in Nat : n = Len(s) /\ DOMAIN s = 1..n
    BY LenProperties
  <2>2. \A k \in 1..n : Wire(s[k]) \in OnWire
    <3>1. \A k \in 1..n : s[k] \in Sendable
      BY <2>1, ElementOfSeq
    <3> QED
      BY <3>1, Zenon DEF OnWire
  <2>3. Wires(s) \in [1..n -> OnWire]
    BY <2>1, <2>2, Zenon DEF Wires
  <2>4. \A S : \A x \in [1..n -> S] : x \in Seq(S) /\ Len(x) = n
    BY SeqDef, LenProperties
  <2> QED
    BY <2>1, <2>3, <2>4, Zenon
<1>3. PICK s \in Seq(Sendable), n \in Nat :
        /\ s = Append(ms, m)
        /\ n = Len(ms)
        /\ Len(s) = n + 1
        /\ \A k \in 1..n : s[k] = ms[k]
        /\ s[n + 1] = m
  <2>1. /\ Append(ms, m) \in Seq(Sendable)
        /\ Len(Append(ms, m)) = Len(ms) + 1
        /\ \A k \in 1..Len(ms) : Append(ms, m)[k] = ms[k]
        /\ Append(ms, m)[Len(ms) + 1] = m
    BY AppendProperties
  <2>2. Len(ms) \in Nat
    BY LenProperties
  <2> QED
    BY <2>1, <2>2, Zenon
<1>4. PICK a \in Seq(OnWire), v \in OnWire, t \in Seq(OnWire) :
        a = Wires(s) /\ v = Wire(m) /\ t = Wires(ms) /\ Len(a) = n + 1 /\ Len(t) = n
  BY <1>1, <1>2, <1>3, Zenon
<1>5. /\ Append(t, v) \in Seq(OnWire)
      /\ Len(Append(t, v)) = n + 1
      /\ \A k \in 1..n : Append(t, v)[k] = t[k]
      /\ Append(t, v)[n + 1] = v
  BY <1>4, AppendProperties
<1>6. \A k \in 1..(n + 1) : a[k] = Append(t, v)[k]
  <2>1. DOMAIN s = 1..(n + 1) /\ DOMAIN ms = 1..n
    BY <1>3, LenProperties
  <2>2. ASSUME NEW k \in 1..n
        PROVE  a[k] = Append(t, v)[k]
    <3>1. k \in 1..(n + 1)
      OBVIOUS
    <3>2. a[k] = Wire(s[k]) /\ t[k] = Wire(ms[k])
      BY <1>4, <2>1, <3>1, Zenon DEF Wires
    <3> QED
      BY <1>3, <1>5, <3>2, Zenon
  <2>3. a[n + 1] = v
    <3>1. n + 1 \in 1..(n + 1)
      OBVIOUS
    <3>2. a[n + 1] = Wire(s[n + 1])
      BY <1>4, <2>1, <3>1, Zenon DEF Wires
    <3> QED
      BY <1>3, <1>4, <3>2, Zenon
  <2>4. \A k \in 1..(n + 1) : k \in 1..n \/ k = n + 1
    OBVIOUS
  <2> QED
    BY <1>5, <2>2, <2>3, <2>4, Zenon
<1>7. a = Append(t, v)
  <2>1. PICK c \in Seq(OnWire) : c = Append(t, v)
    BY <1>5, Zenon
  <2>2. Len(a) = Len(c) /\ \A k \in 1..Len(a) : a[k] = c[k]
    BY <1>4, <1>5, <1>6, <2>1, Zenon
  <2>3. a = c
    BY <2>2, SeqEqual
  <2> QED
    BY <2>1, <2>3, Zenon
<1> QED
  BY <1>3, <1>4, <1>7, Zenon

\* Nothing, a sequence, and all but its last are prefixes.
LEMMA PrefixFacts ==
  ASSUME NEW S, NEW s \in Seq(S), NEW e \in S
  PROVE  IsPrefix(<<>>, s) /\ IsPrefix(s, s) /\ IsPrefix(s, Append(s, e))
<1>0. Len(s) \in Nat
  BY LenProperties
<1>1. PICK n \in Nat : n = Len(s)
  BY <1>0, Zenon
<1>2. IsPrefix(s, s)
  <2>1. n <= n
    OBVIOUS
  <2> QED
    BY <1>1, <2>1, Zenon DEF IsPrefix
<1>3. IsPrefix(<<>>, s)
  <2>1. Len(<<>>) = 0 /\ 0 <= n
    OBVIOUS
  <2>2. SubSeq(<<>>, 1, 0) = <<>> /\ SubSeq(s, 1, 0) = <<>>
    OBVIOUS
  <2> QED
    BY <1>1, <2>1, <2>2, Zenon DEF IsPrefix
<1>4. PICK t \in Seq(S) : /\ t = Append(s, e)
                          /\ Len(t) = n + 1
                          /\ \A k \in 1..n : t[k] = s[k]
  <2>1. /\ Append(s, e) \in Seq(S)
        /\ Len(Append(s, e)) = Len(s) + 1
        /\ \A k \in 1..Len(s) : Append(s, e)[k] = s[k]
    BY AppendProperties
  <2> QED
    BY <1>1, <2>1, Zenon
<1>5. n <= n + 1
  OBVIOUS
<1>6. SubSeq(s, 1, n) = SubSeq(t, 1, n)
  <2>1. SubSeq(s, 1, n) = [k \in 1..n |-> s[k]] /\ SubSeq(t, 1, n) = [k \in 1..n |-> t[k]]
    BY <1>1, <1>4
  <2>2. [k \in 1..n |-> s[k]] = [k \in 1..n |-> t[k]]
    BY <1>4, Zenon
  <2> QED
    BY <2>1, <2>2, Zenon
<1>7. IsPrefix(s, t)
  BY <1>1, <1>4, <1>5, <1>6, Zenon DEF IsPrefix
<1>8. IsPrefix(s, Append(s, e))
  BY <1>4, <1>7
<1> QED
  BY <1>2, <1>3, <1>8, Zenon

-----------------------------------------------------------------------------
(* What packets carry. *)

\* What decodePacket may make of a packet of ms that was cut: an error, fewer
\* messages, or the address of the only one.
Loses(d, ms) ==
  d.st = "ok" => \/ IsPrefix(d.msgs, Wires(ms))
                 \/ Len(ms) = 1 /\ d.msgs = <<Unargued(ms[1])>>

\* The packet w decodes to the messages ms, and cut anywhere only loses.
Carries(w, ms) ==
  /\ ms \in Seq(Sendable)
  /\ w \in Seq(Byte) /\ w # <<>> /\ Len(w) <= Datagram
  /\ decodePacket[w] = Decoded(Wires(ms))
  /\ \A b : Start(b, w) => Loses(decodePacket[b], ms)

\* decodePacket: what is too short for a bundle or starts otherwise is a message.
LEMMA NoBundle ==
  ASSUME NEW b \in Seq(Byte), Len(b) < 8 \/ b[1] # BundleHeader[1]
  PROVE  decodePacket[b] = decodeMessage(b)
<1>1. b \in Slice
  BY Zenon DEF Slice
<1>2. Len(b) < 8 \/ Upto(b, 8) # BundleHeader
  <2>1. ASSUME ~(Len(b) < 8), b[1] # BundleHeader[1]
        PROVE  Upto(b, 8) # BundleHeader
    <3>1. 8 \in Nat /\ 8 <= Len(b) /\ 1 \in 1..8
      BY <2>1, LenProperties
    <3>a. \A k \in 1..8 : Upto(b, 8)[k] = b[k]
      BY <3>1, SlicedBytes, Zenon
    <3>2. PICK u : u = Upto(b, 8) /\ \A k \in 1..8 : u[k] = b[k]
      BY <3>a, Zenon
    <3>3. u[1] # BundleHeader[1]
      BY <2>1, <3>1, <3>2, Zenon
    <3>4. u # BundleHeader
      BY <3>3, Zenon
    <3> QED
      BY <3>2, <3>4, Zenon
  <2> QED
    BY <2>1, Zenon
<1>3. decodePacket[b] = Packet(decodePacket, b)
  BY <1>1, PacketUnfold, Zenon
<1> QED
  BY <1>2, <1>3, Zenon DEF Packet

\* The fields of a result.
LEMMA DecodedFields ==
  ASSUME NEW ms
  PROVE  Decoded(ms).st = "ok" /\ Decoded(ms).msgs = ms /\ Failed.st = "error"
  BY DEF Decoded, Failed

\* A single message.
LEMMA WiresOfOne ==
  ASSUME NEW m
  PROVE  Wires(<<m>>) = <<Wire(m)>>
<1>0. DOMAIN <<m>> = 1..1 /\ <<m>>[1] = m
  OBVIOUS
<1>1. PICK s : s = <<m>> /\ DOMAIN s = 1..1 /\ s[1] = m
  BY <1>0, Zenon
<1>2. PICK g : g = [k \in 1..1 |-> Wire(s[k])]
  OBVIOUS
<1>3. PICK v : v = Wire(m)
  OBVIOUS
<1>4. DOMAIN g = 1..1 /\ g[1] = v /\ g = [k \in DOMAIN g |-> g[k]]
  BY <1>1, <1>2, <1>3
<1>5. g = <<v>>
  BY <1>4
<1> QED
  BY <1>1, <1>2, <1>3, <1>5, Zenon DEF Wires

\* encodeMessage: the packet of a message carries it.
LEMMA MessageCarries ==
  ASSUME NEW m \in Sendable, Len(encodeMessage(m)) <= Datagram
  PROVE  Carries(encodeMessage(m), <<m>>)
<1>1. PICK w \in Seq(Byte) :
        w = encodeMessage(m) /\ Len(w) > 0 /\ w[1] = Slash /\ w # <<>>
  <2>1. PICK e \in Seq(Byte), t \in Seq(Byte), v \in Seq(Byte) :
          encodeMessage(m) = e \o (t \o v) /\ Len(e) > 0 /\ e[1] = Slash
    BY MessageParts, Zenon
  <2>2. PICK y \in Seq(Byte) : y = t \o v
    BY JoinedBytes, Zenon
  <2>3. PICK w \in Seq(Byte) : /\ w = e \o y
                               /\ Len(w) = Len(e) + Len(y)
                               /\ \A k \in 1..Len(e) : w[k] = e[k]
    BY JoinedBytes, ZenonT(40)
  <2>4. 1 \in 1..Len(e) /\ Len(w) > 0
    BY <2>1, <2>3, LenProperties
  <2>5. w # <<>>
    BY <2>4
  <2> QED
    BY <2>1, <2>2, <2>3, <2>4, <2>5, Zenon
<1>2. \A b : Start(b, w) => decodePacket[b] = decodeMessage(b)
  <2>1. ASSUME NEW b, Start(b, w)
        PROVE  decodePacket[b] = decodeMessage(b)
    <3>1. b \in Seq(Byte) /\ \A k \in 1..Len(b) : b[k] = w[k]
      BY <2>1, Zenon DEF Start
    <3>2. Len(b) < 8 \/ 1 \in 1..Len(b)
      BY <3>1, LenProperties
    <3>3. Len(b) < 8 \/ b[1] # BundleHeader[1]
      BY <1>1, <3>1, <3>2, HeaderBytes, Zenon
    <3> QED
      BY <3>1, <3>3, NoBundle, Zenon
  <2> QED
    BY <2>1
<1>3. <<m>> \in Seq(Sendable) /\ Len(<<m>>) = 1 /\ <<m>>[1] = m
  OBVIOUS
<1>4. Wires(<<m>>) = <<Wire(m)>>
  BY WiresOfOne, Zenon
<1>5. \A b : Start(b, w) => MessageComesBack(decodePacket[b], m, b)
  BY <1>1, <1>2, MessageBack, Zenon
<1>6. decodePacket[w] = Decoded(<<Wire(m)>>)
  BY <1>1, <1>5, StartWhole, Zenon DEF MessageComesBack
<1>7. ASSUME NEW b, Start(b, w)
      PROVE  Loses(decodePacket[b], <<m>>)
  <2>1. \/ decodePacket[b] = Failed
        \/ decodePacket[b] = Decoded(<<Unargued(m)>>)
        \/ decodePacket[b] = Decoded(<<Wire(m)>>)
    BY <1>5, <1>7, Zenon DEF MessageComesBack
  <2>2. CASE decodePacket[b] = Failed
    <3>1. decodePacket[b].st # "ok"
      BY <2>2 DEF Failed
    <3> QED
      BY <3>1, Zenon DEF Loses
  <2>3. CASE decodePacket[b] = Decoded(<<Unargued(m)>>)
    <3>1. decodePacket[b].msgs = <<Unargued(m)>>
      BY <2>3, DecodedFields, Zenon
    <3> QED
      BY <1>3, <3>1, Zenon DEF Loses
  <2>4. CASE decodePacket[b] = Decoded(<<Wire(m)>>)
    <3>1. decodePacket[b].msgs = Wires(<<m>>)
      BY <1>4, <2>4, DecodedFields, Zenon
    <3>2. Wire(m) \in OnWire /\ Wires(<<m>>) \in Seq(OnWire)
      <4>1. Wire(m) \in OnWire
        BY Zenon DEF OnWire
      <4>2. <<Wire(m)>> \in Seq(OnWire)
        <5>1. \A v \in OnWire : <<v>> \in Seq(OnWire)
          OBVIOUS
        <5> QED
          BY <4>1, <5>1, Zenon
      <4> QED
        BY <1>4, <4>1, <4>2, Zenon
    <3>3. IsPrefix(Wires(<<m>>), Wires(<<m>>))
      BY <3>2, PrefixFacts
    <3> QED
      BY <3>1, <3>3, Zenon DEF Loses
  <2> QED
    BY <2>1, <2>2, <2>3, <2>4, Zenon
<1> QED
  BY <1>1, <1>3, <1>4, <1>6, <1>7, Zenon DEF Carries

\* All n packets of a bundle decode.
AllDecode(parts, n) == DOMAIN parts = 1..n /\ \A k \in 1..n : parts[k].st = "ok"

\* The messages of the packets of a bundle, of which all decode.
LEMMA WholeOk ==
  ASSUME NEW l, l.st = "ok", NEW n, NEW parts, AllDecode(parts, n)
  PROVE  Whole(l, parts) = Decoded(FlattenSeq([k \in 1..n |-> parts[k].msgs]))
<1>1. PICK states : states = {l.st} \union {parts[k].st : k \in DOMAIN parts}
  OBVIOUS
<1>2. "panic" \notin states /\ "error" \notin states
  BY <1>1 DEF AllDecode
<1>3. DOMAIN parts = 1..n
  BY Zenon DEF AllDecode
<1> QED
  BY <1>1, <1>2, <1>3, Zenon DEF Whole

\* A bundle with an error fails.
LEMMA WholeFails ==
  ASSUME NEW l, l.st = "error", NEW parts, \A k \in DOMAIN parts : parts[k].st # "panic"
  PROVE  Whole(l, parts) = Failed
<1>1. PICK states : states = {l.st} \union {parts[k].st : k \in DOMAIN parts}
  OBVIOUS
<1>2. "panic" \notin states /\ "error" \in states
  BY <1>1
<1> QED
  BY <1>1, <1>2, Zenon DEF Whole

\* Functions over the first numbers are the tuples one writes.
LEMMA FewAreTuples ==
  ASSUME NEW f
  PROVE  /\ [k \in 1..0 |-> f[k]] = <<>>
         /\ [k \in 1..1 |-> f[k]] = <<f[1]>>
         /\ [k \in 1..2 |-> f[k]] = <<f[1], f[2]>>
  OBVIOUS

\* What fits into a datagram as a bundle fits without it.
LEMMA BundleLength ==
  ASSUME NEW w \in Seq(Byte), NEW x \in Seq(Byte),
         Len(BundleOf(<<w, x>>)) <= Datagram
  PROVE  Len(w) <= Datagram /\ Len(x) <= Datagram
<1>1. PICK l \in Nat, n \in Nat : l = Len(w) /\ n = Len(x)
  BY LenProperties
<1>2. \A v \in Nat : appendInt32(v) \in Seq(Int) /\ Len(appendInt32(v)) = 4
  BY SMT DEF appendInt32
<1>3. Seq(Byte) \subseteq Seq(Int)
  <2>1. Byte \subseteq Int
    BY DEF Byte
  <2> QED
    BY <2>1, SequencesGrow, Zenon
<1>4. \A u \in Seq(Int) : \A v \in Seq(Int) :
        u \o v \in Seq(Int) /\ Len(u \o v) = Len(u) + Len(v)
  BY ConcatProperties
<1>5. \A u \in Seq(Byte) : Sized(u) \in Seq(Int) /\ Len(Sized(u)) = 4 + Len(u)
  <2>1. ASSUME NEW u \in Seq(Byte)
        PROVE  Sized(u) \in Seq(Int) /\ Len(Sized(u)) = 4 + Len(u)
    <3>1. PICK v \in Nat : v = Len(u)
      BY LenProperties
    <3>2. PICK a \in Seq(Int) : a = appendInt32(v) /\ Len(a) = 4
      BY <1>2, Zenon
    <3>3. u \in Seq(Int)
      BY <1>3, Zenon
    <3>4. a \o u \in Seq(Int) /\ Len(a \o u) = Len(a) + Len(u)
      BY <1>4, <3>3, Zenon
    <3> QED
      BY <3>1, <3>2, <3>4, Zenon DEF Sized
  <2> QED
    BY <2>1
<1>6. PICK h \in Seq(Int), y \in Seq(Int), z \in Seq(Int) :
        /\ h = BundleHeader \o Zeros(8) /\ Len(h) = 16
        /\ y = Sized(w) /\ Len(y) = 4 + l
        /\ z = Sized(x) /\ Len(z) = 4 + n
  <2>1. PICK h \in Seq(Int) : h = BundleHeader \o Zeros(8) /\ Len(h) = 16
    BY <1>3, HeaderBytes, Zenon
  <2>2. PICK y \in Seq(Int) : y = Sized(w) /\ Len(y) = 4 + l
    BY <1>1, <1>5, Zenon
  <2>3. PICK z \in Seq(Int) : z = Sized(x) /\ Len(z) = 4 + n
    BY <1>1, <1>5, Zenon
  <2> QED
    BY <2>1, <2>2, <2>3, Zenon
<1>7. PICK t \in Seq(Int) : t = y \o z /\ Len(t) = (4 + l) + (4 + n)
  <2>1. y \o z \in Seq(Int) /\ Len(y \o z) = Len(y) + Len(z)
    BY <1>4, Zenon
  <2> QED
    BY <1>6, <2>1, Zenon
<1>8. Len(h \o t) = 16 + ((4 + l) + (4 + n))
  <2>1. Len(h \o t) = Len(h) + Len(t)
    BY <1>4, Zenon
  <2> QED
    BY <1>6, <1>7, <2>1, Zenon
<1>9. BundleOf(<<w, x>>) = h \o t
  BY <1>6, <1>7, BundleParts, Zenon
<1>10. 16 + ((4 + l) + (4 + n)) <= Datagram
  BY <1>8, <1>9, Zenon
<1>11. l <= Datagram /\ n <= Datagram
  BY <1>10, SMT DEF Datagram
<1> QED
  BY <1>1, <1>11, Zenon

\* What the elements of a bundle decode to.
PartsOf(l) == [k \in DOMAIN l.elems |-> decodePacket[l.elems[k]]]

\* The messages that come of a bundle, from its elements.
TwoMade(d, l, w, x, ms, n) ==
  /\ l = [st |-> "ok", elems |-> <<>>] => d = Decoded(<<>>)
  /\ l = [st |-> "ok", elems |-> <<w>>] => d = Decoded(ms)
  /\ l = [st |-> "ok", elems |-> <<w, x>>] => d = Decoded(ms \o n)

\* The messages of up to two elements, in their order.
LEMMA TwoDecoded ==
  ASSUME NEW w, NEW x, NEW ms, NEW n, NEW l,
         decodePacket[w] = Decoded(ms), decodePacket[x] = Decoded(n)
  PROVE  TwoMade(Whole(l, PartsOf(l)), l, w, x, ms, n)
<1>0. PICK parts : parts = PartsOf(l)
  OBVIOUS
<1>1. ASSUME NEW j \in Nat, NEW es, DOMAIN es = 1..j,
             l = [st |-> "ok", elems |-> es],
             \A k \in 1..j : decodePacket[es[k]].st = "ok"
      PROVE  Whole(l, parts)
               = Decoded(FlattenSeq([k \in 1..j |-> decodePacket[es[k]].msgs]))
  <2>1. l.st = "ok" /\ l.elems = es
    BY <1>1
  <2>2. parts = [k \in 1..j |-> decodePacket[es[k]]]
    BY <1>0, <1>1, <2>1, Zenon DEF PartsOf
  <2>3. DOMAIN parts = 1..j /\ \A k \in 1..j : parts[k] = decodePacket[es[k]]
    BY <2>2, Zenon
  <2>4. Whole(l, parts) = Decoded(FlattenSeq([k \in 1..j |-> parts[k].msgs]))
    <3>1. AllDecode(parts, j)
      BY <1>1, <2>3, Zenon DEF AllDecode
    <3> QED
      BY <2>1, <3>1, WholeOk, Zenon
  <2>5. [k \in 1..j |-> parts[k].msgs] = [k \in 1..j |-> decodePacket[es[k]].msgs]
    BY <2>3, Zenon
  <2> QED
    BY <2>4, <2>5, Zenon
<1>2. /\ decodePacket[w].st = "ok" /\ decodePacket[w].msgs = ms
      /\ decodePacket[x].st = "ok" /\ decodePacket[x].msgs = n
  BY DecodedFields, Zenon
<1>3. ASSUME l = [st |-> "ok", elems |-> <<>>]
      PROVE  Whole(l, parts) = Decoded(<<>>)
  <2>1. PICK es : es = <<>> /\ DOMAIN es = 1..0
    OBVIOUS
  <2>2. Whole(l, parts) = Decoded(FlattenSeq([k \in 1..0 |-> decodePacket[es[k]].msgs]))
    <3>1. 0 \in Nat /\ \A k \in 1..0 : FALSE
      OBVIOUS
    <3> QED
      BY <1>1, <1>3, <2>1, <3>1, Zenon
  <2>3. [k \in 1..0 |-> decodePacket[es[k]].msgs] = <<>>
    OBVIOUS
  <2> QED
    BY <2>2, <2>3, FlattenFew, Zenon
<1>4. ASSUME l = [st |-> "ok", elems |-> <<w>>]
      PROVE  Whole(l, parts) = Decoded(ms)
  <2>0. DOMAIN <<w>> = 1..1 /\ <<w>>[1] = w
    OBVIOUS
  <2>1. PICK es : es = <<w>> /\ DOMAIN es = 1..1 /\ es[1] = w
    BY <2>0, Zenon
  <2>2. Whole(l, parts) = Decoded(FlattenSeq([k \in 1..1 |-> decodePacket[es[k]].msgs]))
    <3>1. 1 \in Nat /\ \A k \in 1..1 : k = 1
      OBVIOUS
    <3>2. \A k \in 1..1 : decodePacket[es[k]].st = "ok"
      BY <1>2, <2>1, <3>1, Zenon
    <3> QED
      BY <1>1, <1>4, <2>1, <3>1, <3>2, Zenon
  <2>3. PICK f : f = [k \in 1..1 |-> decodePacket[es[k]].msgs]
    OBVIOUS
  <2>4. 1 \in 1..1
    OBVIOUS
  <2>5. f[1] = ms /\ f = [k \in 1..1 |-> f[k]]
    BY <1>2, <2>1, <2>3, <2>4, Zenon
  <2>6. f = <<ms>>
    BY <2>5, FewAreTuples, Zenon
  <2> QED
    BY <2>2, <2>3, <2>6, FlattenFew, Zenon
<1>5. ASSUME l = [st |-> "ok", elems |-> <<w, x>>]
      PROVE  Whole(l, parts) = Decoded(ms \o n)
  <2>0. DOMAIN <<w, x>> = 1..2 /\ <<w, x>>[1] = w /\ <<w, x>>[2] = x
    OBVIOUS
  <2>1. PICK es : es = <<w, x>> /\ DOMAIN es = 1..2 /\ es[1] = w /\ es[2] = x
    BY <2>0, Zenon
  <2>2. Whole(l, parts) = Decoded(FlattenSeq([k \in 1..2 |-> decodePacket[es[k]].msgs]))
    <3>1. 2 \in Nat /\ \A k \in 1..2 : k = 1 \/ k = 2
      OBVIOUS
    <3>2. \A k \in 1..2 : decodePacket[es[k]].st = "ok"
      BY <1>2, <2>1, <3>1, Zenon
    <3> QED
      BY <1>1, <1>5, <2>1, <3>1, <3>2, Zenon
  <2>3. PICK f : f = [k \in 1..2 |-> decodePacket[es[k]].msgs]
    OBVIOUS
  <2>4. 1 \in 1..2 /\ 2 \in 1..2
    OBVIOUS
  <2>5. f[1] = ms /\ f[2] = n /\ f = [k \in 1..2 |-> f[k]]
    BY <1>2, <2>1, <2>3, <2>4, Zenon
  <2>6. f = <<ms, n>>
    BY <2>5, FewAreTuples, Zenon
  <2>7. FlattenSeq(f) = ms \o n
    BY <2>6, FlattenFew, Zenon
  <2> QED
    BY <2>2, <2>3, <2>7, Zenon
<1> QED
  BY <1>0, <1>3, <1>4, <1>5, Zenon DEF TwoMade

\* What comes of a bundle of the packets w and x that starts as it was sent:
\* an error, nothing, what is in w, or what is in both.
BundleComesBack(d, ms, n, b, whole) ==
  \/ d = Failed /\ b # whole
  \/ d = Decoded(<<>>) /\ b # whole
  \/ d = Decoded(ms) /\ b # whole
  \/ d = Decoded(ms \o n)

\* decodePacket, decodeBundle: a bundle comes back, cut or whole.
LEMMA BundleBack ==
  ASSUME NEW w \in Seq(Byte), Len(w) <= Datagram,
         NEW x \in Seq(Byte), Len(x) <= Datagram,
         NEW ms, decodePacket[w] = Decoded(ms),
         NEW n, decodePacket[x] = Decoded(n),
         NEW b, Start(b, BundleOf(<<w, x>>))
  PROVE  BundleComesBack(decodePacket[b], ms, n, b, BundleOf(<<w, x>>))
<1>1. PICK h \in Seq(Byte), y \in Seq(Byte) :
        /\ h = BundleHeader \o Zeros(8) /\ Len(h) = 16
        /\ y = Sized(w) \o Sized(x)
        /\ BundleOf(<<w, x>>) = h \o y
  <2>1. Sized(w) \in Seq(Byte) /\ Sized(x) \in Seq(Byte)
    BY SizedBytes, Zenon
  <2>2. Sized(w) \o Sized(x) \in Seq(Byte)
    BY <2>1, JoinedBytes, Zenon
  <2>3. PICK h \in Seq(Byte) : h = BundleHeader \o Zeros(8) /\ Len(h) = 16
    BY HeaderBytes, Zenon
  <2>4. PICK y \in Seq(Byte) : y = Sized(w) \o Sized(x)
    BY <2>2, Zenon
  <2>5. BundleOf(<<w, x>>) = h \o y
    BY <2>3, <2>4, BundleParts, Zenon
  <2> QED
    BY <2>3, <2>4, <2>5, Zenon
<1>2. Start(b, h \o y)
  BY <1>1, Zenon
<1>3. /\ \A k \in 1..Len(b) : k <= Len(h) => b[k] = h[k]
      /\ Len(b) >= Len(h) =>
           /\ Start(From(b, Len(h)), y)
           /\ b = h \o From(b, Len(h))
           /\ b = h \o y => From(b, Len(h)) = y
      /\ Len(b) < Len(h) => b # h \o y
  BY <1>2, StartBehind, Zenon
<1>4. b \in Seq(Byte) /\ b \in Slice
  BY <1>2, Zenon DEF Start, Slice
<1>5. PICK l \in Nat : l = Len(b)
  BY <1>4, LenProperties, Zenon
<1>6. \A k \in 1..8 : k \in 1..l => b[k] = BundleHeader[k]
  <2>1. \A k \in 1..8 : k <= 16
    OBVIOUS
  <2> QED
    BY <1>1, <1>3, <1>5, <2>1, HeaderBytes, Zenon
<1>7. CASE l < 8
  <2>1. \A k \in 1..Len(b) : b[k] # 0
    <3>1. \A k \in 1..l : k \in 1..7 /\ k \in 1..8
      BY <1>7
    <3> QED
      BY <1>5, <1>6, <3>1, HeaderBytes, Zenon
  <2>2. readString(b) = Unreadable
    BY <1>4, <2>1, NoNull, Zenon
  <2>3. ~readString(b).ok
    BY <2>2 DEF Unreadable
  <2>4. decodeMessage(b) = Failed
    BY <2>3, Zenon DEF decodeMessage
  <2>5. decodePacket[b] = Failed
    BY <1>4, <1>5, <1>7, <2>4, NoBundle, Zenon
  <2>6. b # h \o y
    <3>1. l < 16
      BY <1>7
    <3> QED
      BY <1>1, <1>3, <1>5, <3>1, Zenon
  <2> QED
    BY <1>1, <2>5, <2>6, Zenon DEF BundleComesBack
<1>8. CASE ~(l < 8)
  <2>1. Upto(b, 8) = BundleHeader
    <3>1. 8 \in Nat /\ 8 <= Len(b) /\ \A k \in 1..8 : k \in 1..l
      BY <1>5, <1>8
    <3>2. /\ Upto(b, 8) \in Seq(Byte)
          /\ Len(Upto(b, 8)) = 8
          /\ \A k \in 1..8 : Upto(b, 8)[k] = b[k]
      BY <1>4, <3>1, SlicedBytes, Zenon
    <3>3. PICK u \in Seq(Byte) : u = Upto(b, 8) /\ Len(u) = 8 /\ \A k \in 1..8 : u[k] = b[k]
      BY <3>2, Zenon
    <3>4. PICK v \in Seq(Byte) : v = BundleHeader /\ Len(v) = 8
      BY HeaderBytes, Zenon
    <3>5. \A k \in 1..8 : u[k] = v[k]
      BY <1>6, <3>1, <3>3, <3>4, Zenon
    <3>6. Len(u) = Len(v) /\ \A k \in 1..Len(u) : u[k] = v[k]
      BY <3>3, <3>4, <3>5, Zenon
    <3>7. u = v
      BY <3>6, SameBytes, Zenon
    <3> QED
      BY <3>3, <3>4, <3>7, Zenon
  <2>2. decodePacket[b] = Packet(decodePacket, b)
    BY <1>4, PacketUnfold, Zenon
  <2>3. CASE l < 16
    <3>1. decodePacket[b] = Failed
      BY <1>5, <1>8, <2>1, <2>2, <2>3, Zenon DEF Packet
    <3>2. b # h \o y
      BY <1>1, <1>3, <1>5, <2>3, Zenon
    <3> QED
      BY <1>1, <3>1, <3>2, Zenon DEF BundleComesBack
  <2>4. CASE ~(l < 16)
    <3>1. l >= 16
      BY <2>4
    <3>2. PICK c : /\ c = From(b, 16)
                   /\ Start(c, y)
                   /\ b = h \o y => c = y
      BY <1>1, <1>3, <1>5, <3>1, Zenon
    <3>3. PICK e : e = Elements[c]
      OBVIOUS
    <3>4. PICK parts : parts = PartsOf(e)
      OBVIOUS
    <3>5. decodePacket[b] = Whole(e, parts)
      BY <1>5, <1>8, <2>1, <2>2, <2>4, <3>2, <3>3, <3>4, Zenon DEF Packet, PartsOf
    <3>6. TwoBack(e, c, w, x)
      BY <1>1, <3>2, <3>3, TwoReadBack, Zenon
    <3>7. TwoMade(Whole(e, parts), e, w, x, ms, n)
      BY <3>4, TwoDecoded, Zenon
    <3>8. e.st = "error" => Whole(e, parts) = Failed
      <4>1. \A k \in DOMAIN parts : parts[k].st # "panic"
        <5>1. PICK bundle : /\ bundle = Elements[From(b, 16)]
                            /\ \A k \in DOMAIN bundle.elems : bundle.elems[k] \in Seq(Byte)
          BY <1>4, <1>5, <3>1, BundleElements, Zenon
        <5>2. \A k \in DOMAIN e.elems : e.elems[k] \in Seq(Byte)
          BY <3>2, <3>3, <5>1, Zenon
        <5> QED
          BY <3>4, <5>2, PacketNeverBeyond, Zenon DEF PartsOf
      <4> QED
        BY <4>1, WholeFails
    <3>9. c # y => b # h \o y
      BY <3>2, Zenon
    <3>10. c # y \/ Whole(e, parts) = Decoded(ms \o n)
      BY <1>1, <3>6, <3>7, Zenon DEF TwoBack, TwoMade
    <3>11. \/ Whole(e, parts) = Failed \/ Whole(e, parts) = Decoded(<<>>)
           \/ Whole(e, parts) = Decoded(ms) \/ Whole(e, parts) = Decoded(ms \o n)
      BY <3>6, <3>7, <3>8, Zenon DEF TwoBack, TwoMade
    <3> QED
      BY <1>1, <3>5, <3>9, <3>10, <3>11, Zenon DEF BundleComesBack
  <2> QED
    BY <2>3, <2>4, Zenon
<1> QED
  BY <1>7, <1>8, Zenon

\* A bundle carries what its packets carry.
LEMMA BundleCarries ==
  ASSUME NEW w, NEW ms, Carries(w, ms), NEW m \in Sendable,
         Len(BundleOf(<<w, encodeMessage(m)>>)) <= Datagram
  PROVE  Carries(BundleOf(<<w, encodeMessage(m)>>), Append(ms, m))
<1>1. PICK x \in Seq(Byte) : x = encodeMessage(m)
  <2>1. PICK e \in Seq(Byte), t \in Seq(Byte), v \in Seq(Byte) : encodeMessage(m) = e \o (t \o v)
    BY MessageParts, Zenon
  <2>2. t \o v \in Seq(Byte)
    BY JoinedBytes, Zenon
  <2>3. e \o (t \o v) \in Seq(Byte)
    BY <2>2, JoinedBytes, Zenon
  <2> QED
    BY <2>1, <2>3, Zenon
<1>2. /\ w \in Seq(Byte) /\ Len(w) <= Datagram /\ ms \in Seq(Sendable)
      /\ decodePacket[w] = Decoded(Wires(ms))
  BY Zenon DEF Carries
<1>3. PICK whole : whole = BundleOf(<<w, x>>)
  OBVIOUS
<1>4. Len(whole) <= Datagram
  BY <1>1, <1>3, Zenon
<1>5. Len(x) <= Datagram
  BY <1>2, <1>3, <1>4, BundleLength, Zenon
<1>6. decodePacket[x] = Decoded(Wires(<<m>>))
  <2>1. Carries(x, <<m>>)
    BY <1>1, <1>5, MessageCarries, Zenon
  <2> QED
    BY <2>1, Zenon DEF Carries
<1>7. PICK v \in OnWire, s \in Seq(OnWire) :
        /\ v = Wire(m) /\ s = Wires(ms)
        /\ Wires(Append(ms, m)) = Append(s, v)
        /\ Append(s, v) \in Seq(OnWire)
  BY <1>2, WiresGrow, Zenon
<1>8. Wires(<<m>>) = <<v>>
  <2>1. Wires(<<m>>) = <<Wire(m)>>
    BY WiresOfOne, Zenon
  <2> QED
    BY <1>7, <2>1, Zenon
<1>9. s \o <<v>> = Append(s, v)
  BY AppendIsConcat
<1>10. \A b : Start(b, whole) => BundleComesBack(decodePacket[b], s, <<v>>, b, whole)
  BY <1>2, <1>3, <1>5, <1>6, <1>7, <1>8, BundleBack, Zenon
<1>11. whole \in Seq(Byte) /\ whole # <<>>
  <2>1. PICK h \in Seq(Byte), a \in Seq(Byte), c \in Seq(Byte) :
          /\ whole = h \o (a \o c) /\ Len(h) = 16
    <3>1. PICK h \in Seq(Byte) : h = BundleHeader \o Zeros(8) /\ Len(h) = 16
      BY HeaderBytes, Zenon
    <3>2. PICK a \in Seq(Byte) : a = Sized(w)
      BY <1>2, SizedBytes, Zenon
    <3>3. PICK c \in Seq(Byte) : c = Sized(x)
      BY <1>5, SizedBytes, Zenon
    <3>4. whole = h \o (a \o c)
      BY <1>3, <3>1, <3>2, <3>3, BundleParts, Zenon
    <3> QED
      BY <3>1, <3>4, Zenon
  <2>2. PICK y \in Seq(Byte) : y = a \o c
    BY JoinedBytes, Zenon
  <2>3. h \o y \in Seq(Byte) /\ Len(h \o y) = Len(h) + Len(y)
    BY JoinedBytes, Zenon
  <2>4. Len(h \o y) > 0
    BY <2>1, <2>3, LenProperties
  <2>5. h \o y # <<>>
    BY <2>4
  <2> QED
    BY <2>1, <2>2, <2>3, <2>5, Zenon
<1>12. decodePacket[whole] = Decoded(Append(s, v))
  BY <1>9, <1>10, <1>11, StartWhole, Zenon DEF BundleComesBack
<1>13. ASSUME NEW b, Start(b, whole)
       PROVE  Loses(decodePacket[b], Append(ms, m))
  <2>1. \/ decodePacket[b] = Failed
        \/ \E p : decodePacket[b] = Decoded(p) /\ IsPrefix(p, Append(s, v))
    <3>1. /\ IsPrefix(<<>>, Append(s, v))
          /\ IsPrefix(s, Append(s, v))
          /\ IsPrefix(Append(s, v), Append(s, v))
      <4>1. IsPrefix(s, Append(s, v))
        BY PrefixFacts, Zenon
      <4>2. PICK t \in Seq(OnWire) : t = Append(s, v)
        BY <1>7, Zenon
      <4>3. IsPrefix(<<>>, t) /\ IsPrefix(t, t)
        BY PrefixFacts, Zenon
      <4> QED
        BY <4>1, <4>2, <4>3, Zenon
    <3> QED
      BY <1>9, <1>10, <1>13, <3>1, Zenon DEF BundleComesBack
  <2>2. CASE decodePacket[b] = Failed
    <3>1. decodePacket[b].st # "ok"
      BY <2>2 DEF Failed
    <3> QED
      BY <3>1, Zenon DEF Loses
  <2>3. ASSUME NEW p, decodePacket[b] = Decoded(p), IsPrefix(p, Append(s, v))
        PROVE  Loses(decodePacket[b], Append(ms, m))
    <3>1. decodePacket[b].msgs = p
      BY <2>3, DecodedFields, Zenon
    <3> QED
      BY <1>7, <2>3, <3>1, Zenon DEF Loses
  <2> QED
    BY <2>1, <2>2, <2>3, Zenon
<1>14. Append(ms, m) \in Seq(Sendable)
  BY <1>2, AppendProperties
<1> QED
  BY <1>1, <1>3, <1>4, <1>7, <1>11, <1>12, <1>13, <1>14, Zenon DEF Carries

\* The packet carries what was sent; a cut one is the start of one that does.
Bytes == /\ packet \in Seq(Byte)
         /\ harm \in {"none", "cut", "altered"}
Intact == harm = "none" => Carries(packet, sent)
Harmed == harm = "cut" => \E w : Carries(w, sent) /\ Start(packet, w)
PacketInv == Bytes /\ Intact /\ Harmed

\* What is sent is what encodeMessage takes.
LEMMA SayingsSendable ==
  /\ \A m \in Sayings : Encodable(m) => m \in Sendable
  /\ \A m \in Company : m \in Sendable
BY PacketsAssumption, Zenon DEF Sendable

\* The packet of one message carries it.
LEMMA PacketInitHolds == PacketInit => PacketInv
<1> SUFFICES ASSUME PacketInit
             PROVE  PacketInv
  OBVIOUS
<1>1. PICK m \in Sayings : Encodable(m) /\ sent = <<m>> /\ packet = encodeMessage(m)
  BY Zenon DEF PacketInit
<1>2. m \in Sendable
  BY <1>1, SayingsSendable, Zenon
<1>3. Len(packet) <= Datagram /\ harm = "none"
  BY Zenon DEF PacketInit
<1>4. Carries(packet, sent)
  <2>1. Len(encodeMessage(m)) <= Datagram
    BY <1>1, <1>3, Zenon
  <2>2. Carries(encodeMessage(m), <<m>>)
    BY <1>2, <2>1, MessageCarries, Zenon
  <2> QED
    BY <1>1, <2>2, Zenon
<1>5. packet \in Seq(Byte)
  BY <1>4, Zenon DEF Carries
<1>6. harm # "cut"
  BY <1>3
<1> QED
  BY <1>3, <1>4, <1>5, <1>6 DEF PacketInv, Bytes, Intact, Harmed

\* A bundle carries what its packet carried and one message more.
LEMMA BundleKeeps == PacketInv /\ Bundle => PacketInv'
<1> SUFFICES ASSUME PacketInv, Bundle
             PROVE  PacketInv'
  OBVIOUS
<1>1. harm = "none" /\ harm' = "none" /\ Len(packet') <= Datagram
  BY Zenon DEF Bundle
<1>2. PICK m \in Company : /\ sent' = Append(sent, m)
                           /\ packet' = BundleOf(<<packet, encodeMessage(m)>>)
  BY Zenon DEF Bundle
<1>3. m \in Sendable
  BY SayingsSendable, Zenon
<1>4. Carries(packet, sent)
  BY <1>1, Zenon DEF PacketInv, Intact
<1>5. Carries(packet', sent')
  <2>1. Len(BundleOf(<<packet, encodeMessage(m)>>)) <= Datagram
    BY <1>1, <1>2, Zenon
  <2>2. Carries(BundleOf(<<packet, encodeMessage(m)>>), Append(sent, m))
    BY <1>3, <1>4, <2>1, BundleCarries, Zenon
  <2> QED
    BY <1>2, <2>2, Zenon
<1>6. packet' \in Seq(Byte)
  BY <1>5, Zenon DEF Carries
<1>7. harm' # "cut"
  BY <1>1
<1> QED
  BY <1>1, <1>5, <1>6, <1>7, Zenon DEF PacketInv, Bytes, Intact, Harmed

\* A cut leaves the start of a packet that carries what was sent.
LEMMA CutKeeps == PacketInv /\ Cut => PacketInv'
<1> SUFFICES ASSUME PacketInv, Cut
             PROVE  PacketInv'
  OBVIOUS
<1>1. /\ harm \in {"none", "cut"} /\ harm' = "cut" /\ sent' = sent
      /\ Len(packet) > 1 /\ packet' = Upto(packet, Len(packet) - 1)
  BY Zenon DEF Cut
<1>2. packet \in Seq(Byte)
  BY Zenon DEF PacketInv, Bytes
<1>3. PICK w : Carries(w, sent) /\ Start(packet, w)
  <2>1. CASE harm = "none"
    <3>1. Carries(packet, sent)
      BY <2>1, Zenon DEF PacketInv, Intact
    <3>2. Start(packet, packet)
      BY <1>2, StartWhole, Zenon
    <3> QED
      BY <3>1, <3>2, Zenon
  <2>2. CASE harm = "cut"
    BY <2>2, Zenon DEF PacketInv, Harmed
  <2> QED
    BY <1>1, <2>1, <2>2
<1>4. Start(packet', w) /\ packet' \in Seq(Byte)
  <2>1. PICK n \in Nat : n = Len(packet) /\ n > 1
    BY <1>1, <1>2, LenProperties
  <2>2. PICK k \in Nat : k = n - 1 /\ k <= n
    BY <2>1
  <2>3. PICK u : u = packet'
    OBVIOUS
  <2>4. /\ Upto(packet, k) \in Seq(Byte)
        /\ Len(Upto(packet, k)) = k
        /\ \A j \in 1..k : Upto(packet, k)[j] = packet[j]
    <3>1. k <= Len(packet)
      BY <2>1, <2>2
    <3> QED
      BY <1>2, <3>1, SlicedBytes, Zenon
  <2>5. u = Upto(packet, k)
    BY <1>1, <2>1, <2>2, <2>3, Zenon
  <2>6. u \in Seq(Byte) /\ Len(u) = k /\ \A j \in 1..k : u[j] = packet[j]
    BY <2>4, <2>5, Zenon
  <2>7. w \in Seq(Byte) /\ n <= Len(w) /\ \A j \in 1..n : packet[j] = w[j]
    BY <1>3, <2>1, Zenon DEF Start
  <2>8. Len(u) <= Len(w)
    BY <2>1, <2>2, <2>6, <2>7, LenProperties
  <2>9. \A j \in 1..Len(u) : j \in 1..k /\ j \in 1..n
    BY <2>1, <2>2, <2>6
  <2>10. \A j \in 1..Len(u) : u[j] = w[j]
    BY <2>6, <2>7, <2>9, Zenon
  <2>11. Start(u, w)
    BY <2>6, <2>7, <2>8, <2>10, Zenon DEF Start
  <2> QED
    BY <2>3, <2>6, <2>11, Zenon
<1>5. harm' # "none"
  BY <1>1
<1> QED
  BY <1>1, <1>3, <1>4, <1>5, Zenon DEF PacketInv, Bytes, Intact, Harmed

\* A replaced byte leaves bytes.
LEMMA AlterKeeps == PacketInv /\ Alter => PacketInv'
<1> SUFFICES ASSUME PacketInv, Alter
             PROVE  PacketInv'
  OBVIOUS
<1>1. packet \in Seq(Byte)
  BY Zenon DEF PacketInv, Bytes
<1>2. PICK k \in DOMAIN packet, b \in Strays : packet' = [packet EXCEPT ![k] = b]
  BY Zenon DEF Alter
<1>3. harm' = "altered"
  BY Zenon DEF Alter
<1>4. packet' \in Seq(Byte)
  <2>1. b \in Byte
    BY PacketsAssumption, Zenon
  <2>2. [packet EXCEPT ![k] = b] \in Seq(Byte)
    BY <1>1, <2>1, ExceptSeq
  <2> QED
    BY <1>2, <2>2, Zenon
<1>5. harm' # "none" /\ harm' # "cut" /\ harm' \in {"none", "cut", "altered"}
  BY <1>3
<1> QED
  BY <1>4, <1>5, Zenon DEF PacketInv, Bytes, Intact, Harmed

\* A packet carries what was sent, or is the start of one that does.
LEMMA PacketSpecInv == PacketSpec => []PacketInv
<1>1. PacketInv /\ UNCHANGED packetVars => PacketInv'
  BY DEF PacketInv, Bytes, Intact, Harmed, packetVars
<1>2. PacketInv /\ [PacketNext]_packetVars => PacketInv'
  BY <1>1, BundleKeeps, CutKeeps, AlterKeeps, Zenon DEF PacketNext
<1> QED
  BY <1>2, PacketInitHolds, PTL DEF PacketSpec

\* message.go: no packet, however it was harmed, makes the decoder slice beyond
\* the end of its bytes.
THEOREM NeverBeyondHolds == PacketSpec => []NeverBeyond
<1>1. PacketInv => NeverBeyond
  BY PacketNeverBeyond, Zenon DEF PacketInv, Bytes, NeverBeyond
<1> QED
  BY <1>1, PacketSpecInv, PTL

\* encodeMessage, decodePacket: whatever messages are sent, in whatever bundles
\* of bundles, a packet that arrives as it was sent decodes to them in their
\* order.
THEOREM RoundTripHolds == PacketSpec => []RoundTrip
<1>1. PacketInv => RoundTrip
  BY Zenon DEF PacketInv, Intact, RoundTrip, Carries, Original, Wires
<1> QED
  BY <1>1, PacketSpecInv, PTL

\* decodeMessage, decodeBundle: a packet cut at any byte is refused or loses
\* messages at its end; only a single message may lose its arguments, and then
\* it loses all of them.
THEOREM CutOnlyLosesHolds == PacketSpec => []CutOnlyLoses
<1>1. PacketInv => CutOnlyLoses
  BY Zenon DEF PacketInv, Harmed, CutOnlyLoses, Carries, Loses, Original, Wires, Bare, Unargued
<1> QED
  BY <1>1, PacketSpecInv, PTL

=============================================================================
