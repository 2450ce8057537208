----------------------------- MODULE OscPackets -----------------------------
(***************************************************************************)
(* What becomes of OSC packets between an encoder and decodePacket         *)
(* (osc/message.go).  A peer encodes messages, and may put packets into    *)
(* bundles, also bundles into bundles; the packet is then decoded as it    *)
(* is, cut at any byte, or with any one byte replaced.                     *)
(***************************************************************************)
EXTENDS OscCodec

CONSTANTS Sayings,   \* messages a peer wants to send
          Company,   \* those of them it puts into one packet with others
          MaxSent,   \* bound: messages in one packet
          Strays     \* bytes that may replace one of a packet

Datagram == 65507  \* bound: bytes that fit into a UDP datagram

Int32 == {v \in Int : -2147483647 - 1 <= v /\ v <= 2147483647}

\* The Go values that encodeMessage takes, of strings those without a null.
Value == (Integer \X Int32)
           \union (Float \X [1..4 -> Byte])
           \union ({"string"} \X Seq(Byte \ {0}))
           \union ({"blob"} \X {b \in Seq(Byte) : Len(b) <= Datagram})
           \union ({"bool"} \X BOOLEAN)
           \union {<<"nil", <<>> >>}

ASSUME PacketsAssumption ==
  /\ \A m \in Sayings :
       Encodable(m) => m \in [addr : Seq(Byte \ {0}), args : Seq(Value)]
  /\ Company \subseteq {m \in Sayings : Encodable(m)}
  /\ MaxSent \in Nat
  /\ Strays \subseteq Byte

VARIABLES
  sent,    \* history: the messages in the packet, in their order
  packet,  \* the packet, <<>> if there is none
  harm     \* "none", or what happened to it: "cut", "altered"

packetVars == <<sent, packet, harm>>

NoPacket == sent = <<>> /\ packet = <<>> /\ harm = "none"

PacketInit == /\ \E m \in Sayings : /\ Encodable(m)
                                     /\ sent = <<m>>
                                     /\ packet = encodeMessage(m)
              /\ Len(packet) <= Datagram
              /\ harm = "none"

\* A bundle of packets with a timetag: the format that decodePacket reads.
BundleOf(packets) ==
  BundleHeader \o Zeros(8)
    \o FlattenSeq([k \in DOMAIN packets |->
                     appendInt32(Len(packets[k])) \o packets[k]])

Bundle == /\ harm = "none"
          /\ Len(sent) < MaxSent
          /\ \E m \in Company :
               /\ sent' = Append(sent, m)
               /\ packet' = BundleOf(<<packet, encodeMessage(m)>>)
          /\ Len(packet') <= Datagram
          /\ UNCHANGED harm

Cut == /\ harm \in {"none", "cut"}
       /\ Len(packet) > 1
       /\ packet' = Upto(packet, Len(packet) - 1)
       /\ harm' = "cut"
       /\ UNCHANGED sent

Alter == /\ harm = "none"
         /\ \E k \in DOMAIN packet, b \in Strays :
              packet' = [packet EXCEPT ![k] = b]
         /\ harm' = "altered"
         /\ UNCHANGED sent

PacketNext == packet # <<>> /\ (Bundle \/ Cut \/ Alter)

PacketSpec == PacketInit /\ [][PacketNext]_packetVars

-----------------------------------------------------------------------------
(* Properties. *)

\* What a value is after a round trip: every integer an int32, every float a
\* float32; and a message.
WireValue(a) == <<CASE a[1] \in Integer -> "int32"
                    [] a[1] \in Float -> "float32"
                    [] OTHER -> a[1],
                  a[2]>>

Wire(m) == [m EXCEPT !.args = [k \in DOMAIN m.args |-> WireValue(m.args[k])]]

Original == [k \in DOMAIN sent |-> Wire(sent[k])]

\* message.go encodeMessage / decodePacket: a packet that arrives as it was
\* sent decodes to the messages it was made of, in their order, whatever
\* bundles it is wrapped in.
RoundTrip == packet # <<>> /\ harm = "none"
               => decodePacket[packet] = Decoded(Original)

\* The sender's addresses without arguments, which a decoder has to tolerate.
Bare == <<[addr |-> sent[1].addr, args |-> <<>>]>>

\* message.go decodeMessage / decodeBundle: a packet that was cut is refused,
\* or loses messages at its end; no message comes out of it with arguments
\* that were not sent, or with some of them.  Only a message that is cut right
\* behind its address is taken for one without arguments.
CutOnlyLoses ==
  harm = "cut" => LET d == decodePacket[packet]
                  IN  d.st = "ok" => \/ IsPrefix(d.msgs, Original)
                                     \/ Len(sent) = 1 /\ d.msgs = Bare

\* message.go: no packet, however it was harmed, makes the decoder slice
\* beyond the end of its bytes, which would end the process.
NeverBeyond == packet # <<>> => decodePacket[packet].st # "panic"

=============================================================================
