----------------------------- MODULE BleFraming -----------------------------
(***************************************************************************)
(* BLE-MIDI framing, blemidi/framing.go: FrameMessageMTU, which cuts a     *)
(* MIDI message into packets, and the Decoder of a Listen, which puts      *)
(* packets together again.                                                 *)
(*                                                                         *)
(* Bytes are numbers, since the decoder tells bytes apart by their high    *)
(* bit and by the values F0 and F7 only: a timestamp byte may look like    *)
(* any status.  One action is one turn of a loop of the code: one packet   *)
(* made, one byte of a SysEx or one message consumed.                      *)
(*                                                                         *)
(* The decoder is fed by FrameMessageMTU itself (as in the round trips of  *)
(* framing_test.go), by a device that packs several messages into one      *)
(* packet as the head of framing.go lays it out (external), and by a link  *)
(* that loses packets or carries alien ones.                               *)
(***************************************************************************)
EXTENDS Naturals, Sequences

CONSTANTS Messages,      \* MIDI messages that may be framed
          Stamps,        \* low timestamp bytes that FrameMessageMTU may use
          DeviceStamps,  \* those that a device may use
          Bundles,       \* sequences of messages a device puts in one packet
          Noise,         \* packets that no one framed
          Mtu,           \* usable size of a packet; below 4: unlimited
          MaxMessages,   \* bound: no more is sent after so many
          MaxAliens,     \* bound: packets that no one framed
          MaxWire        \* bound: packets on their way

Byte == 0..255
High(b) == b >= 128
Data == 0..127

Header == 128          \* the high bits of the timestamp, never looked at
SOX == 240             \* 0xF0
EOX == 247             \* 0xF7

\* Data bytes that follow a status byte.
dataLen(status) == CASE status >= 248 -> 0
                     [] status \in {241, 243} -> 1
                     [] status = 242 -> 2
                     [] status \in 240..247 \ {241, 242, 243} -> 0
                     [] status \in 192..223 -> 1
                     [] OTHER -> 2

IsSysex(m) == Len(m) >= 2 /\ m[1] = SOX /\ m[Len(m)] = EOX

ASSUME FramingAssumption ==
  /\ Messages \subseteq Seq(Byte) \ {<<>>}
  /\ \A m \in Messages :
       /\ High(m[1])
       /\ \A k \in 2..Len(m) : High(m[k]) => IsSysex(m) /\ k = Len(m)
       /\ IsSysex(m) \/ (m[1] # SOX /\ Len(m) = 1 + dataLen(m[1]))
  /\ Bundles \subseteq Seq(Messages)
  /\ \A ms \in Bundles : Len(ms) \in 1..3
  /\ Noise \subseteq Seq(Byte)
  /\ Stamps \union DeviceStamps \subseteq 128..255
  /\ Mtu \in Nat
  /\ MaxMessages \in Nat /\ MaxAliens \in Nat /\ MaxWire \in Nat

VARIABLES
  enc,      \* FrameMessageMTU: "idle", or "chunking" a long SysEx
  body,     \* data bytes of that SysEx which are in no packet yet
  stamp,    \* its timestamp byte
  wire,     \* packets on their way, with who made them
  dec,      \* Decode: "idle", in its "loop" or in consume"sysex"
  p,        \* the packet being decoded
  i,        \* the next byte of it
  running,  \* Decoder.running, 0 for none
  sysex,    \* Decoder.sysex
  inSysex,  \* Decoder.inSysex
  out,      \* the messages decoded so far
  sent,     \* history: the messages framed so far
  noisy,    \* history: a packet was lost or alien
  quiet,    \* history: none was since the last message was framed
  aliens    \* history: how many alien packets there were

encVars == <<enc, body, stamp>>
decoder == <<running, sysex, inSysex>>
decVars == <<dec, p, i, decoder, out>>
history == <<sent, noisy, quiet, aliens>>
vars == <<encVars, wire, decVars, history>>

Init == /\ enc = "idle" /\ body = <<>> /\ stamp = 128
        /\ wire = <<>>
        /\ dec = "idle" /\ p = <<>> /\ i = 1
        /\ running = 0 /\ sysex = <<>> /\ inSysex = FALSE
        /\ out = <<>>
        /\ sent = <<>> /\ noisy = FALSE /\ quiet = TRUE /\ aliens = 0

-----------------------------------------------------------------------------
(* FrameMessageMTU and chunkSysEx.  A definition whose comment begins with  *)
(* "Variant:" is the next definition with a bug in it; nothing uses it, it  *)
(* is there to show that a property would notice.                           *)

Puts(from, bytes) == /\ Len(wire) < MaxWire
                     /\ wire' = Append(wire, [from |-> from, bytes |-> bytes])

Sends(ms) == /\ enc = "idle"
             /\ Len(sent) < MaxMessages
             /\ sent' = sent \o ms
             /\ quiet' = TRUE
             /\ UNCHANGED <<decVars, noisy, aliens>>

\* Everything but a SysEx beyond the MTU goes out as one packet.
OnePacket(m) == Mtu < 4 \/ Len(m) + 2 <= Mtu \/ ~IsSysex(m)

FrameWhole(m, ts) == /\ OnePacket(m)
                     /\ Sends(<<m>>)
                     /\ Puts("frame", <<Header, ts>> \o m)
                     /\ UNCHANGED encVars

\* The first packet of a chunked SysEx: header, timestamp, F0 and data.
FrameFirst(m, ts) ==
  /\ ~OnePacket(m)
  /\ Sends(<<m>>)
  /\ Puts("frame", <<Header, ts, SOX>> \o SubSeq(m, 2, Mtu - 2))
  /\ body' = SubSeq(m, Mtu - 1, Len(m) - 1)
  /\ enc' = "chunking"
  /\ stamp' = ts

Chunks == /\ enc = "chunking"
          /\ UNCHANGED <<stamp, decVars, history>>

\* Variant: the header is not counted.
RoomUncounted == Mtu

\* What a continuation packet holds after its header.
Room == Mtu - 1

\* The rest and the terminator do not both fit.
FrameMiddle ==
  LET take == IF Room > Len(body) THEN Len(body) ELSE Room IN
  /\ Chunks
  /\ body # <<>>
  /\ Len(body) + 2 > Room
  /\ Puts("frame", <<Header>> \o SubSeq(body, 1, take))
  /\ body' = SubSeq(body, take + 1, Len(body))
  /\ UNCHANGED enc

\* The last packet: what is left (perhaps nothing), timestamp and F7.
FrameLast == /\ Chunks
             /\ body = <<>> \/ Len(body) + 2 <= Room
             /\ Puts("frame", <<Header>> \o body \o <<stamp, EOX>>)
             /\ body' = <<>>
             /\ enc' = "idle"

-----------------------------------------------------------------------------
(* The other end and the link, external. *)

\* A message as a device puts it into a packet: its timestamp first, the
\* terminator of a SysEx with a timestamp of its own, and without its status
\* if that is still running.
Stamped(m, ts, isRunning) ==
  <<ts>> \o (IF isRunning THEN Tail(m)
             ELSE IF IsSysex(m) THEN SubSeq(m, 1, Len(m) - 1) \o <<ts, EOX>>
             ELSE m)

\* The status of message k of a bundle is that of the last channel message,
\* with nothing but real-time messages in between.
Repeats(ms, k) == \E j \in 1..k-1 :
                    /\ ms[j][1] = ms[k][1] /\ ms[k][1] < SOX
                    /\ \A n \in j+1..k-1 : ms[n][1] >= 248

\* The packet of a bundle of one to three messages.
Bundle(ms, ts, runs) ==
  LET part(k) == IF k > Len(ms) THEN <<>>
                 ELSE Stamped(ms[k], ts, runs /\ Repeats(ms, k))
  IN  <<Header>> \o part(1) \o part(2) \o part(3)

DeviceSends(ms, ts, runs) == /\ Sends(ms)
                             /\ Puts("device", Bundle(ms, ts, runs))
                             /\ UNCHANGED encVars

\* A notification that is lost, or one that nobody framed.
Disturbs == /\ noisy' = TRUE
            /\ quiet' = FALSE
            /\ UNCHANGED <<encVars, decVars, sent>>

Lose == /\ wire # <<>>
        /\ wire' = Tail(wire)
        /\ Disturbs
        /\ UNCHANGED aliens

Alien(q) == /\ aliens < MaxAliens
            /\ aliens' = aliens + 1
            /\ Puts("noise", q)
            /\ Disturbs

-----------------------------------------------------------------------------
(* Decoder.Decode and consumeSysex. *)

Decodes(at, next) == /\ dec = at
                     /\ dec' = next
                     /\ UNCHANGED <<encVars, wire, p, history>>

\* Decode is called with the next packet.  A packet of less than two bytes
\* yields nothing; a SysEx that is open goes on after the header.
Receive == /\ dec = "idle"
           /\ wire # <<>>
           /\ wire' = Tail(wire)
           /\ p' = Head(wire).bytes
           /\ i' = 2
           /\ dec' = IF Len(p') < 2 THEN "idle"
                     ELSE IF inSysex THEN "sysex" ELSE "loop"
           /\ UNCHANGED <<encVars, decoder, out, history>>

\* Variant: Decoder.running survives the SysEx.
SysexKeepsRunning == /\ Decodes("sysex", "loop")
                     /\ i <= Len(p) /\ p[i] = EOX
                     /\ out' = Append(out, Append(sysex, EOX))
                     /\ sysex' = <<>>
                     /\ inSysex' = FALSE
                     /\ UNCHANGED running
                     /\ i' = i + 1

\* The first F7 ends the SysEx.
SysexEnds == /\ Decodes("sysex", "loop")
             /\ i <= Len(p) /\ p[i] = EOX
             /\ out' = Append(out, Append(sysex, EOX))
             /\ sysex' = <<>>
             /\ inSysex' = FALSE
             /\ running' = 0
             /\ i' = i + 1

\* Variant: no byte is skipped.
SkipsNothing == /\ Decodes("sysex", "sysex")
                /\ i <= Len(p) /\ High(p[i]) /\ p[i] # EOX
                /\ i' = i + 1
                /\ sysex' = Append(sysex, p[i])
                /\ UNCHANGED <<running, inSysex, out>>

\* Any other byte with the high bit set is taken for a timestamp.
SysexSkips == /\ Decodes("sysex", "sysex")
              /\ i <= Len(p) /\ High(p[i]) /\ p[i] # EOX
              /\ i' = i + 1
              /\ UNCHANGED <<decoder, out>>

SysexData == /\ Decodes("sysex", "sysex")
             /\ i <= Len(p) /\ ~High(p[i])
             /\ sysex' = Append(sysex, p[i])
             /\ i' = i + 1
             /\ UNCHANGED <<running, inSysex, out>>

\* The packet ends with the SysEx open.
SysexPauses == /\ Decodes("sysex", "loop")
               /\ i > Len(p)
               /\ UNCHANGED <<decoder, i, out>>

\* A turn of the loop: where the status is, what it is, where its data begin.
At == IF i <= Len(p) /\ High(p[i]) THEN i + 1 ELSE i
Explicit == At <= Len(p) /\ High(p[At])
Status == IF Explicit THEN p[At] ELSE running
First == IF Explicit THEN At + 1 ELSE At

HasMessage == At <= Len(p) /\ Status # 0
Complete == First + dataLen(Status) <= Len(p) + 1

LoopOpensSysex == /\ Decodes("loop", "sysex")
                  /\ HasMessage /\ Status = SOX
                  /\ inSysex' = TRUE
                  /\ sysex' = <<SOX>>
                  /\ i' = First
                  /\ UNCHANGED <<running, out>>

\* Variant: a real-time message becomes the running status.
AnyStatusRuns(status) == IF status = running THEN running ELSE status

\* Variant: a real-time message cancels running status.
RealTimeCancels(status) == IF status < SOX THEN status ELSE 0

\* Only channel-voice messages run; system common ones cancel it.
RunningAfter(status) == IF status < SOX THEN status
                        ELSE IF status < 248 THEN 0
                        ELSE running

LoopMessage ==
  /\ Decodes("loop", "loop")
  /\ HasMessage /\ Status # SOX /\ Complete
  /\ out' = Append(out, <<Status>> \o SubSeq(p, First, First + dataLen(Status) - 1))
  /\ i' = First + dataLen(Status)
  /\ running' = RunningAfter(Status)
  /\ UNCHANGED <<sysex, inSysex>>

\* The packet is used up, ends in a timestamp or a truncated message, or goes
\* on with data for which no status is running.
LoopStops == /\ Decodes("loop", "idle")
             /\ ~HasMessage \/ (Status # SOX /\ ~Complete)
             /\ UNCHANGED <<decoder, i, out>>

-----------------------------------------------------------------------------
Frame == \/ \E m \in Messages, ts \in Stamps : FrameWhole(m, ts) \/ FrameFirst(m, ts)
         \/ FrameMiddle \/ FrameLast

Link == \/ \E ms \in Bundles, ts \in DeviceStamps, runs \in BOOLEAN :
             DeviceSends(ms, ts, runs)
        \/ Lose
        \/ \E q \in Noise : Alien(q)

Decode == \/ Receive
          \/ SysexEnds \/ SysexSkips \/ SysexData \/ SysexPauses
          \/ LoopOpensSysex \/ LoopMessage \/ LoopStops

Next == Frame \/ Link \/ Decode

Spec == Init /\ [][Next]_vars

-----------------------------------------------------------------------------
(* Properties. *)

\* The types of the variables.  The index of the decoder never passes the end
\* of the packet by more than one, and running status is a channel status.
TypeOK == /\ enc \in {"idle", "chunking"}
          /\ body \in Seq(Data)
          /\ stamp \in 128..255
          /\ wire \in Seq([from : {"frame", "device", "noise"},
                           bytes : Seq(Byte)])
          /\ dec \in {"idle", "sysex", "loop"}
          /\ p \in Seq(Byte)
          /\ i \in Nat /\ (dec # "idle" => i \in 2..Len(p)+1)
          /\ running \in {0} \union 128..239
          /\ sysex \in Seq(Byte)
          /\ inSysex \in BOOLEAN
          /\ out \in Seq(Seq(Byte))
          /\ sent \in Seq(Messages)
          /\ noisy \in BOOLEAN
          /\ quiet \in BOOLEAN
          /\ aliens \in 0..MaxAliens

\* FrameMessageMTU: "one or more BLE-MIDI packets, each at most mtu bytes"; an
\* MTU of 5 holds every message that is not a SysEx.
PacketsFit == Mtu >= 5 =>
  \A k \in 1..Len(wire) : wire[k].from = "frame" => Len(wire[k].bytes) <= Mtu

\* A status with as many bytes behind it as it calls for, or a SysEx from F0
\* to F7 with nothing but data in between.
Delimited(m) ==
  /\ m # <<>> /\ High(m[1])
  /\ \/ m[1] # SOX /\ Len(m) = 1 + dataLen(m[1])
     \/ IsSysex(m) /\ \A k \in 2..Len(m)-1 : ~High(m[k])

\* Decode: whatever bytes arrive, alien packets in any place and number, and
\* however packets are lost, what the decoder hands on is delimited.  Not more:
\* it copies the bytes behind a status unchecked, so after a loss or in an
\* alien packet they may be no data bytes.  Without either RoundTrip says that
\* they are, and SysexResyncs when the decoder is back.
MessagesDelimited == \A k \in 1..Len(out) : Delimited(out[k])

AllDecoded == enc = "idle" /\ wire = <<>> /\ dec = "idle"

\* Decoder and FrameMessageMTU: what was framed is decoded, in order and byte
\* by byte, across packets, timestamps and running status, as long as no
\* packet is lost or alien; when all is decoded nothing is missing.
RoundTrip == ~noisy =>
  /\ Len(out) <= Len(sent)
  /\ out = SubSeq(sent, 1, Len(out))
  /\ AllDecoded => Len(out) = Len(sent)

\* A decoder that lost its place (in the middle of a SysEx whose end was lost,
\* or with the wrong status running) is back in its initial state after the
\* next whole SysEx.
SysexResyncs ==
  (AllDecoded /\ quiet /\ sent # <<>> /\ IsSysex(sent[Len(sent)]))
    => ~inSysex /\ sysex = <<>> /\ running = 0

=============================================================================
