--------------------------- MODULE Auv3Midi_proofs ---------------------------
(***************************************************************************)
(* Proofs about Auv3Midi: for every set of byte strings to be sent.        *)
(***************************************************************************)
EXTENDS Auv3Midi, SequenceTheorems, TLAPS

\* What & 0x7F does to a byte.
LEMMA Masked ==
  ASSUME NEW x \in 0..255
  PROVE  /\ x % 128 \in 0..127
         /\ x < 128 => x % 128 = x
OBVIOUS

\* Data bytes have seven bits, whatever the length of the message.
LEMMA DataBits ==
  ASSUME NEW data \in Seq(0..255), NEW i \in Nat
  PROVE  Data(data, i) \in 0..127
<1>1. CASE Len(data) > i
  <2>1. i + 1 \in 1..Len(data) BY <1>1
  <2>2. data[i + 1] \in 0..255 BY <2>1, ElementOfSeq
  <2>3. data[i + 1] % 128 \in 0..127 BY <2>2, Masked
  <2> QED BY <1>1, <2>3 DEF Data
<1>2. CASE ~(Len(data) > i) BY <1>2 DEF Data
<1> QED BY <1>1, <1>2

\* A well-formed data byte is taken as it is.
LEMMA DataTaken ==
  ASSUME NEW data \in Seq(0..255), NEW i \in Nat,
         Len(data) > i, data[i + 1] < 128
  PROVE  Data(data, i) = data[i + 1]
<1>1. i + 1 \in 1..Len(data) OBVIOUS
<1>2. data[i + 1] \in 0..255 BY <1>1, ElementOfSeq
<1>3. data[i + 1] % 128 = data[i + 1] BY <1>2, Masked
<1> QED BY <1>3 DEF Data

\* The frame of a command keeps every field but an empty channel or action.
LEMMA MarshalKeeps ==
  ASSUME NEW cmd, DOMAIN cmd = DOMAIN NoCommand,
         NEW f \in DOMAIN NoCommand,
         f \in {"channel", "action"} => cmd[f] # NoCommand[f]
  PROVE  f \in DOMAIN Marshal(cmd) /\ Marshal(cmd)[f] = cmd[f]
BY DEF Marshal

\* The brain plays a note-on and a note-off.
LEMMA NoteOnPlayed ==
  ASSUME NEW ch \in 1..16, NEW n \in 0..127, NEW v \in 0..127
  PROVE  Emit(Marshal(Note("noteOn", ch, n, v))) = <<143 + ch, n, v>>
<1> DEFINE cmd == Note("noteOn", ch, n, v)
           frame == Marshal(cmd)
<1>1. /\ DOMAIN cmd = DOMAIN NoCommand
      /\ cmd.type = "noteOn" /\ cmd.channel = ch /\ cmd.note = n
      /\ cmd.velocity = v
  BY DEF Note, NoCommand
<1>2. cmd.channel # NoCommand.channel BY <1>1 DEF NoCommand
<1>3. {"type", "channel", "note", "velocity"} \subseteq DOMAIN NoCommand
  BY DEF NoCommand
<1>4. /\ {"type", "channel", "note", "velocity"} \subseteq DOMAIN frame
      /\ frame.type = "noteOn" /\ frame.channel = ch /\ frame.note = n
      /\ frame.velocity = v
  <2> HIDE DEF cmd
  <2> QED BY <1>1, <1>2, <1>3, MarshalKeeps
<1> HIDE DEF frame
<1>5. Needs(frame.type) \subseteq DOMAIN frame BY <1>4 DEF Needs
<1>6. Emit(frame) = <<143 + ch, n, v>> BY <1>4, <1>5 DEF Emit
<1> QED BY <1>6 DEF frame, cmd

LEMMA NoteOffPlayed ==
  ASSUME NEW ch \in 1..16, NEW n \in 0..127, NEW v \in 0..127
  PROVE  Emit(Marshal(Note("noteOff", ch, n, v))) = <<127 + ch, n, v>>
<1> DEFINE cmd == Note("noteOff", ch, n, v)
           frame == Marshal(cmd)
<1>1. /\ DOMAIN cmd = DOMAIN NoCommand
      /\ cmd.type = "noteOff" /\ cmd.channel = ch /\ cmd.note = n
      /\ cmd.velocity = v
  BY DEF Note, NoCommand
<1>2. cmd.channel # NoCommand.channel BY <1>1 DEF NoCommand
<1>3. {"type", "channel", "note", "velocity"} \subseteq DOMAIN NoCommand
  BY DEF NoCommand
<1>4. /\ {"type", "channel", "note", "velocity"} \subseteq DOMAIN frame
      /\ frame.type = "noteOff" /\ frame.channel = ch /\ frame.note = n
      /\ frame.velocity = v
  <2> HIDE DEF cmd
  <2> QED BY <1>1, <1>2, <1>3, MarshalKeeps
<1> HIDE DEF frame
<1>5. Needs(frame.type) \subseteq DOMAIN frame BY <1>4 DEF Needs
<1>6. Emit(frame) = <<127 + ch, n, v>> BY <1>4, <1>5 DEF Emit
<1> QED BY <1>6 DEF frame, cmd

\* The brain plays a control change, a program change and a transport command.
LEMMA ControlPlayed ==
  ASSUME NEW ch \in 1..16, NEW n \in 0..127, NEW v \in 0..127
  PROVE  Emit(Marshal(Control(ch, n, v)))
           = <<175 + ch, n, v>>
<1> DEFINE cmd == Control(ch, n, v)
           frame == Marshal(cmd)
<1>1. /\ DOMAIN cmd = DOMAIN NoCommand
      /\ cmd.type = "cc" /\ cmd.channel = ch /\ cmd.controller = n
      /\ cmd.value = v
  BY DEF Control, NoCommand
<1>2. cmd.channel # NoCommand.channel BY <1>1 DEF NoCommand
<1>3. {"type", "channel", "controller", "value"} \subseteq DOMAIN NoCommand
  BY DEF NoCommand
<1>4. /\ {"type", "channel", "controller", "value"} \subseteq DOMAIN frame
      /\ frame.type = "cc" /\ frame.channel = ch /\ frame.controller = n
      /\ frame.value = v
  <2> HIDE DEF cmd
  <2> QED BY <1>1, <1>2, <1>3, MarshalKeeps
<1> HIDE DEF frame
<1>5. Needs(frame.type) \subseteq DOMAIN frame BY <1>4 DEF Needs
<1>6. Emit(frame) = <<175 + ch, n, v>> BY <1>4, <1>5 DEF Emit
<1> QED BY <1>6 DEF frame, cmd

LEMMA ProgramPlayed ==
  ASSUME NEW ch \in 1..16, NEW n \in 0..127
  PROVE  Emit(Marshal(Program(ch, n)))
           = <<191 + ch, n>>
<1> DEFINE cmd == Program(ch, n)
           frame == Marshal(cmd)
<1>1. /\ DOMAIN cmd = DOMAIN NoCommand
      /\ cmd.type = "pc" /\ cmd.channel = ch /\ cmd.program = n
  BY DEF Program, NoCommand
<1>2. cmd.channel # NoCommand.channel BY <1>1 DEF NoCommand
<1>3. {"type", "channel", "program"} \subseteq DOMAIN NoCommand
  BY DEF NoCommand
<1>4. /\ {"type", "channel", "program"} \subseteq DOMAIN frame
      /\ frame.type = "pc" /\ frame.channel = ch /\ frame.program = n
  <2> HIDE DEF cmd
  <2> QED BY <1>1, <1>2, <1>3, MarshalKeeps
<1> HIDE DEF frame
<1>5. Needs(frame.type) \subseteq DOMAIN frame BY <1>4 DEF Needs
<1>6. Emit(frame) = <<191 + ch, n>> BY <1>4, <1>5 DEF Emit
<1> QED BY <1>6 DEF frame, cmd

LEMMA TransportPlayed ==
  ASSUME NEW action \in {"start", "continue", "stop"}
  PROVE  Emit(Marshal(Transport(action)))
           = <<CASE action = "start"    -> 250
                 [] action = "continue" -> 251
                 [] action = "stop"     -> 252>>
<1> DEFINE cmd == Transport(action)
           frame == Marshal(cmd)
<1>1. /\ DOMAIN cmd = DOMAIN NoCommand
      /\ cmd.type = "transport" /\ cmd.action = action
  BY DEF Transport, NoCommand
<1>2. cmd.action # NoCommand.action BY <1>1 DEF NoCommand
<1>3. {"type", "action"} \subseteq DOMAIN NoCommand
  BY DEF NoCommand
<1>4. /\ {"type", "action"} \subseteq DOMAIN frame
      /\ frame.type = "transport" /\ frame.action = action
  <2> HIDE DEF cmd
  <2> QED BY <1>1, <1>2, <1>3, MarshalKeeps
<1> HIDE DEF frame
<1>5. Needs(frame.type) \subseteq DOMAIN frame BY <1>4 DEF Needs
<1>6. Emit(frame) = <<CASE action = "start"    -> 250
                        [] action = "continue" -> 251
                        [] action = "stop"     -> 252>>
  BY <1>4, <1>5 DEF Emit
<1> QED BY <1>6 DEF frame, cmd

-----------------------------------------------------------------------------
(* From the status byte to the message. *)

\* The two halves of a status byte.
LEMMA Status ==
  ASSUME NEW x \in 0..255
  PROVE  /\ Channel(x) \in 1..16
         /\ Kind(x) + Channel(x) = x + 1
         /\ Kind(x) = 128 <=> x \in 128..143
         /\ Kind(x) = 144 <=> x \in 144..159
         /\ Kind(x) = 176 <=> x \in 176..191
         /\ Kind(x) = 192 <=> x \in 192..207
BY DEF Channel, Kind

\* A note-off that comes of a note-on keeps the channel.
LEMMA SameChannel ==
  ASSUME NEW x \in 144..159
  PROVE  (x - 16) % 16 = x % 16 /\ x - 16 \in 128..143
OBVIOUS

\* The switches, one line for each kind of message.
LEMMA Decoded ==
  ASSUME NEW x \in 0..255, NEW a, NEW b
  PROVE  /\ x = 250 => Decode(x, a, b) = Transport("start")
         /\ x = 251 => Decode(x, a, b) = Transport("continue")
         /\ x = 252 => Decode(x, a, b) = Transport("stop")
         /\ x \in 144..159 =>
              Decode(x, a, b) = Note(IF b = 0 THEN "noteOff" ELSE "noteOn",
                                     Channel(x), a, b)
         /\ x \in 128..143 =>
              Decode(x, a, b) = Note("noteOff", Channel(x), a, b)
         /\ x \in 176..191 => Decode(x, a, b) = Control(Channel(x), a, b)
         /\ x \in 192..207 => Decode(x, a, b) = Program(Channel(x), a)
         /\ x \notin (128..159 \union 176..207 \union 250..252) =>
              Decode(x, a, b) = NoCommand
BY Status DEF Decode

\* A byte string of up to three bytes is its bytes.
LEMMA Bytes ==
  ASSUME NEW S, NEW data \in Seq(S)
  PROVE  /\ Len(data) = 1 => data = <<data[1]>>
         /\ Len(data) = 2 => data = <<data[1], data[2]>>
         /\ Len(data) = 3 => data = <<data[1], data[2], data[3]>>
<1>1. data \in [1..Len(data) -> S] /\ Len(data) \in Nat BY LenProperties
<1>2. ASSUME Len(data) = 1 PROVE data = <<data[1]>>
  <2>1. <<data[1]>> \in Seq(S) BY <1>1, <1>2
  <2> QED BY <1>2, <2>1, SeqEqual
<1>3. ASSUME Len(data) = 2 PROVE data = <<data[1], data[2]>>
  <2>1. <<data[1], data[2]>> \in Seq(S) BY <1>1, <1>3
  <2> QED BY <1>3, <2>1, SeqEqual
<1>4. ASSUME Len(data) = 3 PROVE data = <<data[1], data[2], data[3]>>
  <2>1. <<data[1], data[2], data[3]>> \in Seq(S) BY <1>1, <1>4
  <2> QED BY <1>4, <2>1, SeqEqual
<1> QED BY <1>2, <1>3, <1>4

-----------------------------------------------------------------------------
(* From the message to what is heard. *)

\* What the brain emits for a status byte and two data bytes.
HeardOf(x, a, b) == Emit(Marshal(Decode(x, a, b)))

\* A status byte with a command is heard as a complete message.
LEMMA Played ==
  ASSUME NEW x \in 0..255, NEW a \in 0..127, NEW b \in 0..127
  PROVE  /\ x \in 250..252 => HeardOf(x, a, b) = <<x>>
         /\ x \in 128..143 => HeardOf(x, a, b) = <<x, a, b>>
         /\ x \in 144..159 /\ b = 0 => HeardOf(x, a, b) = <<x - 16, a, b>>
         /\ x \in 144..159 /\ b # 0 => HeardOf(x, a, b) = <<x, a, b>>
         /\ x \in 176..191 => HeardOf(x, a, b) = <<x, a, b>>
         /\ x \in 192..207 => HeardOf(x, a, b) = <<x, a>>
<1>1. /\ Channel(x) \in 1..16
      /\ x \in 128..143 => 127 + Channel(x) = x
      /\ x \in 144..159 => 143 + Channel(x) = x /\ 127 + Channel(x) = x - 16
      /\ x \in 176..191 => 175 + Channel(x) = x
      /\ x \in 192..207 => 191 + Channel(x) = x
  BY Status
<1>2. ASSUME x = 250 \/ x = 251 \/ x = 252 PROVE HeardOf(x, a, b) = <<x>>
  BY <1>2, Decoded, TransportPlayed DEF HeardOf
<1>3. ASSUME x \in 128..143 PROVE HeardOf(x, a, b) = <<x, a, b>>
  <2>1. Decode(x, a, b) = Note("noteOff", Channel(x), a, b) BY <1>3, Decoded
  <2>2. Emit(Marshal(Note("noteOff", Channel(x), a, b)))
          = <<127 + Channel(x), a, b>>
    BY <1>1, NoteOffPlayed
  <2> QED BY <1>1, <1>3, <2>1, <2>2 DEF HeardOf
<1>4. ASSUME x \in 144..159, b = 0 PROVE HeardOf(x, a, b) = <<x - 16, a, b>>
  <2>1. Decode(x, a, b) = Note("noteOff", Channel(x), a, b) BY <1>4, Decoded
  <2>2. Emit(Marshal(Note("noteOff", Channel(x), a, b)))
          = <<127 + Channel(x), a, b>>
    BY <1>1, NoteOffPlayed
  <2> QED BY <1>1, <1>4, <2>1, <2>2 DEF HeardOf
<1>5. ASSUME x \in 144..159, b # 0 PROVE HeardOf(x, a, b) = <<x, a, b>>
  <2>1. Decode(x, a, b) = Note("noteOn", Channel(x), a, b) BY <1>5, Decoded
  <2>2. Emit(Marshal(Note("noteOn", Channel(x), a, b)))
          = <<143 + Channel(x), a, b>>
    BY <1>1, NoteOnPlayed
  <2> QED BY <1>1, <1>5, <2>1, <2>2 DEF HeardOf
<1>6. ASSUME x \in 176..191 PROVE HeardOf(x, a, b) = <<x, a, b>>
  <2>1. Decode(x, a, b) = Control(Channel(x), a, b) BY <1>6, Decoded
  <2>2. Emit(Marshal(Control(Channel(x), a, b)))
          = <<175 + Channel(x), a, b>>
    BY <1>1, ControlPlayed
  <2> QED BY <1>1, <1>6, <2>1, <2>2 DEF HeardOf
<1>7. ASSUME x \in 192..207 PROVE HeardOf(x, a, b) = <<x, a>>
  <2>1. Decode(x, a, b) = Program(Channel(x), a) BY <1>7, Decoded
  <2>2. Emit(Marshal(Program(Channel(x), a)))
          = <<191 + Channel(x), a>>
    BY <1>1, ProgramPlayed
  <2> QED BY <1>1, <1>7, <2>1, <2>2 DEF HeardOf
<1> QED BY <1>2, <1>3, <1>4, <1>5, <1>6, <1>7

\* No command of a kind is the empty one.
LEMMA Commands ==
  /\ \A action : Transport(action) # NoCommand
  /\ \A ch, n, v : Note("noteOn", ch, n, v) # NoCommand
  /\ \A ch, n, v : Note("noteOff", ch, n, v) # NoCommand
  /\ \A ch, n, v : Control(ch, n, v) # NoCommand
  /\ \A ch, n : Program(ch, n) # NoCommand
BY DEF Note, Transport, Control, Program, NoCommand

\* A command comes of one of these status bytes only.
LEMMA HasCommand ==
  ASSUME NEW x \in 0..255, NEW a, NEW b
  PROVE  Decode(x, a, b) # NoCommand
           <=> x \in (128..159 \union 176..207 \union 250..252)
<1>1. ASSUME x \in (128..159 \union 176..207 \union 250..252)
      PROVE  \/ x = 250 \/ x = 251 \/ x = 252
             \/ x \in 128..143 \/ x \in 144..159
             \/ x \in 176..191 \/ x \in 192..207
  BY <1>1
<1>2. ASSUME x = 250 \/ x = 251 \/ x = 252 PROVE Decode(x, a, b) # NoCommand
  BY <1>2, Decoded, Commands
<1>3. ASSUME x \in 128..143 PROVE Decode(x, a, b) # NoCommand
  BY <1>3, Decoded, Commands
<1>4. ASSUME x \in 144..159 PROVE Decode(x, a, b) # NoCommand
  BY <1>4, Decoded, Commands
<1>5. ASSUME x \in 176..191 PROVE Decode(x, a, b) # NoCommand
  BY <1>5, Decoded, Commands
<1>6. ASSUME x \in 192..207 PROVE Decode(x, a, b) # NoCommand
  BY <1>6, Decoded, Commands
<1>7. ASSUME x \notin (128..159 \union 176..207 \union 250..252)
      PROVE  Decode(x, a, b) = NoCommand
  BY <1>7, Decoded
<1> QED BY <1>1, <1>2, <1>3, <1>4, <1>5, <1>6, <1>7

\* What the channel carries is not skipped.
LEMMA NotSkipped ==
  ASSUME NEW data \in Seq(0..255), Carried(data)
  PROVE  CommandFromMIDI(data) # NoCommand
<1>1. data # <<>> BY DEF Carried
<1>2. data[1] \in 0..255
  <2>1. 1 \in 1..Len(data) BY <1>1, EmptySeq
  <2> QED BY <2>1, ElementOfSeq
<1>3. data[1] \in (128..159 \union 176..207 \union 250..252)
  <2>1. \A x : x \in 176..191 \/ x \in 192..207 => x \in 176..207 OBVIOUS
  <2> QED BY <2>1 DEF Carried
<1> QED BY <1>1, <1>2, <1>3, HasCommand DEF CommandFromMIDI

\* The bytes heard are right for the bytes rendered.
RightFor(data, heard) == /\ Carried(heard)
                         /\ heard[1] % 16 = data[1] % 16
                         /\ Carried(data) => heard = AsPlayed(data)

\* A complete message is heard as itself, a note-on of velocity 0 as a
\* note-off; whatever else has a command is heard as a complete message on
\* the same channel.
LEMMA HeardSound ==
  ASSUME NEW data \in Seq(0..255), CommandFromMIDI(data) # NoCommand
  PROVE  RightFor(data, Emit(Marshal(CommandFromMIDI(data))))
<1> DEFINE heard == Emit(Marshal(CommandFromMIDI(data)))
<1>1. data # <<>> BY DEF CommandFromMIDI
<1>2. data[1] \in 0..255
  <2>1. 1 \in 1..Len(data) BY <1>1, EmptySeq
  <2> QED BY <2>1, ElementOfSeq
<1>3. PICK x \in 0..255 : x = data[1] BY <1>2
<1>4. PICK a \in 0..127 : a = Data(data, 1) BY DataBits
<1>5. PICK b \in 0..127 : b = Data(data, 2) BY DataBits
<1>6. heard = HeardOf(x, a, b)
  BY <1>1, <1>3, <1>4, <1>5 DEF CommandFromMIDI, HeardOf
<1>7. Decode(x, a, b) # NoCommand
  BY <1>1, <1>3, <1>4, <1>5 DEF CommandFromMIDI
<1>8. x \in (128..159 \union 176..207 \union 250..252)
  BY <1>7, HasCommand
<1>9. ASSUME Carried(data)
      PROVE  /\ x \in 250..252 => data = <<x>>
             /\ x \in 128..159 \/ x \in 176..191 => data = <<x, a, b>>
             /\ x \in 192..207 => data = <<x, a>>
  <2>0. \/ x \in 250..252 /\ Len(data) = 1
        \/ x \in (128..159 \union 176..191) /\ Len(data) = 3
        \/ x \in 192..207 /\ Len(data) = 2
    <3>1. \/ data[1] \in 250..252 /\ Len(data) = 1
          \/ data[1] \in (128..159 \union 176..191) /\ Len(data) = 3
          \/ data[1] \in 192..207 /\ Len(data) = 2
      BY <1>9 DEF Carried
    <3> QED BY <1>3, <3>1
  <2>1. ASSUME x \in 250..252 PROVE data = <<x>>
    <3>1. Len(data) = 1 BY <2>0, <2>1
    <3> QED BY <1>3, <3>1, Bytes
  <2>2. ASSUME x \in 128..159 \/ x \in 176..191 PROVE data = <<x, a, b>>
    <3>1. Len(data) = 3 BY <2>0, <2>2
    <3>2. data[1 + 1] < 128 /\ data[2 + 1] < 128 BY <1>9, <3>1 DEF Carried
    <3>3. a = data[2] /\ b = data[3] BY <1>4, <1>5, <3>1, <3>2, DataTaken
    <3> QED BY <1>3, <3>1, <3>3, Bytes
  <2>3. ASSUME x \in 192..207 PROVE data = <<x, a>>
    <3>1. Len(data) = 2 BY <2>0, <2>3
    <3>2. data[1 + 1] < 128 BY <1>9, <3>1 DEF Carried
    <3>3. a = data[2] BY <1>4, <3>1, <3>2, DataTaken
    <3> QED BY <1>3, <3>1, <3>3, Bytes
  <2> QED BY <2>1, <2>2, <2>3
<1> SUFFICES RightFor(data, heard) OBVIOUS
<1> HIDE DEF heard
<1>10. CASE x \in 250..252
  <2>1. heard = <<x>> BY <1>6, <1>10, Played
  <2>2. Carried(<<x>>) BY <1>10 DEF Carried
  <2>3. heard[1] % 16 = data[1] % 16 BY <1>3, <2>1
  <2>4. Carried(data) => data = <<x>> BY <1>9, <1>10
  <2>5. data = <<x>> => AsPlayed(data) = data BY <1>10 DEF AsPlayed
  <2> QED BY <2>1, <2>2, <2>3, <2>4, <2>5 DEF RightFor
<1>11. CASE x \in 128..143
  <2>1. heard = <<x, a, b>> BY <1>6, <1>11, Played
  <2>2. Carried(<<x, a, b>>) BY <1>11 DEF Carried
  <2>3. heard[1] % 16 = data[1] % 16 BY <1>3, <2>1
  <2>4. Carried(data) => data = <<x, a, b>> BY <1>9, <1>11
  <2>5. data = <<x, a, b>> => AsPlayed(data) = data BY <1>11 DEF AsPlayed
  <2> QED BY <2>1, <2>2, <2>3, <2>4, <2>5 DEF RightFor
<1>12. CASE x \in 144..159 /\ b # 0
  <2>1. heard = <<x, a, b>> BY <1>6, <1>12, Played
  <2>2. Carried(<<x, a, b>>) BY <1>12 DEF Carried
  <2>3. heard[1] % 16 = data[1] % 16 BY <1>3, <2>1
  <2>4. Carried(data) => data = <<x, a, b>> BY <1>9, <1>12
  <2>5. data = <<x, a, b>> => AsPlayed(data) = data BY <1>12 DEF AsPlayed
  <2> QED BY <2>1, <2>2, <2>3, <2>4, <2>5 DEF RightFor
<1>13. CASE x \in 144..159 /\ b = 0
  <2>1. heard = <<x - 16, a, b>> BY <1>6, <1>13, Played
  <2>2. x - 16 \in 128..143 /\ (x - 16) % 16 = x % 16 BY <1>13, SameChannel
  <2>3. Carried(<<x - 16, a, b>>) BY <2>2 DEF Carried
  <2>4. heard[1] % 16 = data[1] % 16 BY <1>3, <2>1, <2>2
  <2>5. Carried(data) => data = <<x, a, b>> BY <1>9, <1>13
  <2>6. data = <<x, a, b>> => AsPlayed(data) = <<x - 16, a, b>>
    BY <1>13 DEF AsPlayed
  <2> QED BY <2>1, <2>3, <2>4, <2>5, <2>6 DEF RightFor
<1>14. CASE x \in 176..191
  <2>1. heard = <<x, a, b>> BY <1>6, <1>14, Played
  <2>2. Carried(<<x, a, b>>) BY <1>14 DEF Carried
  <2>3. heard[1] % 16 = data[1] % 16 BY <1>3, <2>1
  <2>4. Carried(data) => data = <<x, a, b>> BY <1>9, <1>14
  <2>5. data = <<x, a, b>> => AsPlayed(data) = data BY <1>14 DEF AsPlayed
  <2> QED BY <2>1, <2>2, <2>3, <2>4, <2>5 DEF RightFor
<1>15. CASE x \in 192..207
  <2>1. heard = <<x, a>> BY <1>6, <1>15, Played
  <2>2. Carried(<<x, a>>) BY <1>15 DEF Carried
  <2>3. heard[1] % 16 = data[1] % 16 BY <1>3, <2>1
  <2>4. Carried(data) => data = <<x, a>> BY <1>9, <1>15
  <2>5. data = <<x, a>> => AsPlayed(data) = data BY <1>15 DEF AsPlayed
  <2> QED BY <2>1, <2>2, <2>3, <2>4, <2>5 DEF RightFor
<1>16. \/ x \in 250..252
       \/ x \in 128..143
       \/ x \in 144..159 /\ b # 0
       \/ x \in 144..159 /\ b = 0
       \/ x \in 176..191
       \/ x \in 192..207
  BY <1>8
<1> QED BY <1>10, <1>11, <1>12, <1>13, <1>14, <1>15, <1>16

-----------------------------------------------------------------------------
\* Send: whatever bytes are rendered, the brain plays what was rendered or
\* nothing at all.
THEOREM BrainEmitsAsPlayed == EventSpec => []EmitsAsPlayed
<1>1. EventInit => EmitsAsPlayed BY DEF EventInit, EmitsAsPlayed
<1>2. EmitsAsPlayed /\ [EventNext]_eventVars => EmitsAsPlayed'
  <2> SUFFICES ASSUME EmitsAsPlayed, [EventNext]_eventVars
               PROVE  EmitsAsPlayed'
    OBVIOUS
  <2>1. CASE UNCHANGED eventVars
    BY <2>1 DEF eventVars, EmitsAsPlayed
  <2>2. CASE EventNext
    <3>1. PICK kind \in {"MIDIEvent", "OSCEvent"}, data \in Rendered,
               connected \in BOOLEAN : Send(kind, data, connected)
      BY <2>2 DEF EventNext
    <3>2. data \in Seq(0..255) BY RenderedAssumption
    <3>3. event'.kind = kind /\ event'.data = data BY <3>1 DEF Send
    <3>4. CASE kind # "MIDIEvent"
      <4>1. emitted' = <<>> /\ result' = "nil" BY <3>1, <3>4 DEF Send
      <4> QED BY <3>3, <3>4, <4>1 DEF EmitsAsPlayed
    <3>5. CASE CommandFromMIDI(data) = NoCommand
      <4>1. emitted' = <<>> /\ result' = "nil" BY <3>1, <3>5 DEF Send
      <4>2. ~Carried(data) BY <3>2, <3>5, NotSkipped
      <4> QED BY <3>3, <4>1, <4>2 DEF EmitsAsPlayed
    <3>6. CASE ~connected /\ kind = "MIDIEvent" /\ CommandFromMIDI(data) # NoCommand
      <4>1. emitted' = <<>> /\ result' = "ErrNoBrain" BY <3>1, <3>6 DEF Send
      <4> QED BY <3>3, <4>1 DEF EmitsAsPlayed
    <3>7. CASE connected /\ kind = "MIDIEvent" /\ CommandFromMIDI(data) # NoCommand
      <4>1. /\ emitted' = Emit(Marshal(CommandFromMIDI(data)))
            /\ result' = "nil"
        BY <3>1, <3>7 DEF Send
      <4> QED BY <3>2, <3>3, <3>7, <4>1, HeardSound DEF EmitsAsPlayed, RightFor
    <3> QED BY <3>4, <3>5, <3>6, <3>7
  <2> QED BY <2>1, <2>2
<1> QED BY <1>1, <1>2, PTL DEF EventSpec

=============================================================================
