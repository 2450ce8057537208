------------------------------ MODULE Auv3Midi ------------------------------
(***************************************************************************)
(* The auv3midi transport, auv3midi/auv3midi.go, and the frames it pushes, *)
(* midicontrol/command.go: a rendered MIDI event is decoded into a command *)
(* (CommandFromMIDI), the hub marshals it and writes it to the brain, and  *)
(* the brain emits MIDI bytes again inside its host.                       *)
(*                                                                         *)
(* A byte string is a sequence of numbers below 256.  The hub is Hub.tla;  *)
(* here it has a brain or not, and a write succeeds.  The brain is         *)
(* external: of a frame it emits the message the comment at Command        *)
(* describes, and nothing if a field it needs is not there.                *)
(***************************************************************************)
EXTENDS Naturals, Sequences

CONSTANT Rendered  \* the data of the MIDI events to be sent

ASSUME RenderedAssumption == Rendered \subseteq Seq(0..255)

VARIABLES
  event,   \* the event of the last Send: kind and data
  result,  \* what Send returned
  emitted  \* the MIDI bytes the brain emitted for it

eventVars == <<event, result, emitted>>

-----------------------------------------------------------------------------
(* Commands and their frames.  A definition whose comment begins with       *)
(* "Variant:" is the next definition with a bug in it; nothing uses it, it  *)
(* is there to show that a property would notice.                           *)

\* The zero value of Command, which CommandFromMIDI returns with ok = false.
NoCommand == [type |-> "", channel |-> 0, note |-> 0, velocity |-> 0,
              controller |-> 0, value |-> 0, program |-> 0, action |-> ""]

Transport(action) == [NoCommand EXCEPT !.type = "transport", !.action = action]

Note(type, ch, note, velocity) ==
  [NoCommand EXCEPT !.type = type, !.channel = ch, !.note = note,
                    !.velocity = velocity]

Control(ch, controller, value) ==
  [NoCommand EXCEPT !.type = "cc", !.channel = ch, !.controller = controller,
                    !.value = value]

Program(ch, program) ==
  [NoCommand EXCEPT !.type = "pc", !.channel = ch, !.program = program]

\* The two halves of a status byte; channels count from 1 in a command.
Kind(status) == status - (status % 16)
Channel(status) == (status % 16) + 1

\* Data byte i of a message: seven bits, and 0 if the message is too short.
Data(data, i) == IF Len(data) > i THEN data[i + 1] % 128 ELSE 0

\* The switches over the status byte.
Decode(status, d1, d2) ==
  CASE status = 250       -> Transport("start")
    [] status = 251       -> Transport("continue")
    [] status = 252       -> Transport("stop")
    [] Kind(status) = 144 -> Note(IF d2 = 0 THEN "noteOff" ELSE "noteOn",
                                  Channel(status), d1, d2)
    [] Kind(status) = 128 -> Note("noteOff", Channel(status), d1, d2)
    [] Kind(status) = 176 -> Control(Channel(status), d1, d2)
    [] Kind(status) = 192 -> Program(Channel(status), d1)
    [] OTHER              -> NoCommand

CommandFromMIDI(data) ==
  IF data = <<>> THEN NoCommand
                 ELSE Decode(data[1], Data(data, 1), Data(data, 2))

\* Variant: every field of Command is omitempty.
MarshalCompact(cmd) == [f \in {g \in DOMAIN cmd : cmd[g] # NoCommand[g]}
                          |-> cmd[f]]

\* json.Marshal of a Command: only channel and action are omitempty.
Marshal(cmd) ==
  [f \in {g \in DOMAIN cmd : g \in {"channel", "action"}
                               => cmd[g] # NoCommand[g]} |-> cmd[f]]

-----------------------------------------------------------------------------
(* The brain. *)

Needs(type) == CASE type \in {"noteOn", "noteOff"} ->
                      {"channel", "note", "velocity"}
                 [] type = "cc"        -> {"channel", "controller", "value"}
                 [] type = "pc"        -> {"channel", "program"}
                 [] type = "transport" -> {"action"}

Emit(frame) ==
  CASE ~(Needs(frame.type) \subseteq DOMAIN frame) -> <<>>
    [] frame.type = "noteOn"  -> <<143 + frame.channel, frame.note,
                                   frame.velocity>>
    [] frame.type = "noteOff" -> <<127 + frame.channel, frame.note,
                                   frame.velocity>>
    [] frame.type = "cc"      -> <<175 + frame.channel, frame.controller,
                                   frame.value>>
    [] frame.type = "pc"      -> <<191 + frame.channel, frame.program>>
    [] OTHER                  -> <<CASE frame.action = "start"    -> 250
                                     [] frame.action = "continue" -> 251
                                     [] frame.action = "stop"     -> 252>>

-----------------------------------------------------------------------------
EventInit == /\ event = [kind |-> "none", data |-> <<>>]
             /\ result = "nil"
             /\ emitted = <<>>

\* Send: events of other kinds and MIDI without a command are skipped, with
\* and without a brain; a command goes to the hub.
Send(kind, data, connected) ==
  LET cmd   == CommandFromMIDI(data)
      skips == kind # "MIDIEvent" \/ cmd = NoCommand
  IN /\ event' = [kind |-> kind, data |-> data]
     /\ result' = IF skips \/ connected THEN "nil" ELSE "ErrNoBrain"
     /\ emitted' = IF skips \/ ~connected THEN <<>> ELSE Emit(Marshal(cmd))

EventNext == \E kind \in {"MIDIEvent", "OSCEvent"}, data \in Rendered,
                connected \in BOOLEAN : Send(kind, data, connected)

EventSpec == EventInit /\ [][EventNext]_eventVars

-----------------------------------------------------------------------------
(* Properties. *)

\* The MIDI 1.0 messages the channel carries, complete and well formed.
Carried(data) ==
  /\ data # <<>>
  /\ \/ data[1] \in 250..252 /\ Len(data) = 1
     \/ data[1] \in (128..159 \union 176..191) /\ Len(data) = 3
     \/ data[1] \in 192..207 /\ Len(data) = 2
  /\ \A i \in 2..Len(data) : data[i] < 128

\* What is to be heard of a carried message: itself, but a note-on of velocity
\* 0 is a note-off.
AsPlayed(data) ==
  IF data[1] \in 144..159 /\ data[3] = 0 THEN <<data[1] - 16, data[2], 0>>
                                         ELSE data

\* CommandFromMIDI, the frame and the brain together: Send returns nil for a
\* MIDI event that the channel carries only if the brain emits the very
\* message that was rendered, controller, note, program and value 0 included.
\* Whatever else is rendered (short, with bit 7 set in a data byte, of another
\* kind), the brain emits nothing or a well-formed message on the channel of
\* the status byte, and an error means that nothing was emitted.
EmitsAsPlayed ==
  /\ result # "nil" => emitted = <<>>
  /\ emitted = <<>> \/ Carried(emitted)
  /\ event.kind = "MIDIEvent" /\ result = "nil" /\ Carried(event.data)
       => emitted = AsPlayed(event.data)
  /\ emitted # <<>> => emitted[1] % 16 = event.data[1] % 16

=============================================================================
