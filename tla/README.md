# Formal models of midi-transport

TLA+ modules for the concurrent and stateful parts of `midi-transport`, the Go
module that reaches MIDI and OSC targets (BLE-MIDI, USB-MIDI, vendor HID, OSC
over UDP, a plugin host on an iPad), model-checked with TLC on small instances
and proved with TLAPS for every value of the constants.  File names below are
relative to the repository's root.

## 1. The system

| Component | Code | State | Operations |
|---|---|---|---|
| Transport interface | `transport.go` | none | Discover, Pair, Connect, Disconnect, Send, Listen: implemented by each backend |
| Control channel | `midicontrol/hub.go`, `receiver.go` | the one brain connection, its address, a counter, all under `Hub.mu`; one goroutine per WebSocket | Connect, Disconnect, Send/SendJSON, Status; `handleControl` |
| Brain commands | `midicontrol/command.go`, `auv3midi/auv3midi.go` | none | MIDI to command frames; Discover reads the hub |
| OSC transport | `osc/osc.go` | endpoint → UDP socket under `t.mu`; two goroutines per Listen | Connect, Disconnect, Send, Listen |
| OSC codec | `osc/message.go` | none | encode, decode packets and bundles |
| Vendor HID | `usbhid/usbhid.go` | endpoint → file descriptor under `t.mu`; one goroutine per Listen | Connect, Disconnect, Send, Listen, Discover |
| USB-MIDI | `usbmidi/usbmidi.go` | endpoint → driver ports under `t.mu`; a driver callback and a goroutine per Listen | the same |
| BLE-MIDI device map | `blemidi/blemidi.go`, `gatt.go`, `alsa.go` | address → device with its data plane, bus connection, under `t.mu`; write fd under `wmu` | Discover, Pair, Connect, Disconnect, Send, Listen, Close |
| BlueZ | `blemidi/dbus.go`, `agent.go` | the bus connection and the pairing agent | discover, pair, connect, resolve |
| BLE-MIDI framing | `blemidi/framing.go` | the `Decoder` of a Listen: running status, open SysEx | FrameMessageMTU, Decode |
| Probe receiver | `auv3/receiver.go`, `internal/lanhttp/lanhttp.go` | the files of the staging directory; the HTTP server | POST of a dump or a report, WriteFileAtomic, Serve |

How they interact.  The daemon (not in this repository) owns the transports and
calls them from many goroutines.  `auv3midi` calls the hub that `handleControl`
feeds.  `handleControl` and the probe handlers run on servers of
`lanhttp.Serve`.  The GATT data plane frames and decodes with `framing.go`.
Everything a daemon learns comes back through the channels of Listen and
through the callbacks OnConnect, OnDisconnect, OnSessionSwitch and onStaged.

What is hard here: sections under a mutex that end before the resource found in
them is used (a socket, a descriptor, a plane); a mutex that *is* held across a
network write; goroutines that are told to stop by a ctx, by an error or by
neither; a read loop that outlives its connection's registration; kernel errors
delivered to whichever goroutine comes first; descriptor numbers that the kernel
hands out again; files written by several requests while the process may end;
bytes whose meaning depends on their position.  `PROJECT.json` lists these as
hazards, each at its line.

What makes each component correct:

- *Control channel*: newest brain wins, only its own handler removes it, frames
  go to the brain that is held, and handlers wind up.
- *OSC, HID, USB-MIDI, BLE*: every socket, descriptor, port or plane has one
  owner who closes it once; Listen keeps the promise of the interface; closing
  the resource ends the goroutines that use it; a Send reaches the endpoint it
  names or fails.
- *Framing*: packets fit the MTU; what was framed is decoded, in order; whatever
  else arrives or is lost, the decoder hands on a status with as many bytes as it
  calls for, or a SysEx of data bytes, and finds its place again.
- *Receiver*: a file is whole at every moment; an answer tells the truth about
  it; nothing temporary is left; Serve returns.

## 2. Modules

| Module | Models | Checked by | Proofs |
|---|---|---|---|
| `BrainSlot` | abstract: one slot, one brain | | |
| `Hub` | `midicontrol/hub.go`, `receiver.go` | `MCHub` | `Hub_proofs` |
| `Auv3Midi` | `auv3midi/auv3midi.go`, `midicontrol/command.go`, and the JSON of a `Command` | `MCHub` | `Auv3Midi_proofs` |
| `Listening` | abstract: what `transport.Transport` promises about Listen | | |
| `OscCodec` | `osc/message.go` | `MCOsc` | `Osc_proofs` |
| `OscPackets` | what becomes of packets between an encoder and the decoder | `MCOsc` | `Osc_proofs` |
| `OscTransport` | `osc/osc.go`, over `OscCodec` | `MCOsc` | `Osc_proofs` |
| `UsbMidi` | `usbmidi/usbmidi.go`, and with it the Listen of `blemidi/alsa.go`, which is the same code | `MCUsbMidi` | `UsbMidi_proofs` |
| `UsbHid` | `usbhid/usbhid.go` | `MCUsbHid` | `UsbHid_proofs` |
| `AtomicShelf` | abstract: a staging directory whose files change in one step | | |
| `Staging` | `auv3/receiver.go`, `internal/lanhttp/lanhttp.go` | `MCStaging` | `Staging_proofs` |
| `BleFraming` | `blemidi/framing.go` | `MCBleFraming` | `BleFraming_proofs` |
| `BleTransport` | `blemidi/blemidi.go`, `gatt.go`, and what it calls of `dbus.go`, `alsa.go` | `MCBle` | `Ble_proofs` |
| `BleScan` | Discover and Pair of `blemidi.go`, the scan of `dbus.go`, next to `BleTransport` | `MCBle` | `Ble_proofs` |

`Hub` instantiates `BrainSlot`; `OscTransport`, `UsbHid`, `UsbMidi` and
`BleTransport` instantiate `Listening`, `Staging` instantiates `AtomicShelf`; each
with a refinement mapping next to the instance, and the abstract specification as
a property.

Three MC modules check two modules in one run.  `Hub` and `Auv3Midi`, and
`OscTransport` and `OscPackets`, share no variable, so a behaviour of `MCHub` or
`MCOsc` is one of either; their product would add states and no behaviour.
`BleTransport` and `BleScan` share the bus connection, which the calls of either
make (ensureBus) and Close ends; `MCBle` explores each with Close, and the
composition of the two, `BleSpec`, is what `Ble_proofs` is about.

Definitions whose comment begins with "Variant:" are versions of the next
definition with a plausible bug (a dropped guard, a forgotten unlock, an error
taken for a timeout).  No specification uses them.  Put in the place of the
definition they precede, each makes TLC report the property it is listed with in
`PROJECT.json` as violated: evidence that the property depends on the code.

### Hub

`pc[c]` is where the goroutine of connection `c` stands in `handleControl`;
`conn`, `remote`, `sent` are the hub's fields.  `mu` is the sender that holds
`Hub.mu`, because only SendJSON keeps it across a blocking call (`SendBegin`,
then `WriteOK`, `WriteFails` or `WriteExpires`); every other critical section is
one step with the guard `mu = NoSender`.  `peer` is the brain's end of the
socket: it may stall, resume and vanish.  `latest` is a history variable: the
connection that registered last.  Time stamps and the pure readers (Status,
Connected, Remote) are left out.

### Auv3Midi

One action, the Send of an event, from the rendered bytes through
`CommandFromMIDI` and `json.Marshal` to the bytes that the brain emits.  The brain
is external: it emits what the comment at `Command` says, and nothing if a field
it needs is not in the frame, which is what the tags without `omitempty` are
there to prevent.  Writes to the brain are in `Hub`.

### OscCodec and OscPackets

Packets are sequences of bytes, and encoder and decoder compute them as the code
does, offset by offset.  A slice beyond its end, which panics in Go, is the value
`Beyond`; what goes on with it is `Panicked`.  A size of 2^31 or more is refused
by either half of the guard, depending on the width of an int (`Misfit`).
`Elements` and `decodePacket` are recursive functions on slices, not RECURSIVE
operators, so that they can be proved about.  `OscPackets` lets a peer send
messages alone or in bundles of bundles, as long as they fit into a datagram
(`Datagram`), and the network cut the packet or alter one byte.  `Value` are the
Go values that `encodeMessage` takes and a reader can bring back: a string or an
address with a null in it would end there for every reader of OSC, so peers send
none.

### OscTransport

A caller's Connect, Disconnect or Send is its critical section and one step
outside it, with the socket it captured in `arg`.  A Listen is a reader, whose
program counter follows the loop (ctx check, read, offer each message of the
packet), and a renewer (`xremoteLoop`).  `refused[k]` is the pending ICMP error
of a connected UDP socket, which the kernel reports once, to whoever reads or
writes next.  A packet is a byte sequence, which the reader decodes with
`OscCodec`; of its messages only the number still to be offered is kept.

### UsbMidi

A port is one `usbPort`, its out port and its in port (which may be missing).
Disconnect is its critical section and one step for each of the two ports; Listen
is its critical section, the opening of the in port and the registration of the
callback, any of which a Disconnect may come between.  The driver is external: it
calls back while the in port is open, one callback at a time for each port, and
its stop function comes back when the callback is not running, which the code
takes for granted when it closes the channel.  `overtaken` is a history variable:
the Listens whose port a Disconnect closed before they used it.

### UsbHid

As OscTransport, with raw descriptors: `file[f]` is what descriptor `f` denotes
now (closed, a node, a file of the rest of the process).  `Opens` may return any
closed descriptor, as open(2) does.  `gone` and `input` are what poll reports.
Connect is one step, since the code holds the mutex over resolve and open.  A
node is opened O_NONBLOCK, so a read of one that has no report fails at once
(`ReadFails`).  Of a foreign file nothing is known: it may hang up, be at its end,
fail, or be in blocking mode, and then the read of a reader whose descriptor was
handed out again stays in the kernel (`ReadBlocks`, the state "reading") until
the other end of that file ends it (`ReadReturns`, under no fairness), and sees
no ctx meanwhile: what the comment at `usbhid.go:196` calls "fail (or block)".

### Staging

`pc[r]` is the next call of the handler of request `r`; every call into the file
system is a step that may fail.  `file` is what lies at each path: the request
it came from, or `Half`.  `Crash` ends every goroutine and leaves the files; it
stands for a killed process and for a main function that returns after Serve.
The listener goroutine, `errCh` and the select of Serve are modelled as they are
written, Shutdown as its drain, with the timer of five seconds.  A loss of power
(which the code, without fsync, does not guard against) is not modelled.

### BleFraming

Bytes are numbers.  The encoder's actions are the turns of the loop of
`chunkSysEx`; the decoder's are the turns of `Decode` and `consumeSysex`, one
byte or one message each, with the code's indices plus one.  `wire` holds the
packets in order; `Lose` drops one, `Alien` inserts one that nobody framed, at
any time, before and after losses and other alien ones (`aliens` counts them, up
to the bound MaxAliens), `DeviceSends` packs several messages with running status
into one packet as the head of `framing.go` lays it out.

MessagesDelimited is what the decoder guarantees whatever arrives.  It is less
than MIDI: the bytes behind a status are copied without a look at their high bit
(`framing.go:175`).  The alien packet 80 80 90 C8 F0 comes out as 90 C8 F0.  A lost
packet is enough, too: after a note-on, a chunked SysEx whose first packet is lost
and whose last one is 80 03 80 F7 makes the decoder hand on 90 03 80, a note-on
with the timestamp for its velocity.  That the data bytes are data is promised
and checked (RoundTrip) as long as nothing is lost or alien; SysexResyncs says
when the decoder is back in its initial state, from which RoundTrip holds again.

### BleTransport

`pc[c]` is the next call of a Connect, Disconnect or Send: Connect goes from
`ensureBus` through resolution and pairing to the ALSA plane or, over link,
characteristic, StartNotify and AcquireWrite, to the GATT plane, and hands it to
the device map in `setPlane`.  Every call to BlueZ may fail.  `bus` is `t.conn`,
which Close makes nil; the calls that read it without `t.mu` may find it nil
(`ReadsNil`: the process ends, and so does the model).  `plane` and `viaGATT` are
the device map, `state` and `busOf` the planes, `arg` and `busArg` what a caller
captured.  `notify[e]` is the set of bus connections for which BlueZ notifies of
the characteristic: it keeps one session per client of the bus, so a second
StartNotify of the same connection adds nothing, and one StopNotify ends it.
`link[e]` changes by the calls of the code only; a loss from outside shows as
the failure of a call.  The calls that undo another one, StopNotify, StopDiscovery
and RemoveMatchSignal, are taken to succeed and come back while the bus connection
is open: the code ignores their errors (`gatt.go:48`, 52, 106 and 144, `dbus.go:74`),
so if BlueZ refused one it would go on notifying or scanning for nobody.  A plane and a connection are used once; which of the
unused ones is taken does not matter, so `One` chooses.  The Listen of the GATT
plane is modelled with `batch`, the messages that the decoder (`BleFraming`)
makes of one notification; the one of the ALSA plane is that of `UsbMidi`.

### BleScan

`scan[s]` is where a goroutine in Discover or Pair stands; `discovering` is the
set of bus connections that have a discovery session at BlueZ.  The start of a
scan and the evaluation of `defer t.adapter.Call(...)` are two steps, since each
reads `t.adapter` without `t.mu`.  `SessionsGoWithBus` is added to every step of
`BleTransport`: BlueZ forgets the session of a connection that was closed.

## 3. Runs

Every run checks its complete state space; there is no state constraint, and no
symmetry set (the liveness properties would not allow one).  CHECK_DEADLOCK is
off throughout, because every system here may come to rest: nobody has to dial,
call, send a request or end a ctx, and each call is made a bounded number of
times.  HandlersFinish, NoGoroutineLeft and ServeWindsUp say what must not be
left unfinished when it does.

| Run | Instance | Shows |
|---|---|---|
| `hub` | 2 connections, 2 senders (one with a deadline), 1 Send each; 248 rendered events | TypeOK, HubHoldsLatest, WritesToHolder, NoGhostBrain, EmitsAsPlayed, ImplementsSlot, ForgetsGoneBrain, HandlersFinish |
| `osc` | 1 endpoint, 2 sockets, 2 callers, 1 Listen, buffer 1, 4 packets of up to 2 messages; 9 messages of a peer, bundles of up to 3, every cut, 4 stray bytes | TypeOK, OneOwner, RoundTrip, CutOnlyLoses, NeverBeyond, ImplementsListening, DisconnectStopsListen, NoGoroutineLeft |
| `usbmidi` | 1 endpoint, 2 ports, 2 callers, 1 Listen, buffer 1 | OneOwner, InClosedWithOut, ImplementsListening, DisconnectReturns |
| `usbhid` | 2 devices, 2 descriptors, 2 callers, 1 Listen, buffer 1 | TypeOK, OneOwner, ImplementsListening, NodeLossEndsListen |
| `staging` | 2 dumps with one id, 1 report, 1 end of the process | TypeOK, NeverHalfWritten, TempCleanedUp, ImplementsShelf, ServeWindsUp |
| `ble` | 1 endpoint, 2 planes, 2 bus connections, 2 callers, 1 Listen, buffer 1, 2 messages a notification; 2 scanners | OneOwner, NoTornWrite, NotifiedForSomebody, ScansForSomebody, ListenIsSafe, ListenCloses |
| `ble_framing` | MTU 5, 9 messages, 4 bundles, no more sent after 2 (the last may be a bundle of up to 3), up to 2 alien packets of 4 kinds, 1 packet on its way | TypeOK, PacketsFit, MessagesDelimited, RoundTrip, SysexResyncs |

Why these bounds are enough for the interesting cases: two connections give
every order of registration, replacement and departure, and two senders give
contention for the mutex with and without a deadline; two callers on one
endpoint give every overlap of two calls, two sockets a replacement, and a
buffer of one is full after one event; two descriptors for two devices and a
foreign file make reuse unavoidable; two dumps of one id race through every
call, and one crash hits them anywhere.  Two planes are enough for one to
replace the other and for two Connects to overlap, two bus connections for a
Connect after a Close that meets a Connect from before it; `Ble_proofs` covers
more of each.  The rendered events have every status that `CommandFromMIDI` tells
apart on the first and the last channel, and zero to two data bytes of 0, 127 and
128.  The messages of the OSC peer have addresses and strings that leave one to
four bytes of their last word, integers at both ends of 32 bits, blobs with and
without padding, every argument that has no bytes, and what the encoder refuses;
the stray bytes turn data into sizes, tags and nulls.  At an MTU of 5 the bodies of 1, 3, 5
and 7 data bytes are, in this order, one packet, a terminator alone in the last
packet, a terminator next to the last data, and a packet in the middle.  Two
alien packets can leave a SysEx open or a status running and then meet it; since
packets are not reordered, one packet on its way lets every sequence of packets
and losses reach the decoder.

Disagreements between a comment and the code, each a run that TLC ends with a
counterexample, and each described under `findings` in `PROJECT.json`:

| Run | Property | What the code does |
|---|---|---|
| `hub_replaced` | ReplacedIsClosed | a replaced brain's WebSocket stays open and is read as long as its peer keeps it |
| `osc_renewed` | RenewedWhileOpen | one refused datagram ends the renewal of /xremote while Listen goes on |
| `usbhid_reused` | NeverAnothersNode | a Send may write to a descriptor that by then denotes another device (the instance has two callers and no Listen; a reader's descriptor is captured in the same way) |
| `ble_reconnect` | ConnectNotifies | Connect of an endpoint that is connected over GATT succeeds and leaves it without notifications: the old plane's StopNotify comes last |
| `ble_stamp` | RoundTrip | a timestamp byte F7 before the terminator of a SysEx is taken for the terminator, and the terminator for a message |

`ble_stamp` needs a sender that puts another message behind the SysEx in the
same packet: in packets made by `FrameMessageMTU` itself the stray F7 is the last
byte and is dropped, which `ble_framing` covers with the stamp 247.

### Fairness

Liveness is checked under `FairSpec`.  Weak fairness of a goroutine's steps: the
Go scheduler runs what can run, deadlines of reads and polls expire, tickers
tick, the timer of a drain fires.  Strong fairness where a step is enabled again
and again but not for good: the two handler steps that take `Hub.mu` (a
`sync.Mutex` hands itself to a waiter that is starving), a write to a peer that
reads again and again, and the ctx branch of the renewer's select (a select
picks among ready branches at random), and the Close of an in port, which comes
through in between two callbacks of the driver.  Never assumed: that a brain dials,
sends, resumes or vanishes, that anybody calls, drains a channel or ends a ctx,
that a device is plugged in, that a request arrives, that BlueZ answers or a
file-system call returns.  The outer select of the GATT reader gets strong
fairness for its ctx branch, as it competes with signals that keep coming.  The assumptions that are really needed show in the properties:
HandlersFinish allows for a Send without a deadline to a brain that stalls for
ever, ListenCloses for a process that has ended, DisconnectStopsListen for a reader in front of a full channel,
DisconnectReturns for a callback in front of one, NodeLossEndsListen for a descriptor
that was handed out again, and the ImplementsListening of `UsbHid` for a reader in
the read of a blocking foreign file: there the promise "the channel closes when
ctx is done" does not hold, and no goroutine of the backend can make it hold.

## 4. Proofs

Proved by TLAPS for every value of the constants that meets the module's
assumption (`HubAssumption`, `OscAssumption`, ...: distinct model values,
natural bounds).  That of the framing says what its callers hand over: MIDI
messages, that is a status byte with as many data bytes as `dataLen` gives it or
a SysEx of data bytes from F0 to F7, and devices that pack one to three of them.
In anything else there is no message that could come out unchanged.  That of the
OSC packets says that what a peer can encode is a `Value`; the decoder's safety,
PacketNeverBeyond, needs no assumption.  In each
proof module the inductive invariant `IInv` is stated with its parts, shown to
hold initially and to be preserved by each action (one lemma per group of
actions), and the theorems follow from it.

| Theorem | Argument |
|---|---|
| `Hub_proofs!TypeCorrect`, `HoldsLatest`, `WritesGoToHolder` | HubHoldsLatest is not inductive alone: IInv adds that `mu` is held exactly by the sender that is writing (LockedByWriter), that its target is the connection the hub holds (TargetIsHeld), and which sockets are open at which point of a handler (SocketFollowsPc) |
| `Hub_proofs!NoGhost` | a second invariant (SomebodyWillTell): as long as the last callback said that a brain is there, a handler that has yet to say the opposite is still on its way |
| `Hub_proofs!Refinement` | each step of a handler or sender is one of BrainSlot or a stutter |
| `Auv3Midi_proofs!BrainEmitsAsPlayed` | no invariant beyond the property: the arithmetic of status and channel, and one case per kind of command, from its bytes over its frame back to bytes |
| `Osc_proofs!TypeCorrect`, `SocketsHaveOneOwner` | OneOwner with the types and OffersWhatItHas (a reader offers only messages it has, so `batch` stays a natural number) is inductive; per action, the owners of each socket before and after |
| `Osc_proofs!ArgumentNeverBeyond`, `ElementNeverBeyond` | lemmas on pad4 and on what each slice of a byte string is; the guards of the code bound each offset by the length |
| `Osc_proofs!PacketNeverBeyond`, `NeverBeyondHolds` | `Elements` and `decodePacket` go on with shorter slices only (Local), so they are what their definitions say of every slice (ElementsUnfold, PacketUnfold: functions that agree with the definition up to a length are joined into one); then induction on the length of the packet, over the loop of decodeMessage (LoopSound) and the elements of a bundle, which are shorter than it (ElementsFit) |
| `Osc_proofs!MessageBack`, `RoundTripHolds`, `CutOnlyLosesHolds` | all three about one relation: the bytes to read are the start of those that were written (Start).  Each reader then brings its value back and leaves the start of what was written behind it, or fails and bytes are missing (StringBack, IntegerBack, FloatBack, BlobBack); so does a turn of the loop for each kind of value (ArgumentBack), the loop by induction over the arguments (LoopBack), a message, an element of a bundle and a bundle of two packets (BundleBack).  The inductive invariant PacketInv says that an intact packet decodes to what was sent and would only lose if cut (Carries), and that a cut one is the start of a packet that does: the second half of Carries is what a cut needs, and what a bundle gives back because a cut never reaches into an element without spoiling the whole |
| `ListenRefinement` of `Osc_proofs`, `UsbHid_proofs`, `UsbMidi_proofs`, `Ble_proofs` | each step of a reader, consumer, ctx or callback is a step of Listening or a stutter (safety part) |
| `UsbMidi_proofs!TypeCorrect`, `PortsHaveOneOwner`, `InPortsAreClosed` | IInv adds what a caller and a Listen hold, that a port with an owner was opened, that a callback runs only under a Listen that is not closed yet, and that a port that is still to be used late was overtaken |
| `UsbHid_proofs!TypeCorrect`, `DescriptorsHaveOneOwner` | IInv adds that a call that is to close a descriptor knows its endpoint (CloserKnows); a descriptor that is handed out again had no owner, as it was closed |
| `Staging_proofs!TypeCorrect`, `FilesAreWhole`, `NoTempFileLeft` | IInv ties `tmp` to `pc`: whole from Close to Rename (WholeWhenLate), none before CreateTemp (NotThereBefore), and a path named by every request that is past naming it (DumpNamed, ReportNamed) |
| `Staging_proofs!ShelfRefinement` | each step is one of the shelf or a stutter; Rename is the one that puts |
| `BleFraming_proofs!TypeCorrect`, `FramesFit`, `OnlyDelimitedDecoded` | IInv bounds the decoder's index, keeps F0 and then data in `sysex` while `inSysex` (OpenSysex), and leaves room for the terminator while the encoder is chunking (ChunkingRoom) |
| `BleFraming_proofs!RoundTripHolds` | Line: as long as nothing was lost or alien, the packets on the wire lead, one after another, from where the decoder is (so many messages of `sent`, and so many bytes of the one after them) to where the encoder is.  What a packet carries is a layout of it (Laid): where each message begins in it, and that from there the bytes are those of the message with a time stamp before each status and the terminator, or with the status elided.  The encoder and a device make packets with a layout, and each turn of the decoder stays on it.  Assumes `EOX \notin DeviceStamps`, without which the property is false: that is the finding of `ble_stamp` |
| `BleFraming_proofs!SysexBringsBack` | Resync: with a SysEx as the last message framed and nothing lost or alien since, the packets on the wire lead the decoder through three levels of knowledge: nothing (whatever came before), inside the chunked SysEx or with nothing running (Syncing), and in its initial state (Cleared).  The first packet of a chunked SysEx takes it from any state to the second level, a middle one leaves it there, the last one takes it to the third; a packet that ends with a whole SysEx takes it there at once, and Clearing says which bytes it may believe to be reading meanwhile (LoopPlace, SysexPlace), also when the time stamp of a device looks like F7 and the decoder is one byte off.  No assumption on the time stamps |
| `Ble_proofs!ScansStop`, `SafeAmongScans` | about `BleSpec`: a scanner changes nothing of IInv but the bus connection, so IInv holds among scans; StopIsAhead is the property without the connection of a StopDiscovery that is still to be deferred, which by OnlyBusAlive is the only one that is open |
| `Ble_proofs!TypeCorrect`, `PlanesHaveOneOwner`, `WritesAreWhole`, `NotificationsStop` | IInv adds what a caller holds at each point of its call (CallerHolds) and that the open bus connection is `t.conn` (OnlyBusAlive); NotifiedForSomebody rests on OneOwner, because the StopNotify of a plane that is closed may take the session only from the one endpoint it serves |

Only model-checked: everything under fairness (ForgetsGoneBrain,
HandlersFinish, DisconnectStopsListen, NoGoroutineLeft, NodeLossEndsListen,
DisconnectReturns, ListenCloses, ServeWindsUp and the liveness conjunct of
ImplementsListening), which is out of the prover's reach.  Every
invariant of a run that passes is a theorem.  What the OSC decoder does with every
packet is an induction over data; it is proved with sets of numbers in the place
of predicates (AllNats), and with the folds of the community modules unfolded into
functions of the number of turns (LoopTurns, FlattenJoins).

## 5. Not modelled, and why

The stubs keep no state.  The wording of errors and logs, names and addresses,
time stamps in Status, Healthz and the parsing of USB ids are data that no
property depends on.  The Discover of `usbmidi`, `usbhid` and `auv3midi` only
reads; that of `auv3midi` reads the hub in two critical sections and may name a
brain that has left in between.  The Listen of `auv3midi` is a goroutine that
closes an empty channel when its ctx ends.  The control-surface types of
`command.go` are JSON shapes that the daemon fills.  The shutdown of hijacked
connections belongs to net/http and to the daemon.

## 6. What is left

1. The Listen of the ALSA plane composed with `BleTransport`: the code of
   `UsbMidi`, bound to a plane instead of a port.
