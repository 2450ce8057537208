----------------------------- MODULE BleTransport -----------------------------
(***************************************************************************)
(* The BLE-MIDI backend: the device map of blemidi/blemidi.go, its use of  *)
(* BlueZ (dbus.go) and the life of the data planes (gatt.go, alsa.go).     *)
(*                                                                         *)
(* Connect is a long sequence of calls to BlueZ between two short sections *)
(* of t.mu, and reads t.conn without it on the way; pc[c] is where caller  *)
(* c stands in it.  A data plane is opened by Connect and handed to the    *)
(* device map at the end; Disconnect takes it out first and closes it      *)
(* after the unlock; Close closes what the map holds, and the bus.         *)
(*                                                                         *)
(* BlueZ is external.  Notifications of the I/O characteristic are on or   *)
(* off per endpoint and bus connection (BlueZ counts clients, not calls),  *)
(* the BLE link is up or down per endpoint.  Any call may fail but those   *)
(* that undo another one (StopNotify, RemoveMatchSignal): the code ignores *)
(* their errors, and the model takes them to succeed and to come back      *)
(* while the connection to the bus is open.                                *)
(***************************************************************************)
EXTENDS Naturals, FiniteSets

CONSTANTS Endpoints,  \* BLE addresses
          NoEndpoint,
          Planes,     \* the data planes that can be opened, each once
          NoPlane,
          Buses,      \* the D-Bus connections that can be made, each once
          NoBus,
          Callers,    \* goroutines that call Connect, Disconnect and Send
          Listeners,  \* calls of Listen on a GATT data plane
          Cap,        \* capacity of the channel of Listen (64 in the code)
          MaxBatch    \* bound: messages in one notification

ASSUME BleAssumption == /\ NoPlane \notin Planes
                        /\ NoBus \notin Buses
                        /\ NoEndpoint \notin Endpoints
                        /\ Endpoints \intersect Callers = {}
                        /\ Cap \in Nat \ {0}
                        /\ MaxBatch \in Nat

VARIABLES
  bus,       \* t.conn
  busState,  \* of each connection: "unused", "open" or "closed"
  plane,     \* t.devices: endpoint -> plane
  viaGATT,   \* t.devices: endpoint -> viaGATT
  state,     \* of each plane: "unused", open as "alsa" or "gatt", "closed"
  busOf,     \* the connection an open GATT plane was made on
  link,      \* the BLE link of an endpoint is up
  notify,    \* the connections for which BlueZ notifies of an endpoint
  pc,        \* where a caller stands
  ep,        \* the endpoint of its call
  arg,       \* the plane it holds
  via,       \* Disconnect: the viaGATT it found
  busArg,    \* the connection it holds
  lbus,      \* the connection a Listen gets its signals from
  lep,       \* the endpoint of its characteristic
  reader,    \* its goroutine
  batch,     \* messages of the last notification it has still to offer
  out,       \* events in its channel
  ctxDone    \* its ctx has ended

busVars == <<bus, busState>>
mapVars == <<plane, viaGATT>>
planeVars == <<state, busOf>>
radioVars == <<link, notify>>
callVars == <<pc, ep, arg, via, busArg>>
listenVars == <<lbus, lep, reader, batch, out, ctxDone>>
vars == <<busVars, mapVars, planeVars, radioVars, callVars, listenVars>>

Init == /\ bus = NoBus
        /\ busState = [b \in Buses |-> "unused"]
        /\ plane = [e \in Endpoints |-> NoPlane]
        /\ viaGATT = [e \in Endpoints |-> FALSE]
        /\ state = [k \in Planes |-> "unused"]
        /\ busOf = [k \in Planes |-> NoBus]
        /\ link \in [Endpoints -> BOOLEAN]
        /\ notify = [e \in Endpoints |-> {}]
        /\ pc = [c \in Callers |-> "idle"]
        /\ ep = [c \in Callers |-> NoEndpoint]
        /\ arg = [c \in Callers |-> NoPlane]
        /\ via = [c \in Callers |-> FALSE]
        /\ busArg = [c \in Callers |-> NoBus]
        /\ lbus = [l \in Listeners |-> NoBus]
        /\ lep = [l \in Listeners |-> NoEndpoint]
        /\ reader = [l \in Listeners |-> "none"]
        /\ batch = [l \in Listeners |-> 0]
        /\ out = [l \in Listeners |-> 0]
        /\ ctxDone = [l \in Listeners |-> FALSE]

-----------------------------------------------------------------------------
(* How a call goes on.  A definition whose comment begins with "Variant:"   *)
(* is the next definition with a bug in it; nothing uses it, it is there to *)
(* show that a property would notice.                                       *)

Goes(c, from, to) == /\ pc[c] = from
                     /\ pc' = [pc EXCEPT ![c] = to]
                     /\ UNCHANGED listenVars

Begins(c, e, first) == /\ Goes(c, "idle", first)
                       /\ ep' = [ep EXCEPT ![c] = e]

Returns(c, from) == /\ Goes(c, from, "idle")
                    /\ ep' = [ep EXCEPT ![c] = NoEndpoint]
                    /\ arg' = [arg EXCEPT ![c] = NoPlane]
                    /\ via' = [via EXCEPT ![c] = FALSE]
                    /\ busArg' = [busArg EXCEPT ![c] = NoBus]

\* g.wmu is held by a Send that writes to the plane.
Locked(k) == \E c \in Callers : pc[c] = "writing" /\ arg[c] = k

\* A plane or a connection that was never used: which one does not matter.
Some(stateOf, what) == \E x \in DOMAIN stateOf : stateOf[x] = what
One(stateOf, what) == CHOOSE x \in DOMAIN stateOf : stateOf[x] = what

Alive(b) == b \in Buses /\ busState[b] = "open"

\* dataPlane.Close: the ports or the write fd, then StopNotify, which BlueZ
\* only hears on a connection that is still open, and then obeys.
Closes(k) == /\ state' = [state EXCEPT ![k] = "closed"]
             /\ busOf' = [busOf EXCEPT ![k] = NoBus]
StopsNotify(k, e) ==
  [notify EXCEPT ![e] = IF Alive(busOf[k])
                        THEN @ \ {busOf[k]} ELSE @]

-----------------------------------------------------------------------------
(* Connect. *)

\* ensureBus, under t.mu.  A bus that cannot be reached leaves no trace.
EnsureBus == \/ bus # NoBus /\ UNCHANGED busVars
             \/ /\ bus = NoBus
                /\ Some(busState, "unused")
                /\ bus' = One(busState, "unused")
                /\ busState' = [busState EXCEPT ![bus'] = "open"]

ConnectBegin(c, e) == /\ Begins(c, e, "resolve")
                      /\ EnsureBus
                      /\ UNCHANGED <<mapVars, planeVars, radioVars, arg, via,
                                     busArg>>

\* resolveDevicePath and pairDevice, then deviceName.
Resolve(c) == /\ Goes(c, "resolve", "alsa")
              /\ bus # NoBus
              /\ UNCHANGED <<busVars, mapVars, planeVars, radioVars, ep, arg,
                             via, busArg>>

\* t.conn is read without t.mu: after a Close it is nil, and its first use is
\* a nil pointer dereference, which ends the process.
ReadsNil(c) == /\ \E from \in {"resolve", "gatt", "chars"} :
                    Goes(c, from, "panicked")
               /\ bus = NoBus
               /\ UNCHANGED <<busVars, mapVars, planeVars, radioVars, ep, arg,
                              via, busArg>>

\* The device is not found, the pairing is refused; BlueZ does not connect, the
\* services or the characteristic do not turn up in time; notifications are
\* refused.  Nothing that was done before is undone.
GivesUp(c) == /\ \E from \in {"resolve", "linking", "chars", "notify"} :
                   Returns(c, from)
              /\ UNCHANGED <<busVars, mapVars, planeVars, radioVars>>

Opens(c, what, b) == /\ Some(state, "unused")
                     /\ arg' = [arg EXCEPT ![c] = One(state, "unused")]
                     /\ state' = [state EXCEPT ![arg'[c]] = what]
                     /\ busOf' = [busOf EXCEPT ![arg'[c]] = b]

\* openALSADataPlane finds the port that PipeWire bridges and opens it.
OpenALSA(c) == /\ Goes(c, "alsa", "install")
               /\ Opens(c, "alsa", NoBus)
               /\ UNCHANGED <<busVars, mapVars, radioVars, ep, via, busArg>>

NoALSA(c) == /\ Goes(c, "alsa", "gatt")
             /\ UNCHANGED <<busVars, mapVars, planeVars, radioVars, ep, arg, via,
                            busArg>>

\* gattConnect: a link that is up is dropped first; an error is logged.
DropStaleLink(c) == /\ Goes(c, "gatt", "linking")
                    /\ bus # NoBus
                    /\ busArg' = [busArg EXCEPT ![c] = bus]
                    /\ \E up \in {link[ep[c]], FALSE} :
                         link' = [link EXCEPT ![ep[c]] = up]
                    /\ UNCHANGED <<busVars, mapVars, planeVars, notify, ep, arg, via>>

Link(c) == /\ Goes(c, "linking", "chars")
           /\ Alive(busArg[c])
           /\ link' = [link EXCEPT ![ep[c]] = TRUE]
           /\ busArg' = [busArg EXCEPT ![c] = NoBus]
           /\ UNCHANGED <<busVars, mapVars, planeVars, notify, ep, arg, via>>

\* resolveIOChar, which reads t.conn afresh.
FindChar(c) == /\ Goes(c, "chars", "bus")
               /\ bus # NoBus
               /\ UNCHANGED <<busVars, mapVars, planeVars, radioVars, ep, arg,
                              via, busArg>>

\* The one read of t.conn under t.mu, with its check.
TakeBus(c) == /\ Goes(c, "bus", "notify")
              /\ bus # NoBus
              /\ busArg' = [busArg EXCEPT ![c] = bus]
              /\ UNCHANGED <<busVars, mapVars, planeVars, radioVars, ep, arg, via>>

BusClosed(c) == /\ Returns(c, "bus")
                /\ bus = NoBus
                /\ UNCHANGED <<busVars, mapVars, planeVars, radioVars>>

-----------------------------------------------------------------------------
(* newGATTDataPlane and setPlane. *)

StartNotify(c) == /\ Goes(c, "notify", "acquire")
                  /\ Alive(busArg[c]) /\ link[ep[c]]
                  /\ notify' = [notify EXCEPT ![ep[c]] = @ \union {busArg[c]}]
                  /\ UNCHANGED <<busVars, mapVars, planeVars, link, ep, arg, via,
                                 busArg>>

AcquireWrite(c) == /\ Goes(c, "acquire", "install")
                   /\ Alive(busArg[c]) /\ link[ep[c]]
                   /\ Opens(c, "gatt", busArg[c])
                   /\ busArg' = [busArg EXCEPT ![c] = NoBus]
                   /\ UNCHANGED <<busVars, mapVars, radioVars, ep, via>>

\* Variant: the error path without StopNotify.
AcquireFailsNotifying(c) ==
  /\ Returns(c, "acquire")
  /\ UNCHANGED <<busVars, mapVars, planeVars, radioVars>>

AcquireFails(c) ==
  /\ Returns(c, "acquire")
  /\ notify' = [notify EXCEPT ![ep[c]] = IF Alive(busArg[c])
                                         THEN @ \ {busArg[c]} ELSE @]
  /\ UNCHANGED <<busVars, mapVars, planeVars, link>>

Holds(e, k) == /\ plane' = [plane EXCEPT ![e] = k]
               /\ viaGATT' = [viaGATT EXCEPT ![e] = state[k] = "gatt"]

\* Variant: the plane is replaced and not closed.
SetPlaneLeaks(c) == /\ Returns(c, "install")
                    /\ Holds(ep[c], arg[c])
                    /\ UNCHANGED <<busVars, planeVars, radioVars>>

\* setPlane, under t.mu: what the device has is closed (which waits for a
\* write in progress), then replaced.
SetPlane(c) ==
  LET old == plane[ep[c]] IN
  /\ Returns(c, "install")
  /\ Holds(ep[c], arg[c])
  /\ \/ /\ old = NoPlane
        /\ UNCHANGED <<planeVars, notify>>
     \/ /\ old # NoPlane /\ ~Locked(old)
        /\ Closes(old)
        /\ notify' = StopsNotify(old, ep[c])
  /\ UNCHANGED <<busVars, link>>

-----------------------------------------------------------------------------
(* Disconnect, Send and Close. *)

\* The critical section of Disconnect.
TakeOut(c, e) == /\ plane[e] # NoPlane
                 /\ Begins(c, e, "close")
                 /\ arg' = [arg EXCEPT ![c] = plane[e]]
                 /\ via' = [via EXCEPT ![c] = viaGATT[e]]
                 /\ busArg' = [busArg EXCEPT ![c] = bus]
                 /\ plane' = [plane EXCEPT ![e] = NoPlane]
                 /\ viaGATT' = [viaGATT EXCEPT ![e] = FALSE]
                 /\ UNCHANGED <<busVars, planeVars, radioVars>>

\* Variant: the plane is closed without g.wmu.
ClosePlaneAtOnce(c) ==
  /\ Goes(c, "close", "drop")
  /\ Closes(arg[c])
  /\ notify' = StopsNotify(arg[c], ep[c])
  /\ UNCHANGED <<busVars, mapVars, link, ep, arg, via, busArg>>

\* plane.Close, after the unlock.
ClosePlane(c) == /\ Goes(c, "close", "drop")
                 /\ ~Locked(arg[c])
                 /\ Closes(arg[c])
                 /\ notify' = StopsNotify(arg[c], ep[c])
                 /\ UNCHANGED <<busVars, mapVars, link, ep, arg, via, busArg>>

\* disconnectDevice, when the plane owned the link; the call may fail.
DropLink(c) == /\ Returns(c, "drop")
               /\ \/ UNCHANGED link
                  \/ /\ via[c] /\ Alive(busArg[c])
                     /\ link' = [link EXCEPT ![ep[c]] = FALSE]
               /\ UNCHANGED <<busVars, mapVars, planeVars, notify>>

\* planeFor in Send.
SendBegin(c, e) == /\ plane[e] # NoPlane
                   /\ Begins(c, e, "send")
                   /\ arg' = [arg EXCEPT ![c] = plane[e]]
                   /\ UNCHANGED <<busVars, mapVars, planeVars, radioVars, via,
                                  busArg>>

\* gattDataPlane.Send: g.wmu is kept over all packets of the message.
SendWrites(c) == /\ Goes(c, "send", "writing")
                 /\ state[arg[c]] = "gatt"
                 /\ ~Locked(arg[c])
                 /\ UNCHANGED <<busVars, mapVars, planeVars, radioVars, ep, arg,
                                via, busArg>>

\* The write is over, or failed; the fd was closed before; or the message went
\* to an ALSA port.
SendEnds(c) == /\ \/ Returns(c, "writing")
                  \/ /\ Returns(c, "send")
                     /\ state[arg[c]] \in {"alsa", "closed"}
               /\ UNCHANGED <<busVars, mapVars, planeVars, radioVars>>

Held == {plane[e] : e \in Endpoints} \ {NoPlane}

\* Transport.Close, all of it under t.mu: planes, agent, bus.  d.viaGATT stays
\* as it is.  The bus forgets the notifications of a client that is gone.
Close == /\ bus # NoBus \/ Held # {}
         /\ \A k \in Held : ~Locked(k)
         /\ state' = [k \in Planes |-> IF k \in Held THEN "closed" ELSE state[k]]
         /\ busOf' = [k \in Planes |-> IF k \in Held THEN NoBus ELSE busOf[k]]
         /\ plane' = [e \in Endpoints |-> NoPlane]
         /\ bus' = NoBus
         /\ busState' = [b \in Buses |-> IF b = bus THEN "closed" ELSE busState[b]]
         /\ notify' = [e \in Endpoints |-> notify[e] \ {bus}]
         /\ UNCHANGED <<viaGATT, link, callVars, listenVars>>

-----------------------------------------------------------------------------
(* gattDataPlane.Listen. *)

\* planeFor and Listen; a bus that is closed refuses the match rule.
Listen(l, e) == /\ reader[l] = "none"
                /\ plane[e] # NoPlane
                /\ Alive(busOf[plane[e]])
                /\ lbus' = [lbus EXCEPT ![l] = busOf[plane[e]]]
                /\ lep' = [lep EXCEPT ![l] = e]
                /\ reader' = [reader EXCEPT ![l] = "waiting"]
                /\ UNCHANGED <<busVars, mapVars, planeVars, radioVars, callVars,
                               batch, out, ctxDone>>

ReaderAt(l, from, to) == /\ reader[l] = from
                         /\ reader' = [reader EXCEPT ![l] = to]
                         /\ UNCHANGED <<busVars, mapVars, planeVars, radioVars,
                                        callVars, ctxDone>>

\* The deferred calls, close(out) last.
ReaderEnds(l, from) == /\ ctxDone[l]
                       /\ ReaderAt(l, from, "closed")
                       /\ lbus' = [lbus EXCEPT ![l] = NoBus]
                       /\ lep' = [lep EXCEPT ![l] = NoEndpoint]
                       /\ batch' = [batch EXCEPT ![l] = 0]
                       /\ UNCHANGED out

\* The outer select with the ctx done.
ReaderStops(l) == ReaderEnds(l, "waiting")

\* A signal of the characteristic, with what the decoder makes of it.  (Signals
\* of other objects, and the nil ones of a bus that was closed, change nothing:
\* the loop goes round.)
Notified(l) == /\ ReaderAt(l, "waiting", "offering")
               /\ link[lep[l]]
               /\ lbus[l] \in notify[lep[l]]
               /\ \E n \in 1..MaxBatch : batch' = [batch EXCEPT ![l] = n]
               /\ UNCHANGED <<lbus, lep, out>>

\* Variant: an unbounded queue in place of the channel.
OfferUnbounded(l) == /\ ReaderAt(l, "offering",
                                 IF batch[l] = 1 THEN "waiting" ELSE "offering")
                     /\ batch' = [batch EXCEPT ![l] = @ - 1]
                     /\ out' = [out EXCEPT ![l] = @ + 1]
                     /\ UNCHANGED <<lbus, lep>>

Offer(l) == /\ ReaderAt(l, "offering",
                        IF batch[l] = 1 THEN "waiting" ELSE "offering")
            /\ out[l] < Cap
            /\ batch' = [batch EXCEPT ![l] = @ - 1]
            /\ out' = [out EXCEPT ![l] = @ + 1]
            /\ UNCHANGED <<lbus, lep>>

\* Variant: a plain send, without the branch that watches the ctx.
OfferUncancelled(l) == l \notin Listeners /\ UNCHANGED vars

OfferCancelled(l) == ReaderEnds(l, "offering")

Reader(l) == ReaderStops(l) \/ Notified(l) \/ Offer(l) \/ OfferCancelled(l)

Take(l) == /\ out[l] > 0
           /\ out' = [out EXCEPT ![l] = @ - 1]
           /\ UNCHANGED <<busVars, mapVars, planeVars, radioVars, callVars, lbus,
                          lep, reader, batch, ctxDone>>

Cancel(l) == /\ ~ctxDone[l]
             /\ ctxDone' = [ctxDone EXCEPT ![l] = TRUE]
             /\ UNCHANGED <<busVars, mapVars, planeVars, radioVars, callVars,
                            lbus, lep, reader, batch, out>>

-----------------------------------------------------------------------------
Connect(c) == \/ \E e \in Endpoints : ConnectBegin(c, e)
              \/ Resolve(c) \/ ReadsNil(c) \/ GivesUp(c)
              \/ OpenALSA(c) \/ NoALSA(c)
              \/ DropStaleLink(c) \/ Link(c) \/ FindChar(c)
              \/ TakeBus(c) \/ BusClosed(c)
              \/ StartNotify(c) \/ AcquireWrite(c) \/ AcquireFails(c)
              \/ SetPlane(c)

Disconnect(c) == \/ \E e \in Endpoints : TakeOut(c, e)
                 \/ ClosePlane(c) \/ DropLink(c)

Send(c) == \/ \E e \in Endpoints : SendBegin(c, e)
           \/ SendWrites(c) \/ SendEnds(c)

Listener(l) == \/ \E e \in Endpoints : Listen(l, e)
               \/ Reader(l) \/ Take(l) \/ Cancel(l)

Panicked == \E c \in Callers : pc[c] = "panicked"

Next == /\ ~Panicked
        /\ \/ \E c \in Callers : Connect(c) \/ Disconnect(c) \/ Send(c)
           \/ \E l \in Listeners : Listener(l)
           \/ Close

Spec == Init /\ [][Next]_vars

\* Goroutines that can run do run, until the process ends; the ctx branch of
\* the outer select does not lose to signals for ever.  BlueZ may never
\* answer, nobody has to call, to drain the channel or to end a ctx.
Fairness == \A l \in Listeners :
              /\ WF_vars(~Panicked /\ (Offer(l) \/ OfferCancelled(l)))
              /\ SF_vars(~Panicked /\ ReaderStops(l))

FairSpec == Spec /\ Fairness

-----------------------------------------------------------------------------
(* Properties. *)

\* The types of the variables.
TypeOK == /\ bus \in Buses \union {NoBus}
          /\ busState \in [Buses -> {"unused", "open", "closed"}]
          /\ plane \in [Endpoints -> Planes \union {NoPlane}]
          /\ viaGATT \in [Endpoints -> BOOLEAN]
          /\ state \in [Planes -> {"unused", "alsa", "gatt", "closed"}]
          /\ busOf \in [Planes -> Buses \union {NoBus}]
          /\ link \in [Endpoints -> BOOLEAN]
          /\ notify \in [Endpoints -> SUBSET Buses]
          /\ pc \in [Callers -> {"idle", "resolve", "alsa", "gatt", "linking",
                                 "chars", "bus", "notify", "acquire", "install",
                                 "close", "drop", "send", "writing", "panicked"}]
          /\ ep \in [Callers -> Endpoints \union {NoEndpoint}]
          /\ arg \in [Callers -> Planes \union {NoPlane}]
          /\ via \in [Callers -> BOOLEAN]
          /\ busArg \in [Callers -> Buses \union {NoBus}]
          /\ lbus \in [Listeners -> Buses \union {NoBus}]
          /\ lep \in [Listeners -> Endpoints \union {NoEndpoint}]
          /\ reader \in [Listeners -> {"none", "waiting", "offering", "closed"}]
          /\ batch \in [Listeners -> 0..MaxBatch]
          /\ out \in [Listeners -> 0..Cap]
          /\ ctxDone \in [Listeners -> BOOLEAN]

\* Who is to close a plane: the device that has it, a Connect that has not
\* installed it yet, a Disconnect that has taken it out.
Owners(k) == {e \in Endpoints : plane[e] = k} \union
             {c \in Callers : pc[c] \in {"install", "close"} /\ arg[c] = k}

RightlyOwned(k) == IF state[k] \in {"alsa", "gatt"}
                   THEN \E o \in Owners(k) : Owners(k) = {o}
                   ELSE Owners(k) = {}

\* Connect / Disconnect / Close: every open data plane has exactly one owner,
\* and only open ones have one, in every interleaving of the calls: none is
\* leaked by a Connect that overlaps, none is closed twice, and the device map
\* never offers a closed one to Send and Listen.
OneOwner == \A k \in Planes : RightlyOwned(k)

\* gattDataPlane.Send: "a concurrent Close cannot close the fd out from under
\* the write", whoever closes: Disconnect, a Connect that replaces the plane,
\* or Transport.Close.
NoTornWrite == \A c \in Callers :
  pc[c] = "writing" =>
    /\ state[arg[c]] = "gatt"
    /\ \A d \in Callers : pc[d] = "writing" /\ arg[d] = arg[c] => d = c

\* Who makes use of the notifications of endpoint e on connection b: a plane
\* that is open, or a Connect between StartNotify and AcquireWrite.
Subscribers(e, b) ==
  {k \in Planes : /\ state[k] = "gatt" /\ busOf[k] = b
                  /\ \/ plane[e] = k
                     \/ \E c \in Callers : /\ pc[c] \in {"install", "close"}
                                           /\ arg[c] = k /\ ep[c] = e}
  \union {c \in Callers : pc[c] = "acquire" /\ ep[c] = e /\ busArg[c] = b}

\* newGATTDataPlane / Close: notifications that were started are stopped on
\* every path, whichever other call fails and whoever closes the plane: unless
\* it refuses a StopNotify, BlueZ never goes on notifying for nobody.
NotifiedForSomebody ==
  \A e \in Endpoints : \A b \in notify[e] : Alive(b) /\ Subscribers(e, b) # {}

\* Listen as transport.Transport promises it.
Channel == INSTANCE Listening WITH
             chan <- [l \in Listeners |->
                        IF reader[l] \in {"none", "closed"} THEN reader[l]
                        ELSE "open"],
             buf  <- out

\* gattDataPlane.Listen: the channel takes no event after its close, is closed
\* once, and never holds more than its buffer.
ListenIsSafe == Channel!SafeSpec

\* gattDataPlane.Listen: "until ctx is done": the channel closes then, with the
\* plane or the bus closed under it and with nobody to drain it, unless the
\* process ends.
ListenCloses ==
  \A l \in Listeners :
    (ctxDone[l] /\ reader[l] \in {"waiting", "offering"})
      ~> (reader[l] = "closed" \/ Panicked)

\* blemidi.go: "Listen streams inbound MIDI events from a connected endpoint":
\* BlueZ notifies for the GATT plane that a Connect has just handed to the
\* device map, as long as the bus connection it was made on is open.
ConnectNotifies ==
  [][\A e \in Endpoints :
       plane'[e] \notin {plane[e], NoPlane} /\ viaGATT'[e] /\ Alive(busOf[plane'[e]])
         => busOf[plane'[e]] \in notify'[e]]_vars

=============================================================================
