------------------------------- MODULE UsbMidi -------------------------------
(***************************************************************************)
(* The USB-MIDI backend, usbmidi/usbmidi.go, over the ports of gomidi.     *)
(*                                                                         *)
(* A port p is one usbPort: the out port that Connect opened and the in    *)
(* port of the same name, which may be missing and which nothing but       *)
(* ListenTo opens.  Connect is one critical section of t.mu.  Disconnect,  *)
(* Send and Listen take their port under t.mu and use it after the unlock, *)
(* so each of them may find it closed by then.                             *)
(*                                                                         *)
(* The driver is external.  While a listener is registered and the in port *)
(* is open it calls back, on one thread for each in port; the stop         *)
(* function that ListenTo returns takes the listener off and comes back    *)
(* when its callback is not running.  That last clause is what usbmidi.go  *)
(* relies on when it closes the channel right after stop().                *)
(***************************************************************************)
EXTENDS Naturals

CONSTANTS Endpoints,  \* endpoint ids, the names of ports
          Ports,      \* the usbPort values Connect can make, each once
          NoPort,     \* no entry in t.ports
          Callers,    \* goroutines that call Connect, Disconnect and Send
          Listeners,  \* calls of Listen
          Cap         \* capacity of the channel of Listen (64 in the code)

ASSUME UsbMidiAssumption == /\ NoPort \notin Ports
                            /\ Endpoints \intersect Callers = {}
                            /\ Cap \in Nat \ {0}

VARIABLES
  ports,     \* t.ports: endpoint -> port
  outPort,   \* the out port: "unused", "open" or "closed"
  inPort,    \* the in port: "missing", "closed" or "open"
  call,      \* what a caller is doing outside t.mu
  arg,       \* the port it holds
  lport,     \* the port a Listen was bound to
  listen,    \* where a Listen and then its goroutine stand
  callback,  \* the driver runs the callback of this Listen
  out,       \* events in the channel
  ctxDone,   \* the ctx of a Listen has ended
  overtaken  \* history: Listens that had their port before a Disconnect
             \* closed it, and have not begun to use it

callVars == <<call, arg>>
listenVars == <<lport, listen, callback, out, ctxDone>>
vars == <<ports, outPort, inPort, callVars, listenVars, overtaken>>

Init == /\ ports = [e \in Endpoints |-> NoPort]
        /\ outPort = [p \in Ports |-> "unused"]
        /\ inPort \in [Ports -> {"missing", "closed"}]
        /\ call = [c \in Callers |-> "idle"]
        /\ arg = [c \in Callers |-> NoPort]
        /\ lport = [l \in Listeners |-> NoPort]
        /\ listen = [l \in Listeners |-> "none"]
        /\ callback = [l \in Listeners |-> FALSE]
        /\ out = [l \in Listeners |-> 0]
        /\ ctxDone = [l \in Listeners |-> FALSE]
        /\ overtaken = {}

-----------------------------------------------------------------------------
(* Connect, Disconnect and Send.  A definition whose comment begins with    *)
(* "Variant:" is the next definition with a bug in it; nothing uses it, it  *)
(* is there to show that a property would notice.                           *)

\* Variant: Connect does not look whether the endpoint is connected.
ConnectAgain(c, e) == /\ call[c] = "idle"
                      /\ \E p \in Ports :
                           /\ outPort[p] = "unused"
                           /\ outPort' = [outPort EXCEPT ![p] = "open"]
                           /\ ports' = [ports EXCEPT ![e] = p]
                      /\ UNCHANGED <<inPort, callVars, listenVars, overtaken>>

\* Connect finds and opens the out port, and notes the in port if there is
\* one.  On a connected endpoint, or if the port is not found or does not
\* open, it returns without a trace.
Connect(c, e) == /\ call[c] = "idle"
                 /\ ports[e] = NoPort
                 /\ \E p \in Ports :
                      /\ outPort[p] = "unused"
                      /\ outPort' = [outPort EXCEPT ![p] = "open"]
                      /\ ports' = [ports EXCEPT ![e] = p]
                 /\ UNCHANGED <<inPort, callVars, listenVars, overtaken>>

Begins(c, what, p) == /\ call[c] = "idle"
                      /\ call' = [call EXCEPT ![c] = what]
                      /\ arg' = [arg EXCEPT ![c] = p]

Returns(c) == /\ call' = [call EXCEPT ![c] = "idle"]
              /\ arg' = [arg EXCEPT ![c] = NoPort]

\* The critical section of Disconnect.  Without a port there is nothing to do.
Forget(c, e) == /\ ports[e] # NoPort
                /\ Begins(c, "closingIn", ports[e])
                /\ ports' = [ports EXCEPT ![e] = NoPort]
                /\ UNCHANGED <<outPort, inPort, listenVars, overtaken>>

\* The Listens that are about to use port p.
Late(p) == {l \in Listeners : lport[l] = p /\ listen[l] \in {"bound", "opened"}}

\* Variant: Disconnect leaves the in port to the driver.
InPortForgotten(c) == /\ call[c] = "closingIn"
                      /\ call' = [call EXCEPT ![c] = "closingOut"]
                      /\ overtaken' = overtaken \union Late(arg[c])
                      /\ UNCHANGED <<ports, outPort, inPort, arg, listenVars>>

\* Disconnect closes the in port if there is one and it is open.
CloseIn(c) == /\ call[c] = "closingIn"
              /\ inPort' = [inPort EXCEPT ![arg[c]] = IF @ = "open" THEN "closed"
                                                                    ELSE @]
              /\ call' = [call EXCEPT ![c] = "closingOut"]
              /\ overtaken' = overtaken \union Late(arg[c])
              /\ UNCHANGED <<ports, outPort, arg, listenVars>>

CloseOut(c) == /\ call[c] = "closingOut"
               /\ outPort' = [outPort EXCEPT ![arg[c]] = "closed"]
               /\ Returns(c)
               /\ UNCHANGED <<ports, inPort, listenVars, overtaken>>

SendBegin(c, e) == /\ ports[e] # NoPort
                   /\ Begins(c, "sending", ports[e])
                   /\ UNCHANGED <<ports, outPort, inPort, listenVars, overtaken>>

\* p.out.Send writes, or returns an error if the port was closed meanwhile.
SendWrite(c) == /\ call[c] = "sending"
                /\ Returns(c)
                /\ UNCHANGED <<ports, outPort, inPort, listenVars, overtaken>>

-----------------------------------------------------------------------------
(* Listen and the goroutine it starts. *)

ListenAt(l, from, to) == /\ listen[l] = from
                         /\ listen' = [listen EXCEPT ![l] = to]
                         /\ UNCHANGED <<ports, outPort, callVars>>

\* The critical section: an endpoint that is connected and has an in port.
Bind(l, e) == /\ ports[e] # NoPort
              /\ inPort[ports[e]] # "missing"
              /\ ListenAt(l, "none", "bound")
              /\ lport' = [lport EXCEPT ![l] = ports[e]]
              /\ UNCHANGED <<inPort, callback, out, ctxDone, overtaken>>

\* midi.ListenTo opens the port unless it is open, whoever has closed it.
OpenIn(l) == /\ ListenAt(l, "bound", "opened")
             /\ inPort' = [inPort EXCEPT ![lport[l]] = "open"]
             /\ UNCHANGED <<lport, callback, out, ctxDone, overtaken>>

\* It registers the callback, and Listen starts its goroutine and returns.
Register(l) == /\ ListenAt(l, "opened", "running")
               /\ inPort[lport[l]] = "open"
               /\ UNCHANGED <<inPort, lport, callback, out, ctxDone, overtaken>>

\* ListenTo fails on either half: Listen returns the error, and what was
\* opened stays open.
ListenFails(l) == /\ ListenAt(l, "bound", "failed")
                     \/ ListenAt(l, "opened", "failed")
                  /\ UNCHANGED <<inPort, lport, callback, out, ctxDone, overtaken>>

\* The ctx is done: the goroutine calls stop().
Stop(l) == /\ ctxDone[l]
           /\ ListenAt(l, "running", "stopping")
           /\ UNCHANGED <<inPort, lport, callback, out, ctxDone, overtaken>>

\* Variant: the channel is closed before the listener is taken off.
CloseTooEarly(l) == /\ ctxDone[l]
                    /\ ListenAt(l, "running", "closed")
                    /\ UNCHANGED <<inPort, lport, callback, out, ctxDone,
                                   overtaken>>

\* stop() has come back, no callback is running: close(out).
CloseChannel(l) == /\ ~callback[l]
                   /\ ListenAt(l, "stopping", "closed")
                   /\ UNCHANGED <<inPort, lport, callback, out, ctxDone,
                                  overtaken>>

-----------------------------------------------------------------------------
(* The driver's thread, and the consumer and the owner of the ctx. *)

\* The thread of port p is in a callback.
CalledBack(p) == \E l \in Listeners : lport[l] = p /\ callback[l]

\* A message comes in: the driver calls the callback of a listener.
Callback(l) == /\ listen[l] = "running"
               /\ inPort[lport[l]] = "open"
               /\ ~CalledBack(lport[l])
               /\ callback' = [callback EXCEPT ![l] = TRUE]
               /\ UNCHANGED <<ports, outPort, inPort, callVars, lport, listen,
                              out, ctxDone, overtaken>>

\* The select of the callback: out <- ev, when the buffer has room.
Offer(l) == /\ callback[l]
            /\ out[l] < Cap
            /\ out' = [out EXCEPT ![l] = @ + 1]
            /\ callback' = [callback EXCEPT ![l] = FALSE]
            /\ UNCHANGED <<ports, outPort, inPort, callVars, lport, listen,
                           ctxDone, overtaken>>

\* Variant: a plain send, without the branch that watches the ctx.
NeverGivesUp(l) == l \notin Listeners /\ UNCHANGED vars

\* Its other branch: the ctx is done and the event is dropped.
GiveUp(l) == /\ callback[l]
             /\ ctxDone[l]
             /\ callback' = [callback EXCEPT ![l] = FALSE]
             /\ UNCHANGED <<ports, outPort, inPort, callVars, lport, listen,
                            out, ctxDone, overtaken>>

Take(l) == /\ out[l] > 0
           /\ out' = [out EXCEPT ![l] = @ - 1]
           /\ UNCHANGED <<ports, outPort, inPort, callVars, lport, listen,
                          callback, ctxDone, overtaken>>

Cancel(l) == /\ ~ctxDone[l]
             /\ ctxDone' = [ctxDone EXCEPT ![l] = TRUE]
             /\ UNCHANGED <<ports, outPort, inPort, callVars, lport, listen,
                            callback, out, overtaken>>

-----------------------------------------------------------------------------
Caller(c) == \/ \E e \in Endpoints : Connect(c, e) \/ Forget(c, e)
                                     \/ SendBegin(c, e)
             \/ CloseIn(c) \/ CloseOut(c) \/ SendWrite(c)

Listener(l) == \/ \E e \in Endpoints : Bind(l, e)
               \/ OpenIn(l) \/ Register(l) \/ ListenFails(l)
               \/ Stop(l) \/ CloseChannel(l)

Driver(l) == Callback(l) \/ Offer(l) \/ GiveUp(l)

Next == \/ \E c \in Callers : Caller(c)
        \/ \E l \in Listeners : Listener(l) \/ Driver(l) \/ Take(l) \/ Cancel(l)

Spec == Init /\ [][Next]_vars

\* The driver may keep CloseIn waiting while a callback of the port runs.
CloseInReturns(c) == /\ CloseIn(c)
                     /\ ~CalledBack(arg[c])

\* Goroutines that can run do run, and so does a callback whose select can
\* proceed.  A Close that waits for callbacks comes through in between two of
\* them, hence strong fairness.  Nobody has to call, to play, to drain the
\* channel or to end a ctx.
Fairness == /\ \A c \in Callers : /\ SF_vars(CloseInReturns(c))
                                  /\ WF_vars(CloseOut(c))
                                  /\ WF_vars(SendWrite(c))
            /\ \A l \in Listeners : /\ WF_vars(Stop(l))
                                    /\ WF_vars(CloseChannel(l))
                                    /\ WF_vars(Offer(l) \/ GiveUp(l))

FairSpec == Spec /\ Fairness

-----------------------------------------------------------------------------
(* Properties. *)

\* The types of the variables.
TypeOK == /\ ports \in [Endpoints -> Ports \union {NoPort}]
          /\ outPort \in [Ports -> {"unused", "open", "closed"}]
          /\ inPort \in [Ports -> {"missing", "closed", "open"}]
          /\ call \in [Callers -> {"idle", "closingIn", "closingOut",
                                   "sending"}]
          /\ arg \in [Callers -> Ports \union {NoPort}]
          /\ lport \in [Listeners -> Ports \union {NoPort}]
          /\ listen \in [Listeners -> {"none", "bound", "opened", "failed",
                                       "running", "stopping", "closed"}]
          /\ callback \in [Listeners -> BOOLEAN]
          /\ out \in [Listeners -> 0..Cap]
          /\ ctxDone \in [Listeners -> BOOLEAN]
          /\ overtaken \in SUBSET Listeners

\* Who is to close a port: the endpoint that has it in t.ports, or the
\* Disconnect that has taken it out.
Owners(p) == {e \in Endpoints : ports[e] = p} \union
             {c \in Callers : call[c] \in {"closingIn", "closingOut"}
                              /\ arg[c] = p}

RightlyOwned(p) == IF outPort[p] = "open"
                   THEN \E o \in Owners(p) : Owners(p) = {o}
                   ELSE Owners(p) = {}

\* Connect / Disconnect: every open out port has exactly one owner and only
\* open ones have one: no interleaving of calls leaks a port, closes one twice
\* or leaves a closed one in t.ports, where the idempotent Connect would find
\* it for ever.
OneOwner == \A p \in Ports : RightlyOwned(p)

\* Disconnect "closes the endpoint's ports": an in port is left open by it
\* only if a Listen that had its port before the close opened it again; in
\* every other interleaving it is closed with its out port.
InClosedWithOut ==
  \A p \in Ports : inPort[p] = "open" /\ outPort[p] = "closed"
                     => \E l \in overtaken : lport[l] = p

\* Listen as transport.Transport promises it.
Channel == INSTANCE Listening WITH
             chan <- [l \in Listeners |->
                        CASE listen[l] \in {"running", "stopping"} -> "open"
                          [] listen[l] = "closed" -> "closed"
                          [] OTHER -> "none"],
             buf  <- out

\* The callback and the goroutine implement the channel between them: the
\* driver's thread puts no event into a closed channel (which would panic),
\* and the channel closes once the ctx is done although the callback may sit in
\* front of a full buffer and stop() waits for it.
ImplementsListening == Channel!Spec

\* The callback of a Listen on port p waits for room in a channel that nobody
\* drains.
Blocked(p) == \E l \in Listeners : /\ lport[l] = p
                                   /\ callback[l]
                                   /\ out[l] = Cap
                                   /\ ~ctxDone[l]

\* Disconnect comes back although the driver may make Close wait for a running
\* callback, at the latest when the Listen is drained or its ctx ends.
DisconnectReturns ==
  \A c \in Callers :
    (call[c] = "closingIn") ~> (call[c] = "idle" \/ Blocked(arg[c]))

=============================================================================
