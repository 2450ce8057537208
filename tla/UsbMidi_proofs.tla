--------------------------- MODULE UsbMidi_proofs ---------------------------
(***************************************************************************)
(* Proofs about UsbMidi, for any number of endpoints, ports, callers and   *)
(* listeners: out ports are owned by exactly one party, an in port         *)
(* outlives its Disconnect only through a Listen that was overtaken by it, *)
(* and the driver's thread puts no event into a closed channel.            *)
(***************************************************************************)
EXTENDS UsbMidi, TLAPS

\* The port has an entry in t.ports, or a Disconnect that has yet to look at
\* its in port.
Held(p) == \/ \E e \in Endpoints : ports[e] = p
           \/ \E c \in Callers : call[c] = "closingIn" /\ arg[c] = p

\* A call outside t.mu holds a port.
CallsHoldPorts == \A c \in Callers : call[c] # "idle" => arg[c] \in Ports

\* A Listen that has begun has a port.
ListensHavePorts == \A l \in Listeners : listen[l] # "none" => lport[l] \in Ports

\* The callback of a Listen runs only while its channel is open.
CallbacksAreOpen ==
  \A l \in Listeners : callback[l] => listen[l] \in {"running", "stopping"}

\* Who was overtaken had begun.
OvertakenBegan == \A l \in overtaken : listen[l] # "none"

\* A Listen that is about to use its port has it of t.ports, or is overtaken.
LateOnes == \A l \in Listeners :
              listen[l] \in {"bound", "opened"} => Held(lport[l]) \/ l \in overtaken

\* An in port is open because somebody has still to close it, or because a
\* Listen that was overtaken has opened it.
OpenOnes == \A p \in Ports :
              inPort[p] = "open" => \/ Held(p)
                                    \/ \E l \in overtaken : lport[l] = p

IInv == /\ TypeOK
        /\ OneOwner
        /\ CallsHoldPorts
        /\ ListensHavePorts
        /\ CallbacksAreOpen
        /\ OvertakenBegan
        /\ LateOnes
        /\ OpenOnes

-----------------------------------------------------------------------------
(* The steps of the callers. *)

\* Types are kept by a caller, and what calls hold.
LEMMA CallerTypes == ASSUME TypeOK, CallsHoldPorts,
                            NEW c \in Callers, Caller(c)
                     PROVE  TypeOK' /\ CallsHoldPorts'
<1> USE UsbMidiAssumption DEF TypeOK, CallsHoldPorts, listenVars, callVars
<1>1. CASE \E e \in Endpoints : Connect(c, e)
  BY <1>1 DEF Connect
<1>2. CASE \E e \in Endpoints : Forget(c, e)
  BY <1>2 DEF Forget, Begins
<1>3. CASE \E e \in Endpoints : SendBegin(c, e)
  BY <1>3 DEF SendBegin, Begins
<1>4. CASE CloseIn(c)
  BY <1>4 DEF CloseIn, Late
<1>5. CASE CloseOut(c)
  BY <1>5 DEF CloseOut, Returns
<1>6. CASE SendWrite(c)
  BY <1>6 DEF SendWrite, Returns
<1> QED
  BY <1>1, <1>2, <1>3, <1>4, <1>5, <1>6 DEF Caller

\* A port never has an owner too many or too few, whatever call steps.
LEMMA CallerOwners == ASSUME TypeOK, OneOwner, CallsHoldPorts,
                             NEW c \in Callers, Caller(c)
                      PROVE  OneOwner'
<1> USE UsbMidiAssumption DEF TypeOK, callVars
<1>1. ASSUME NEW e \in Endpoints, Connect(c, e)
      PROVE  OneOwner'
  <2>1. PICK p \in Ports : /\ outPort[p] = "unused"
                           /\ outPort' = [outPort EXCEPT ![p] = "open"]
                           /\ ports[e] = NoPort
                           /\ ports' = [ports EXCEPT ![e] = p]
                           /\ UNCHANGED <<call, arg>>
    BY <1>1 DEF Connect
  <2>2. Owners(p) = {}
    BY <2>1 DEF OneOwner, RightlyOwned
  <2>3. Owners(p)' = {e}
    BY <2>1, <2>2 DEF Owners
  <2>4. \A q \in Ports \ {p} : Owners(q)' = Owners(q)
    BY <2>1 DEF Owners
  <2> QED
    BY <2>1, <2>3, <2>4 DEF OneOwner, RightlyOwned
<1>2. ASSUME NEW e \in Endpoints, Forget(c, e)
      PROVE  OneOwner'
  <2>1. PICK p \in Ports : /\ p = ports[e]
                           /\ Begins(c, "closingIn", p)
                           /\ ports' = [ports EXCEPT ![e] = NoPort]
                           /\ UNCHANGED outPort
    BY <1>2 DEF Forget
  <2>2. e \in Owners(p)
    BY <2>1 DEF Owners
  <2>3. outPort[p] = "open" /\ Owners(p) = {e}
    BY <2>1, <2>2 DEF OneOwner, RightlyOwned
  <2>4. Owners(p)' = {c}
    BY <2>1, <2>3 DEF Begins, Owners
  <2>5. \A q \in Ports \ {p} : Owners(q)' = Owners(q)
    BY <2>1 DEF Begins, Owners
  <2>6. RightlyOwned(p)'
    BY <2>1, <2>3, <2>4 DEF RightlyOwned
  <2>7. \A q \in Ports \ {p} : RightlyOwned(q)'
    BY <2>1, <2>5 DEF OneOwner, RightlyOwned
  <2> QED
    BY <2>6, <2>7 DEF OneOwner
<1>3. CASE (\E e \in Endpoints : SendBegin(c, e)) \/ CloseIn(c) \/ SendWrite(c)
  <2>1. \A p \in Ports : Owners(p)' = Owners(p)
    <3>1. CASE \E e \in Endpoints : SendBegin(c, e)
      BY <3>1 DEF SendBegin, Begins, Owners
    <3>2. CASE CloseIn(c)
      BY <3>2 DEF CloseIn, Owners
    <3>3. CASE SendWrite(c)
      BY <3>3 DEF SendWrite, Returns, Owners
    <3> QED
      BY <1>3, <3>1, <3>2, <3>3
  <2> QED
    BY <1>3, <2>1 DEF SendBegin, CloseIn, SendWrite, OneOwner, RightlyOwned
<1>4. CASE CloseOut(c)
  <2>1. PICK p \in Ports :
          /\ p = arg[c]
          /\ outPort' = [outPort EXCEPT ![p] = "closed"]
          /\ UNCHANGED ports
          /\ call' = [call EXCEPT ![c] = "idle"]
          /\ arg' = [arg EXCEPT ![c] = NoPort]
    BY <1>4 DEF CloseOut, Returns, CallsHoldPorts
  <2>2. Owners(p) = {c}
    <3>1. c \in Owners(p)
      BY <1>4, <2>1 DEF CloseOut, Owners
    <3> QED
      BY <3>1 DEF OneOwner, RightlyOwned
  <2>3. Owners(p)' = {}
    BY <2>1, <2>2 DEF Owners
  <2>4. \A q \in Ports \ {p} : Owners(q)' = Owners(q)
    BY <2>1 DEF Owners
  <2> QED
    BY <2>1, <2>3, <2>4 DEF OneOwner, RightlyOwned
<1> QED
  BY <1>1, <1>2, <1>3, <1>4 DEF Caller

\* A port is held until its in port has been looked at, and whoever is late
\* then counts as overtaken.
LEMMA CallerHolds == ASSUME IInv, NEW c \in Callers, Caller(c)
                     PROVE  OvertakenBegan' /\ LateOnes' /\ OpenOnes'
<1> USE UsbMidiAssumption DEF IInv, TypeOK, callVars, listenVars
<1>1. CASE ~CloseIn(c)
  <2>1. \A p \in Ports : Held(p) => Held(p)'
    <3>1. CASE \E e \in Endpoints : Connect(c, e)
      BY <3>1 DEF Connect, Held
    <3>2. ASSUME NEW e \in Endpoints, Forget(c, e)
          PROVE  \A p \in Ports : Held(p) => Held(p)'
      <4>1. PICK q \in Ports : q = ports[e]
        BY <3>2 DEF Forget
      <4>2. Held(q)'
        BY <3>2, <4>1 DEF Forget, Begins, Held
      <4>3. \A p \in Ports \ {q} : Held(p) => Held(p)'
        BY <3>2, <4>1 DEF Forget, Begins, Held
      <4> QED
        BY <4>2, <4>3
    <3>3. CASE \E e \in Endpoints : SendBegin(c, e)
      BY <3>3 DEF SendBegin, Begins, Held
    <3>4. CASE CloseOut(c) \/ SendWrite(c)
      BY <3>4 DEF CloseOut, SendWrite, Returns, Held
    <3> QED
      BY <1>1, <3>1, <3>2, <3>3, <3>4 DEF Caller
  <2>2. UNCHANGED <<inPort, lport, listen, overtaken>>
    BY <1>1 DEF Caller, Connect, Forget, SendBegin, CloseOut, SendWrite
  <2> QED
    BY <2>1, <2>2 DEF OvertakenBegan, LateOnes, OpenOnes, ListensHavePorts
<1>2. CASE CloseIn(c)
  <2>1. /\ inPort' = [inPort EXCEPT ![arg[c]] = IF @ = "open" THEN "closed"
                                                              ELSE @]
        /\ overtaken' = overtaken \union Late(arg[c])
        /\ UNCHANGED <<ports, arg, lport, listen>>
        /\ call' = [call EXCEPT ![c] = "closingOut"]
        /\ arg[c] \in Ports
    BY <1>2 DEF CloseIn, CallsHoldPorts
  <2>2. \A p \in Ports \ {arg[c]} : Held(p) => Held(p)'
    BY <2>1 DEF Held
  <2>3. LateOnes' /\ OvertakenBegan'
    BY <2>1, <2>2 DEF OvertakenBegan, LateOnes, Late, ListensHavePorts
  <2>4. OpenOnes'
    BY <2>1, <2>2 DEF OpenOnes
  <2> QED
    BY <2>3, <2>4
<1> QED
  BY <1>1, <1>2

\* A caller keeps the invariant.
LEMMA CallerStep == ASSUME IInv, NEW c \in Callers, Caller(c)
                    PROVE  IInv'
<1>1. UNCHANGED <<lport, listen, callback>>
  BY DEF Caller, Connect, Forget, SendBegin, CloseIn, CloseOut, SendWrite,
         listenVars
<1> QED
  BY <1>1, CallerTypes, CallerOwners, CallerHolds
     DEF IInv, ListensHavePorts, CallbacksAreOpen

-----------------------------------------------------------------------------
(* The steps of a listener, of the driver and of the consumer. *)

ListenerOrDriver(l) == Listener(l) \/ Driver(l) \/ Take(l) \/ Cancel(l)

\* They leave the callers and the out ports alone.
LEMMA ListenerFrame ==
  ASSUME NEW l \in Listeners, ListenerOrDriver(l)
  PROVE  UNCHANGED <<ports, outPort, call, arg, overtaken>>
  BY DEF ListenerOrDriver, Listener, Bind, OpenIn, Register, ListenFails, Stop,
         CloseChannel, ListenAt, Driver, Callback, Offer, GiveUp, Take, Cancel,
         callVars

\* A Listen takes one step, of those of its own and those of the driver.
LEMMA ListenerKeeps ==
  ASSUME TypeOK, ListensHavePorts, CallbacksAreOpen,
         NEW l \in Listeners, ListenerOrDriver(l)
  PROVE  TypeOK' /\ ListensHavePorts' /\ CallbacksAreOpen'
<1> USE UsbMidiAssumption, ListenerFrame
        DEF TypeOK, ListensHavePorts, CallbacksAreOpen
<1>1. CASE \E e \in Endpoints : Bind(l, e)
  BY <1>1 DEF Bind, ListenAt
<1>2. CASE OpenIn(l)
  BY <1>2 DEF OpenIn, ListenAt
<1>3. CASE Register(l) \/ ListenFails(l)
  BY <1>3 DEF Register, ListenFails, ListenAt
<1>4. CASE Stop(l) \/ CloseChannel(l)
  BY <1>4 DEF Stop, CloseChannel, ListenAt
<1>5. CASE Callback(l)
  BY <1>5 DEF Callback
<1>6. CASE Offer(l)
  BY <1>6 DEF Offer
<1>7. CASE GiveUp(l) \/ Cancel(l)
  BY <1>7 DEF GiveUp, Cancel
<1>8. CASE Take(l)
  BY <1>8 DEF Take
<1> QED
  BY <1>1, <1>2, <1>3, <1>4, <1>5, <1>6, <1>7, <1>8
     DEF ListenerOrDriver, Listener, Driver

\* A Listen binds a port that is held, and opens one that is held or as an
\* overtaken one.
LEMMA ListenerHolds ==
  ASSUME TypeOK, ListensHavePorts, OvertakenBegan, LateOnes, OpenOnes,
         NEW l \in Listeners, ListenerOrDriver(l)
  PROVE  OvertakenBegan' /\ LateOnes' /\ OpenOnes'
<1> USE ListenerFrame DEF TypeOK, ListensHavePorts, OvertakenBegan, LateOnes, OpenOnes, Held
<1>1. CASE \E e \in Endpoints : Bind(l, e)
  <2>1. PICK e \in Endpoints : /\ listen' = [listen EXCEPT ![l] = "bound"]
                               /\ lport' = [lport EXCEPT ![l] = ports[e]]
                               /\ listen[l] = "none"
                               /\ UNCHANGED inPort
    BY <1>1 DEF Bind, ListenAt
  <2>2. PICK p \in Ports : p = ports[e]
    BY <1>1, <2>1 DEF Bind, ListenAt
  <2>3. LateOnes' /\ OvertakenBegan'
    BY <2>1, <2>2
  <2>4. OpenOnes'
    BY <2>1
  <2> QED
    BY <2>3, <2>4
<1>2. CASE OpenIn(l)
  <2>1. PICK p \in Ports : p = lport[l]
    BY <1>2 DEF OpenIn, ListenAt
  <2>2. /\ inPort' = [inPort EXCEPT ![p] = "open"]
        /\ listen' = [listen EXCEPT ![l] = "opened"]
        /\ listen[l] = "bound"
        /\ UNCHANGED lport
    BY <1>2, <2>1 DEF OpenIn, ListenAt
  <2>3. LateOnes' /\ OvertakenBegan'
    BY <2>2
  <2>4. OpenOnes'
    BY <2>1, <2>2
  <2> QED
    BY <2>3, <2>4
<1>3. CASE Register(l) \/ ListenFails(l) \/ Stop(l) \/ CloseChannel(l)
  BY <1>3 DEF Register, ListenFails, Stop, CloseChannel, ListenAt
<1>4. CASE Driver(l) \/ Take(l) \/ Cancel(l)
  BY <1>4 DEF Driver, Callback, Offer, GiveUp, Take, Cancel
<1> QED
  BY <1>1, <1>2, <1>3, <1>4 DEF ListenerOrDriver, Listener

\* They keep the invariant.
LEMMA ListenerStep == ASSUME IInv, NEW l \in Listeners, ListenerOrDriver(l)
                      PROVE  IInv'
<1>1. OneOwner' /\ CallsHoldPorts'
  BY ListenerFrame DEF IInv, OneOwner, RightlyOwned, Owners, CallsHoldPorts
<1> QED
  BY <1>1, ListenerKeeps, ListenerHolds DEF IInv

-----------------------------------------------------------------------------
(* The theorems. *)

\* The inductive invariant.
THEOREM Invariance == Spec => []IInv
<1>1. Init => IInv
  BY UsbMidiAssumption
     DEF Init, IInv, TypeOK, OneOwner, RightlyOwned, Owners, CallsHoldPorts,
         ListensHavePorts, CallbacksAreOpen, OvertakenBegan,
         LateOnes, OpenOnes
<1>2. IInv /\ [Next]_vars => IInv'
  <2>1. ASSUME IInv, UNCHANGED vars
        PROVE  IInv'
    BY <2>1 DEF vars, callVars, listenVars, IInv, TypeOK, OneOwner,
                RightlyOwned, Owners, CallsHoldPorts, ListensHavePorts,
                CallbacksAreOpen, OvertakenBegan, LateOnes, OpenOnes, Held
  <2> QED
    BY <2>1, CallerStep, ListenerStep DEF Next, ListenerOrDriver
<1> QED
  BY <1>1, <1>2, PTL DEF Spec

\* The variables of the backend and of its ports keep their types; the channel
\* of a Listen never holds more than its capacity.
THEOREM TypeCorrect == Spec => []TypeOK
<1>1. IInv => TypeOK
  BY DEF IInv
<1> QED
  BY <1>1, Invariance, PTL

\* usbmidi.go Connect / Disconnect: whatever calls overlap, an open out port
\* has exactly one party that will close it, and t.ports holds open ones only.
THEOREM PortsHaveOneOwner == Spec => []OneOwner
<1>1. IInv => OneOwner
  BY DEF IInv
<1> QED
  BY <1>1, Invariance, PTL

\* usbmidi.go Disconnect: an in port is open beyond its out port only through
\* a Listen that took the port before the Disconnect closed it.
THEOREM InPortsAreClosed == Spec => []InClosedWithOut
<1>1. IInv => InClosedWithOut
  <2> SUFFICES ASSUME IInv, NEW p \in Ports,
                      inPort[p] = "open", outPort[p] = "closed"
               PROVE  \E l \in overtaken : lport[l] = p
    BY DEF InClosedWithOut
  <2>1. Owners(p) = {}
    BY DEF IInv, OneOwner, RightlyOwned
  <2>2. ~Held(p)
    BY <2>1 DEF Held, Owners
  <2> QED
    BY <2>2 DEF IInv, OpenOnes
<1> QED
  BY <1>1, Invariance, PTL

-----------------------------------------------------------------------------
(* Refinement of Listening (its safety part).                              *)

\* A step that leaves the place of every Listen and its channel alone is a
\* stutter.
LEMMA ChannelStutter == ASSUME UNCHANGED <<listen, out, ctxDone>>
                        PROVE  UNCHANGED Channel!vars
  BY DEF Channel!vars

\* A step of a Listen or of the driver is a step of its channel or a stutter.
LEMMA ListenerRefines == ASSUME IInv, NEW l \in Listeners, ListenerOrDriver(l)
                         PROVE  [Channel!Next]_(Channel!vars)
<1> USE DEF IInv, TypeOK
<1>1. CASE \/ \E e \in Endpoints : Bind(l, e)
           \/ OpenIn(l) \/ ListenFails(l) \/ Stop(l)
  <2>1. /\ UNCHANGED <<out, ctxDone>>
        /\ \E s \in {"bound", "opened", "failed", "stopping"} :
             /\ listen' = [listen EXCEPT ![l] = s]
             /\ \/ listen[l] \in {"none", "bound", "opened"} /\ s # "stopping"
                \/ listen[l] = "running" /\ s = "stopping"
    BY <1>1 DEF Bind, OpenIn, ListenFails, Stop, ListenAt
  <2> QED
    BY <2>1 DEF Channel!vars
<1>2. CASE Register(l)
  <2>1. Channel!Listen(l)
    BY <1>2 DEF Register, ListenAt, Channel!Listen
  <2> QED
    BY <2>1 DEF Channel!Next
<1>3. CASE CloseChannel(l)
  <2>1. Channel!Close(l)
    BY <1>3 DEF CloseChannel, ListenAt, Channel!Close
  <2> QED
    BY <2>1 DEF Channel!Next
<1>4. CASE Callback(l) \/ GiveUp(l)
  BY <1>4, ChannelStutter DEF Callback, GiveUp
<1>5. CASE Offer(l)
  <2>1. Channel!Emit(l)
    BY <1>5 DEF Offer, CallbacksAreOpen, Channel!Emit
  <2> QED
    BY <2>1 DEF Channel!Next
<1>6. CASE Take(l)
  <2>1. Channel!Take(l)
    BY <1>6 DEF Take, Channel!Take
  <2> QED
    BY <2>1 DEF Channel!Next
<1>7. CASE Cancel(l)
  <2>1. Channel!Cancel(l)
    BY <1>7 DEF Cancel, Channel!Cancel
  <2> QED
    BY <2>1 DEF Channel!Next
<1> QED
  BY <1>1, <1>2, <1>3, <1>4, <1>5, <1>6, <1>7
     DEF ListenerOrDriver, Listener, Driver

\* usbmidi.go Listen: the driver's callback sends into an open channel only,
\* and the channel is closed at most once.
THEOREM ListenRefinement == Spec => Channel!SafeSpec
<1>1. Init => Channel!Init
  BY DEF Init, Channel!Init
<1>2. IInv /\ [Next]_vars => [Channel!Next]_(Channel!vars)
  <2>1. ASSUME NEW c \in Callers, Caller(c)
        PROVE  UNCHANGED <<listen, out, ctxDone>>
    BY <2>1 DEF Caller, Connect, Forget, SendBegin, CloseIn, CloseOut,
                SendWrite, listenVars
  <2>2. UNCHANGED vars => UNCHANGED <<listen, out, ctxDone>>
    BY DEF vars, listenVars
  <2> QED
    BY <2>1, <2>2, ChannelStutter, ListenerRefines DEF Next, ListenerOrDriver
<1> QED
  BY <1>1, <1>2, Invariance, PTL DEF Spec, Channel!SafeSpec

=============================================================================
