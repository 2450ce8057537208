----------------------------- MODULE Hub_proofs -----------------------------
(***************************************************************************)
(* Proofs about Hub, for any number of connections and senders.            *)
(*                                                                         *)
(* The safety of the hub rests on one inductive invariant, IInv: the hub   *)
(* holds the newest brain (HubHoldsLatest), and the mutex is held exactly  *)
(* by the sender inside conn.Write (LockedByWriter), which writes to the   *)
(* connection the hub holds (TargetIsHeld).  A step that changes h.conn    *)
(* needs the mutex, hence finds no writer.                                 *)
(***************************************************************************)
EXTENDS Hub, TLAPS

\* Hub.mu is held exactly by the Send that is inside conn.Write.
LockedByWriter == \A s \in Senders : mu = s <=> target[s] # NoConn

\* A frame on its way goes to the connection the hub holds.
TargetIsHeld == \A s \in Senders : target[s] # NoConn => conn = target[s]

\* A handler has a socket from Accept on, and none before.
SocketFollowsPc ==
  \A c \in Conns : /\ pc[c] = "idle" => sock[c] = "none"
                   /\ pc[c] \notin {"idle", "done"} => sock[c] # "none"

IInv == /\ TypeOK
        /\ HubHoldsLatest
        /\ LockedByWriter
        /\ TargetIsHeld
        /\ SocketFollowsPc

-----------------------------------------------------------------------------
(* Type correctness. *)

\* Every step of the network, of a handler and of a sender keeps the types.
LEMMA TypeStep == TypeOK /\ [Next]_vars => TypeOK'
<1> SUFFICES ASSUME TypeOK, [Next]_vars
             PROVE  TypeOK'
    OBVIOUS
<1> USE HubAssumption DEF TypeOK, PCs
<1>1. ASSUME NEW c \in Conns, Network(c)
      PROVE  TypeOK'
  BY <1>1 DEF Network, Stall, Resume, Vanish, hubVars, sendVars, noteVars
<1>2. ASSUME NEW c \in Conns, Handler(c)
      PROVE  TypeOK'
  <2>1. CASE Accept(c)
    BY <2>1 DEF Accept, hubVars, sendVars, noteVars
  <2>2. CASE AcceptFails(c)
    BY <2>2 DEF AcceptFails, hubVars, sendVars, noteVars, netVars
  <2>3. CASE Connect(c)
    BY <2>3 DEF Connect, sendVars, noteVars, netVars
  <2>4. CASE OnConnect(c)
    BY <2>4 DEF OnConnect, hubVars, sendVars, netVars
  <2>5. CASE ReadFrame(c)
    BY <2>5 DEF ReadFrame, hubVars, sendVars, netVars
  <2>6. CASE ReadFails(c)
    BY <2>6 DEF ReadFails, hubVars, sendVars, noteVars
  <2>7. CASE Disconnect(c)
    BY <2>7 DEF Disconnect, ClearIfCurrent, sendVars, noteVars, netVars
  <2>8. CASE OnDisconnect(c)
    BY <2>8 DEF OnDisconnect, hubVars, sendVars, netVars
  <2>9. CASE CloseNow(c)
    BY <2>9 DEF CloseNow, hubVars, sendVars, noteVars
  <2> QED
    BY <1>2, <2>1, <2>2, <2>3, <2>4, <2>5, <2>6, <2>7, <2>8, <2>9 DEF Handler
<1>3. ASSUME NEW s \in Senders, Sender(s)
      PROVE  TypeOK'
  <2>1. CASE SendNoBrain(s)
    BY <2>1 DEF SendNoBrain, hubVars, netVars, noteVars
  <2>2. CASE SendBegin(s)
    BY <2>2 DEF SendBegin, hubVars, netVars, noteVars
  <2>3. CASE WriteOK(s)
    BY <2>3 DEF WriteOK, Unlock, netVars, noteVars
  <2>4. CASE WriteFails(s)
    BY <2>4 DEF WriteFails, Unlock, hubVars, noteVars
  <2>5. CASE WriteExpires(s)
    BY <2>5 DEF WriteExpires, Unlock, hubVars, noteVars
  <2> QED
    BY <1>3, <2>1, <2>2, <2>3, <2>4, <2>5 DEF Sender
<1>4. CASE UNCHANGED vars
  BY <1>4 DEF vars
<1> QED
  BY <1>1, <1>2, <1>3, <1>4 DEF Next

\* Hub and its handlers keep to the types of TypeOK for ever.
THEOREM TypeCorrect == Spec => []TypeOK
<1>1. Init => TypeOK
  BY HubAssumption DEF Init, TypeOK, PCs
<1> QED
  BY <1>1, TypeStep, PTL DEF Spec

-----------------------------------------------------------------------------
(* The inductive invariant. *)

\* The initial states satisfy it.
LEMMA IInvInit == Init => IInv
  BY HubAssumption
     DEF Init, IInv, TypeOK, PCs, HubHoldsLatest, Current, Registered,
         LockedByWriter, TargetIsHeld, SocketFollowsPc

\* The network touches only the brain's end, on which IInv does not depend.
LEMMA NetworkStep == ASSUME IInv, NEW c \in Conns, Network(c)
                     PROVE  IInv'
<1>1. TypeOK'
  BY TypeStep DEF IInv, Next
<1>2. UNCHANGED <<mu, conn, remote, target, pc, latest, sock>>
  BY DEF Network, Stall, Resume, Vanish, hubVars, sendVars, noteVars
<1> QED
  BY <1>1, <1>2 DEF IInv, HubHoldsLatest, Current, Registered,
                    LockedByWriter, TargetIsHeld, SocketFollowsPc

\* A step of a handler: only Connect and Disconnect move h.conn, and both find
\* the mutex free, hence no writer.
LEMMA HandlerStep == ASSUME IInv, NEW c \in Conns, Handler(c)
                     PROVE  IInv'
<1>1. TypeOK'
  BY TypeStep DEF IInv, Next
<1> USE HubAssumption DEF IInv, TypeOK
<1>2. CASE Accept(c)
  <2>1. HubHoldsLatest'
    BY <1>2 DEF Accept, HubHoldsLatest, Current, Registered, hubVars
  <2>2. LockedByWriter' /\ TargetIsHeld'
    BY <1>2 DEF Accept, LockedByWriter, TargetIsHeld, hubVars, sendVars
  <2>3. SocketFollowsPc'
    BY <1>2 DEF Accept, SocketFollowsPc
  <2> QED
    BY <1>1, <2>1, <2>2, <2>3
<1>3. CASE AcceptFails(c)
  <2>1. HubHoldsLatest'
    BY <1>3 DEF AcceptFails, HubHoldsLatest, Current, Registered, hubVars
  <2>2. LockedByWriter' /\ TargetIsHeld'
    BY <1>3 DEF AcceptFails, LockedByWriter, TargetIsHeld, hubVars, sendVars
  <2>3. SocketFollowsPc'
    BY <1>3 DEF AcceptFails, SocketFollowsPc, netVars
  <2> QED
    BY <1>1, <2>1, <2>2, <2>3
<1>4. CASE Connect(c)
  <2>1. HubHoldsLatest'
    BY <1>4 DEF Connect, HubHoldsLatest, Current, Registered
  <2>2. \A s \in Senders : target[s] = NoConn
    BY <1>4 DEF Connect, LockedByWriter
  <2>3. LockedByWriter' /\ TargetIsHeld'
    BY <1>4, <2>2 DEF Connect, LockedByWriter, TargetIsHeld, sendVars
  <2>4. SocketFollowsPc'
    BY <1>4 DEF Connect, SocketFollowsPc, netVars
  <2> QED
    BY <1>1, <2>1, <2>3, <2>4
<1>5. CASE OnConnect(c) \/ ReadFrame(c) \/ ReadFails(c)
  <2>1. /\ UNCHANGED <<conn, remote, latest, mu, target>>
        /\ \A d \in Conns : pc'[d] \in Registered <=> pc[d] \in Registered
    BY <1>5 DEF OnConnect, ReadFrame, ReadFails, Registered, hubVars, sendVars
  <2>2. HubHoldsLatest'
    BY <2>1 DEF HubHoldsLatest, Current
  <2>3. LockedByWriter' /\ TargetIsHeld'
    BY <2>1 DEF LockedByWriter, TargetIsHeld
  <2>4. SocketFollowsPc'
    BY <1>5 DEF OnConnect, ReadFrame, ReadFails, SocketFollowsPc, netVars
  <2> QED
    BY <1>1, <2>2, <2>3, <2>4
<1>6. CASE Disconnect(c)
  <2>1. HubHoldsLatest'
    <3>1. CASE conn = c
      BY <1>6, <3>1 DEF Disconnect, ClearIfCurrent, HubHoldsLatest, Current,
                        Registered
    <3>2. CASE conn # c
      <4>1. latest # c
        BY <1>6, <3>2 DEF Disconnect, HubHoldsLatest, Current, Registered
      <4> QED
        BY <1>6, <3>2, <4>1 DEF Disconnect, ClearIfCurrent, HubHoldsLatest,
                                Current, Registered
    <3> QED
      BY <3>1, <3>2
  <2>2. \A s \in Senders : target[s] = NoConn
    BY <1>6 DEF Disconnect, LockedByWriter
  <2>3. LockedByWriter' /\ TargetIsHeld'
    BY <1>6, <2>2 DEF Disconnect, LockedByWriter, TargetIsHeld, sendVars
  <2>4. SocketFollowsPc'
    BY <1>6 DEF Disconnect, SocketFollowsPc, netVars
  <2> QED
    BY <1>1, <2>1, <2>3, <2>4
<1>7. CASE OnDisconnect(c) \/ CloseNow(c)
  <2>1. /\ UNCHANGED <<conn, remote, latest, mu, target>>
        /\ \A d \in Conns : pc'[d] \in Registered <=> pc[d] \in Registered
    BY <1>7 DEF OnDisconnect, CloseNow, Registered, hubVars, sendVars
  <2>2. HubHoldsLatest'
    BY <2>1 DEF HubHoldsLatest, Current
  <2>3. LockedByWriter' /\ TargetIsHeld'
    BY <2>1 DEF LockedByWriter, TargetIsHeld
  <2>4. SocketFollowsPc'
    BY <1>7 DEF OnDisconnect, CloseNow, SocketFollowsPc, netVars
  <2> QED
    BY <1>1, <2>2, <2>3, <2>4
<1> QED
  BY <1>2, <1>3, <1>4, <1>5, <1>6, <1>7 DEF Handler

\* A step of a sender: it takes the mutex when nobody writes, and gives it
\* back with its own write.
LEMMA SenderStep == ASSUME IInv, NEW s \in Senders, Sender(s)
                    PROVE  IInv'
<1>1. TypeOK'
  BY TypeStep DEF IInv, Next
<1> USE HubAssumption DEF IInv, TypeOK
<1>2. UNCHANGED <<conn, remote, latest, pc>>
  BY DEF Sender, SendNoBrain, SendBegin, WriteOK, WriteFails, WriteExpires,
         hubVars
<1>3. HubHoldsLatest'
  BY <1>2 DEF HubHoldsLatest, Current
<1>4. CASE SendNoBrain(s)
  BY <1>1, <1>2, <1>3, <1>4
     DEF SendNoBrain, LockedByWriter, TargetIsHeld, SocketFollowsPc, netVars
<1>5. CASE SendBegin(s)
  <2>1. LockedByWriter'
    BY <1>5 DEF SendBegin, LockedByWriter
  <2>2. TargetIsHeld'
    BY <1>5 DEF SendBegin, TargetIsHeld, hubVars
  <2>3. SocketFollowsPc'
    BY <1>5 DEF SendBegin, SocketFollowsPc, netVars
  <2> QED
    BY <1>1, <1>3, <2>1, <2>2, <2>3
<1>6. CASE WriteOK(s) \/ WriteFails(s) \/ WriteExpires(s)
  <2>1. mu = s /\ target[s] \in Conns /\ sock[target[s]] # "none"
    <3>1. mu = s /\ target[s] \in Conns
      BY <1>6 DEF WriteOK, WriteFails, WriteExpires, LockedByWriter
    <3>2. pc[target[s]] \in Registered
      BY <3>1 DEF TargetIsHeld, HubHoldsLatest, Current
    <3> QED
      BY <3>1, <3>2 DEF SocketFollowsPc, Registered
  <2>2. mu' = NoSender /\ target' = [target EXCEPT ![s] = NoConn]
    BY <1>6 DEF WriteOK, WriteFails, WriteExpires, Unlock
  <2>3. LockedByWriter'
    BY <2>1, <2>2 DEF LockedByWriter
  <2>4. TargetIsHeld'
    BY <1>2, <2>2 DEF TargetIsHeld
  <2>5. \A c \in Conns : sock'[c] = sock[c]
                          \/ (c = target[s] /\ sock'[c] = "closed")
    BY <1>6, <2>1 DEF WriteOK, WriteFails, WriteExpires, netVars
  <2>6. SocketFollowsPc'
    BY <1>2, <2>1, <2>5 DEF SocketFollowsPc
  <2> QED
    BY <1>1, <1>3, <2>3, <2>4, <2>6
<1> QED
  BY <1>4, <1>5, <1>6 DEF Sender

\* IInv is inductive.
LEMMA IInvStep == IInv /\ [Next]_vars => IInv'
<1>1. ASSUME IInv, UNCHANGED vars
      PROVE  IInv'
  BY <1>1 DEF vars, IInv, TypeOK, HubHoldsLatest, Current, LockedByWriter,
              TargetIsHeld, SocketFollowsPc
<1> QED
  BY <1>1, NetworkStep, HandlerStep, SenderStep DEF Next

\* Every reachable state satisfies it.
THEOREM Invariance == Spec => []IInv
  BY IInvInit, IInvStep, PTL DEF Spec

-----------------------------------------------------------------------------
(* The properties. *)

\* hub.go Connect / Disconnect: in every reachable state the hub holds the
\* newest brain that its own handler has not removed, with its own address.
THEOREM HoldsLatest == Spec => []HubHoldsLatest
<1>1. IInv => HubHoldsLatest
  BY DEF IInv
<1> QED
  BY <1>1, Invariance, PTL

\* hub.go SendJSON: frames go one at a time and to the brain the hub holds.
THEOREM WritesGoToHolder == Spec => []WritesToHolder
<1>1. IInv => WritesToHolder
  <2> SUFFICES ASSUME IInv, NEW s \in Senders, target[s] # NoConn
               PROVE  /\ conn = target[s]
                      /\ pc[target[s]] \in Registered
                      /\ \A q \in Senders : target[q] # NoConn => q = s
    BY DEF WritesToHolder
  <2>1. conn = target[s]
    BY DEF IInv, TargetIsHeld
  <2>2. pc[target[s]] \in Registered
    BY <2>1 DEF IInv, HubHoldsLatest, Current
  <2>3. \A q \in Senders : target[q] # NoConn => q = s
    BY DEF IInv, LockedByWriter
  <2> QED
    BY <2>1, <2>2, <2>3
<1> QED
  BY <1>1, Invariance, PTL

\* As long as the last notice is that a brain came, some handler still has its
\* own OnDisconnect ahead of it.
SomebodyWillTell ==
  notice = "came" => \E c \in Conns : pc[c] \in {"reading", "failed", "unregistered"}

\* receiver.go OnConnect / OnDisconnect: once every handler that registered a
\* brain is done, the last notice is not that one came.
THEOREM NoGhost == Spec => []NoGhostBrain
<1>1. Init => SomebodyWillTell
  BY DEF Init, SomebodyWillTell
<1>2. TypeOK /\ SomebodyWillTell /\ [Next]_vars => SomebodyWillTell'
  <2> SUFFICES ASSUME TypeOK, SomebodyWillTell, [Next]_vars
               PROVE  SomebodyWillTell'
    OBVIOUS
  <2> USE DEF TypeOK
  <2>1. ASSUME UNCHANGED <<notice, pc>>
        PROVE  SomebodyWillTell'
    BY <2>1 DEF SomebodyWillTell
  <2>2. ASSUME NEW c \in Conns, Handler(c)
        PROVE  SomebodyWillTell'
    <3>1. CASE Accept(c) \/ AcceptFails(c) \/ Connect(c) \/ CloseNow(c)
      BY <3>1 DEF Accept, AcceptFails, Connect, CloseNow, noteVars,
                  SomebodyWillTell
    <3>2. CASE ReadFrame(c)
      BY <2>1, <3>2 DEF ReadFrame
    <3>3. CASE OnConnect(c)
      BY <3>3 DEF OnConnect, SomebodyWillTell
    <3>4. CASE ReadFails(c) \/ Disconnect(c)
      BY <3>4 DEF ReadFails, Disconnect, noteVars, SomebodyWillTell
    <3>5. CASE OnDisconnect(c)
      BY <3>5 DEF OnDisconnect, SomebodyWillTell
    <3> QED
      BY <2>2, <3>1, <3>2, <3>3, <3>4, <3>5 DEF Handler
  <2>3. ASSUME NEW c \in Conns, Network(c)
        PROVE  UNCHANGED <<notice, pc>>
    BY <2>3 DEF Network, Stall, Resume, Vanish, noteVars
  <2>4. ASSUME NEW s \in Senders, Sender(s)
        PROVE  UNCHANGED <<notice, pc>>
    BY <2>4 DEF Sender, SendNoBrain, SendBegin, WriteOK, WriteFails,
                WriteExpires, noteVars
  <2>5. UNCHANGED vars => UNCHANGED <<notice, pc>>
    BY DEF vars
  <2> QED
    BY <2>1, <2>2, <2>3, <2>4, <2>5 DEF Next
<1>3. SomebodyWillTell => NoGhostBrain
  BY DEF SomebodyWillTell, NoGhostBrain
<1> QED
  BY <1>1, <1>2, <1>3, TypeCorrect, PTL DEF Spec

-----------------------------------------------------------------------------
(* Refinement of BrainSlot.  Connect is Take, Disconnect is Leave, WriteOK  *)
(* is Deliver; every other step changes no variable of the slot.            *)

TakenSlot == {c \in Conns : pc[c] \in Registered \/ HasLeft(c)}
LeftSlot == {c \in Conns : HasLeft(c)}

\* A step that keeps every connection on its side of the slot is a stutter.
LEMMA SlotStutter ==
  ASSUME UNCHANGED <<conn, sent>>,
         \A c \in Conns : /\ (pc[c] \in Registered)' <=> pc[c] \in Registered
                          /\ HasLeft(c)' <=> HasLeft(c)
  PROVE  UNCHANGED Slot!vars
  BY DEF Slot!vars

\* The steps of a handler.
LEMMA HandlerRefines == ASSUME IInv, NEW c \in Conns, Handler(c)
                        PROVE  [Slot!Next]_(Slot!vars)
<1> USE HubAssumption DEF IInv, TypeOK
<1>1. CASE Accept(c) \/ AcceptFails(c)
  <2>1. UNCHANGED <<conn, sent>>
    BY <1>1 DEF Accept, AcceptFails, hubVars
  <2>2. \A d \in Conns : /\ (pc[d] \in Registered)' <=> pc[d] \in Registered
                         /\ HasLeft(d)' <=> HasLeft(d)
    BY <1>1 DEF Accept, AcceptFails, Registered, HasLeft, SocketFollowsPc,
                netVars
  <2> QED
    BY <2>1, <2>2, SlotStutter
<1>2. CASE Connect(c)
  <2>1. c \notin TakenSlot
    BY <1>2 DEF Connect, TakenSlot, HasLeft, Registered
  <2>2. TakenSlot' = TakenSlot \union {c}
    BY <1>2 DEF Connect, TakenSlot, HasLeft, Registered, netVars
  <2>3. LeftSlot' = LeftSlot
    BY <1>2 DEF Connect, LeftSlot, HasLeft, netVars
  <2>4. conn' = c /\ UNCHANGED sent
    BY <1>2 DEF Connect
  <2>5. Slot!Take(c)
    BY <2>1, <2>2, <2>3, <2>4 DEF Slot!Take, TakenSlot, LeftSlot
  <2> QED
    BY <2>5 DEF Slot!Next
<1>3. CASE OnConnect(c) \/ ReadFrame(c) \/ ReadFails(c)
  <2>1. UNCHANGED <<conn, sent>>
    BY <1>3 DEF OnConnect, ReadFrame, ReadFails, hubVars
  <2>2. \A d \in Conns : /\ (pc[d] \in Registered)' <=> pc[d] \in Registered
                         /\ HasLeft(d)' <=> HasLeft(d)
    BY <1>3 DEF OnConnect, ReadFrame, ReadFails, Registered, HasLeft, netVars
  <2> QED
    BY <2>1, <2>2, SlotStutter
<1>4. CASE Disconnect(c)
  <2>1. c \in TakenSlot \ LeftSlot
    BY <1>4 DEF Disconnect, TakenSlot, LeftSlot, HasLeft, Registered
  <2>2. LeftSlot' = LeftSlot \union {c}
    BY <1>4 DEF Disconnect, LeftSlot, HasLeft, netVars
  <2>3. TakenSlot' = TakenSlot
    BY <1>4 DEF Disconnect, TakenSlot, HasLeft, Registered, netVars
  <2>4. /\ UNCHANGED sent
        /\ (conn = c /\ conn' = NoConn) \/ (conn # c /\ UNCHANGED conn)
    BY <1>4 DEF Disconnect, ClearIfCurrent
  <2>5. Slot!Leave(c)
    BY <2>1, <2>2, <2>3, <2>4 DEF Slot!Leave, TakenSlot, LeftSlot
  <2> QED
    BY <2>5 DEF Slot!Next
<1>5. CASE OnDisconnect(c) \/ CloseNow(c)
  <2>1. UNCHANGED <<conn, sent>>
    BY <1>5 DEF OnDisconnect, CloseNow, hubVars
  <2>2. \A d \in Conns : /\ (pc[d] \in Registered)' <=> pc[d] \in Registered
                         /\ HasLeft(d)' <=> HasLeft(d)
    BY <1>5 DEF OnDisconnect, CloseNow, Registered, HasLeft, netVars
  <2> QED
    BY <2>1, <2>2, SlotStutter
<1> QED
  BY <1>1, <1>2, <1>3, <1>4, <1>5 DEF Handler

\* The steps of a sender: a write that fails may close the socket of a
\* connection that still holds the slot, which is no step of the slot.
LEMMA SenderRefines == ASSUME IInv, NEW s \in Senders, Sender(s)
                       PROVE  [Slot!Next]_(Slot!vars)
<1> USE HubAssumption DEF IInv, TypeOK
<1>1. CASE SendNoBrain(s) \/ SendBegin(s)
  <2>1. UNCHANGED <<conn, sent, pc, sock>>
    BY <1>1 DEF SendNoBrain, SendBegin, hubVars, netVars
  <2> QED
    BY <2>1, SlotStutter DEF HasLeft
<1>2. CASE WriteOK(s)
  <2>1. conn # NoConn
    BY <1>2 DEF WriteOK, TargetIsHeld
  <2>2. UNCHANGED <<conn, pc, sock>> /\ sent' = sent + 1
    BY <1>2 DEF WriteOK, netVars
  <2>3. Slot!Deliver
    BY <2>1, <2>2 DEF Slot!Deliver, HasLeft
  <2> QED
    BY <2>3 DEF Slot!Next
<1>3. CASE WriteFails(s) \/ WriteExpires(s)
  <2>1. UNCHANGED <<conn, sent, pc>>
    BY <1>3 DEF WriteFails, WriteExpires, hubVars
  <2>2. target[s] \in Conns /\ pc[target[s]] \in Registered
    BY <1>3 DEF WriteFails, WriteExpires, TargetIsHeld, HubHoldsLatest,
                Current
  <2>3. \A d \in Conns : d # target[s] => sock'[d] = sock[d]
    BY <1>3 DEF WriteFails, WriteExpires
  <2>4. \A d \in Conns : HasLeft(d)' <=> HasLeft(d)
    BY <2>1, <2>2, <2>3 DEF HasLeft, Registered
  <2> QED
    BY <2>1, <2>4, SlotStutter
<1> QED
  BY <1>1, <1>2, <1>3 DEF Sender

\* A step of the hub and its handlers is a step of the slot or a stutter.
LEMMA SlotStep == IInv /\ [Next]_vars => [Slot!Next]_(Slot!vars)
<1> SUFFICES ASSUME IInv, [Next]_vars
             PROVE  [Slot!Next]_(Slot!vars)
    OBVIOUS
<1>1. ASSUME NEW c \in Conns, Network(c)
      PROVE  [Slot!Next]_(Slot!vars)
  <2>1. UNCHANGED <<conn, sent, pc, sock>>
    BY <1>1 DEF Network, Stall, Resume, Vanish, hubVars
  <2> QED
    BY <2>1, SlotStutter DEF HasLeft
<1>2. CASE UNCHANGED vars
  <2>1. UNCHANGED <<conn, sent, pc, sock>>
    BY <1>2 DEF vars
  <2> QED
    BY <2>1, SlotStutter DEF HasLeft
<1> QED
  BY <1>1, <1>2, HandlerRefines, SenderRefines DEF Next

\* The hub with its handlers implements the abstract slot: the newest brain
\* wins, only the owner empties the slot, a counted frame went to the holder.
THEOREM Refinement == Spec => ImplementsSlot
<1>1. Init => Slot!Init
  BY DEF Init, Slot!Init, Registered, HasLeft
<1> QED
  BY <1>1, SlotStep, Invariance, PTL DEF Spec, ImplementsSlot, Slot!Spec

=============================================================================
