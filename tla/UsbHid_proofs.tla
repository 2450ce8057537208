---------------------------- MODULE UsbHid_proofs ----------------------------
(***************************************************************************)
(* Proofs about UsbHid, for any number of endpoints, descriptors, callers  *)
(* and listeners: a descriptor of a node has exactly one owner although    *)
(* the kernel hands descriptors out again.                                 *)
(***************************************************************************)
EXTENDS UsbHid, TLAPS

\* A Disconnect in progress knows what it closes.
CloserKnows == \A c \in Callers :
                 call[c] = "disconnect" => ep[c] \in Endpoints /\ arg[c] \in Fds

IInv == TypeOK /\ CloserKnows /\ OneOwner

-----------------------------------------------------------------------------
(* Type correctness. *)

\* Every step keeps the types.
LEMMA TypeStep == TypeOK /\ [Next]_vars => TypeOK'
<1> SUFFICES ASSUME TypeOK, [Next]_vars
             PROVE  TypeOK'
    OBVIOUS
<1> USE HidAssumption DEF TypeOK, kernelVars, callVars, listenVars
<1>1. CASE Kernel
  <2>1. UNCHANGED <<ports, callVars, listenVars>>
    BY <1>1 DEF Kernel, ForeignOpen, ForeignClose, Arrive, Unplug
  <2>2. file' \in [Fds -> Endpoints \union {NoFile, Foreign}]
    BY <1>1 DEF Kernel, ForeignOpen, ForeignClose, Arrive, Unplug, Opens,
                Closes
  <2>3. gone' \in [Fds -> BOOLEAN] /\ input' \in [Fds -> BOOLEAN]
    <3>1. CASE \E f \in Fds : ForeignOpen(f) \/ Arrive(f)
      BY <3>1 DEF ForeignOpen, Arrive, Opens
    <3>2. CASE \E f \in Fds : ForeignClose(f)
      <4>1. PICK f \in Fds : /\ gone' = [g \in Fds |-> g # f /\ gone[g]]
                             /\ input' = [g \in Fds |-> g # f /\ input[g]]
        BY <3>2 DEF ForeignClose, Closes
      <4> QED
        BY <4>1, Zenon
    <3>3. CASE \E e \in Endpoints : Unplug(e)
      <4>1. PICK e \in Endpoints :
              /\ gone' = [f \in Fds |-> gone[f] \/ file[f] = e]
              /\ UNCHANGED input
        BY <3>3 DEF Unplug
      <4> QED
        BY <4>1, Zenon
    <3> QED
      BY <1>1, <3>1, <3>2, <3>3 DEF Kernel
  <2> QED
    BY <2>1, <2>2, <2>3
<1>2. CASE \E e \in Endpoints : Connect(e)
  BY <1>2 DEF Connect, Opens
<1>3. ASSUME NEW c \in Callers, Caller(c)
      PROVE  TypeOK'
  <2>1. CASE \E e \in Endpoints : Forget(c, e) \/ SendBegin(c, e)
    BY <2>1 DEF Forget, SendBegin, Begins
  <2>2. CASE CloseForgotten(c)
    BY <2>2 DEF CloseForgotten, Returns, Closes
  <2>3. CASE SendWrite(c)
    BY <2>3 DEF SendWrite, Returns
  <2> QED
    BY <1>3, <2>1, <2>2, <2>3 DEF Caller
<1>4. ASSUME NEW l \in Listeners, Listener(l)
      PROVE  TypeOK'
  <2>1. CASE \E e \in Endpoints : Listen(l, e)
    BY <2>1 DEF Listen
  <2>2. CASE ReaderStops(l) \/ ReaderPolls(l) \/ PollTimesOut(l)
             \/ PollFails(l) \/ PollReady(l)
    BY <2>2 DEF ReaderStops, ReaderPolls, PollTimesOut, PollFails, PollReady,
                ReaderAt
  <2>3. CASE ReadReport(l) \/ ReadNothing(l) \/ ReadFails(l) \/ ReadBlocks(l)
    BY <2>3 DEF ReadReport, ReadNothing, ReadFails, ReadBlocks, ReaderAt
  <2>4. CASE Offer(l) \/ OfferCancelled(l)
    BY <2>4 DEF Offer, OfferCancelled, ReaderAt
  <2>5. CASE Take(l)
    BY <2>5 DEF Take
  <2>6. CASE Cancel(l)
    BY <2>6 DEF Cancel
  <2>7. CASE ReadReturns(l)
    <3>1. PICK to \in {"offering", "checking", "closed"} :
            ReaderAt(l, "reading", to)
      BY <2>7 DEF ReadReturns
    <3> QED
      BY <2>7, <3>1 DEF ReadReturns, ReaderAt
  <2> QED
    BY <1>4, <2>1, <2>2, <2>3, <2>4, <2>5, <2>6, <2>7 DEF Listener, Reader
<1>5. CASE UNCHANGED vars
  BY <1>5 DEF vars
<1> QED
  BY <1>1, <1>2, <1>3, <1>4, <1>5 DEF Next

-----------------------------------------------------------------------------
(* Ownership. *)

\* Disconnect finds the descriptor in the map, and keeps it till it closes it.
LEMMA CloserStep == TypeOK /\ CloserKnows /\ [Next]_vars => CloserKnows'
<1> SUFFICES ASSUME TypeOK, CloserKnows, [Next]_vars
             PROVE  CloserKnows'
    OBVIOUS
<1> USE HidAssumption DEF TypeOK, CloserKnows
<1>1. ASSUME NEW c \in Callers, Caller(c)
      PROVE  CloserKnows'
  BY <1>1 DEF Caller, Forget, SendBegin, CloseForgotten, SendWrite, Begins,
              Returns
<1>2. ASSUME UNCHANGED callVars
      PROVE  CloserKnows'
  BY <1>2 DEF callVars
<1>3. Kernel => UNCHANGED callVars
  BY DEF Kernel, ForeignOpen, ForeignClose, Arrive, Unplug
<1>4. (\E e \in Endpoints : Connect(e)) => UNCHANGED callVars
  BY DEF Connect
<1>5. (\E l \in Listeners : Listener(l)) => UNCHANGED callVars
  BY DEF Listener, Listen, Reader, ReaderAt, ReaderStops, ReaderPolls,
         PollTimesOut, PollFails, PollReady, ReadReport, ReadNothing,
         ReadFails, ReadBlocks, ReadReturns, Offer, OfferCancelled, Take, Cancel
<1>6. UNCHANGED vars => UNCHANGED callVars
  BY DEF vars
<1> QED
  BY <1>1, <1>2, <1>3, <1>4, <1>5, <1>6 DEF Next

\* A step that leaves a descriptor, the ports and the Disconnects alone leaves
\* its owners alone.
LEMMA SameOwners ==
  ASSUME NEW f \in Fds, NEW e \in Endpoints, RightlyOwned(f, e),
         (file[f] = e)' <=> file[f] = e,
         Owners(f, e)' = Owners(f, e)
  PROVE  RightlyOwned(f, e)'
  BY DEF RightlyOwned

\* open(2) hands out a descriptor nobody owns.
LEMMA KernelOwners == ASSUME IInv, Kernel
                      PROVE  OneOwner'
<1> SUFFICES ASSUME NEW f \in Fds, NEW e \in Endpoints
             PROVE  RightlyOwned(f, e)'
    BY DEF OneOwner
<1>1. RightlyOwned(f, e)
  BY DEF IInv, OneOwner
<1>2. Owners(f, e)' = Owners(f, e)
  BY DEF Kernel, ForeignOpen, ForeignClose, Arrive, Unplug, Owners, callVars
<1>3. (file[f] = e)' <=> file[f] = e
  BY HidAssumption
     DEF IInv, TypeOK, Kernel, ForeignOpen, ForeignClose, Arrive, Unplug,
         Opens, Closes
<1> QED
  BY <1>1, <1>2, <1>3, SameOwners

\* Connect gives the descriptor it opens to the endpoint.
LEMMA ConnectOwners == ASSUME IInv, NEW d \in Endpoints, Connect(d)
                       PROVE  OneOwner'
<1> USE HidAssumption DEF IInv, TypeOK
<1>1. PICK g \in Fds : /\ file[g] = NoFile
                       /\ file' = [file EXCEPT ![g] = d]
                       /\ ports' = [ports EXCEPT ![d] = g]
                       /\ ports[d] = NoFd
                       /\ UNCHANGED <<call, arg, ep>>
  BY DEF Connect, Opens, callVars
<1> SUFFICES ASSUME NEW f \in Fds, NEW e \in Endpoints
             PROVE  RightlyOwned(f, e)'
    BY DEF OneOwner
<1>2. RightlyOwned(f, e)
  BY DEF OneOwner
<1>3. CASE f = g /\ e = d
  <2>1. Owners(g, d) = {}
    BY <1>1, <1>2, <1>3 DEF RightlyOwned
  <2>2. Owners(g, d)' = {d}
    BY <1>1, <2>1 DEF Owners
  <2>3. file'[g] = d
    BY <1>1
  <2> QED
    BY <1>3, <2>2, <2>3 DEF RightlyOwned
<1>4. CASE ~(f = g /\ e = d)
  <2>1. Owners(f, e)' = Owners(f, e)
    BY <1>1, <1>4 DEF Owners
  <2>2. (file[f] = e)' <=> file[f] = e
    BY <1>1, <1>4
  <2> QED
    BY <1>2, <2>1, <2>2, SameOwners
<1> QED
  BY <1>3, <1>4

\* Disconnect takes the descriptor out of the map before it closes it.
LEMMA CallerOwners == ASSUME IInv, NEW c \in Callers, Caller(c)
                      PROVE  OneOwner'
<1> USE HidAssumption DEF IInv, TypeOK
<1> SUFFICES ASSUME NEW f \in Fds, NEW e \in Endpoints
             PROVE  RightlyOwned(f, e)'
    BY DEF OneOwner
<1>1. RightlyOwned(f, e)
  BY DEF OneOwner
<1>2. CASE \E d \in Endpoints : SendBegin(c, d)
  <2>1. Owners(f, e)' = Owners(f, e) /\ UNCHANGED file
    BY <1>2 DEF SendBegin, Begins, Owners, kernelVars
  <2> QED
    BY <1>1, <2>1, SameOwners
<1>3. CASE SendWrite(c)
  <2>1. Owners(f, e)' = Owners(f, e) /\ UNCHANGED file
    BY <1>3 DEF SendWrite, Returns, Owners, kernelVars
  <2> QED
    BY <1>1, <2>1, SameOwners
<1>4. CASE \E d \in Endpoints : Forget(c, d)
  <2>1. PICK d \in Endpoints : /\ call[c] = "idle"
                               /\ ports[d] # NoFd
                               /\ call' = [call EXCEPT ![c] = "disconnect"]
                               /\ ep' = [ep EXCEPT ![c] = d]
                               /\ arg' = [arg EXCEPT ![c] = ports[d]]
                               /\ ports' = [ports EXCEPT ![d] = NoFd]
                               /\ UNCHANGED file
    BY <1>4 DEF Forget, Begins, kernelVars
  <2>2. CASE e = d /\ f = ports[d]
    <3>1. e \in Owners(f, e)
      BY <2>2 DEF Owners
    <3>2. file[f] = e /\ Owners(f, e) = {e}
      BY <1>1, <3>1 DEF RightlyOwned
    <3>3. Owners(f, e)' = {c}
      BY <2>1, <2>2, <3>2 DEF Owners
    <3> QED
      BY <2>1, <3>2, <3>3 DEF RightlyOwned
  <2>3. CASE ~(e = d /\ f = ports[d])
    <3>1. Owners(f, e)' = Owners(f, e)
      BY <2>1, <2>3 DEF Owners
    <3> QED
      BY <1>1, <2>1, <3>1, SameOwners
  <2> QED
    BY <2>2, <2>3
<1>5. CASE CloseForgotten(c)
  <2>1. PICK g \in Fds, d \in Endpoints :
          /\ g = arg[c] /\ d = ep[c] /\ call[c] = "disconnect"
          /\ file' = [h \in Fds |-> IF h = g THEN NoFile ELSE file[h]]
          /\ call' = [call EXCEPT ![c] = "idle"]
          /\ arg' = [arg EXCEPT ![c] = NoFd]
          /\ ep' = [ep EXCEPT ![c] = NoEndpoint]
          /\ UNCHANGED ports
    BY <1>5 DEF CloseForgotten, Closes, Returns, CloserKnows
  <2>2. CASE f = g /\ e = d
    <3>1. c \in Owners(f, e)
      BY <2>1, <2>2 DEF Owners
    <3>2. Owners(f, e) = {c}
      BY <1>1, <3>1 DEF RightlyOwned
    <3>3. Owners(f, e)' = {}
      BY <2>1, <3>2 DEF Owners
    <3>4. file'[f] # e
      BY <2>1, <2>2
    <3> QED
      BY <3>3, <3>4 DEF RightlyOwned
  <2>3. CASE f # g
    <3>1. Owners(f, e)' = Owners(f, e)
      BY <2>1, <2>3 DEF Owners
    <3>2. file'[f] = file[f]
      BY <2>1, <2>3
    <3> QED
      BY <1>1, <3>1, <3>2, SameOwners
  <2>4. CASE f = g /\ e # d
    <3>1. Owners(f, e)' = Owners(f, e)
      BY <2>1, <2>4 DEF Owners
    <3>2. file[f] = d
      <4>1. c \in Owners(f, d)
        BY <2>1, <2>4 DEF Owners
      <4>2. RightlyOwned(f, d)
        BY DEF OneOwner
      <4> QED
        BY <4>1, <4>2 DEF RightlyOwned
    <3>3. file'[f] # e /\ file[f] # e
      BY <2>1, <2>4, <3>2
    <3> QED
      BY <1>1, <3>1, <3>3, SameOwners
  <2> QED
    BY <2>2, <2>3, <2>4
<1> QED
  BY <1>2, <1>3, <1>4, <1>5 DEF Caller

\* A reader owns no descriptor and closes none.
LEMMA ListenerOwners == ASSUME IInv, NEW l \in Listeners, Listener(l)
                        PROVE  OneOwner'
<1>1. UNCHANGED <<ports, file, call, ep, arg>>
  BY DEF Listener, Listen, Reader, ReaderAt, ReaderStops, ReaderPolls,
         PollTimesOut, PollFails, PollReady, ReadReport, ReadNothing,
         ReadFails, ReadBlocks, ReadReturns, Offer, OfferCancelled, Take, Cancel, callVars, kernelVars
<1> QED
  BY <1>1 DEF IInv, OneOwner, RightlyOwned, Owners

-----------------------------------------------------------------------------
(* The theorems. *)

\* The inductive invariant.
LEMMA Invariance == Spec => []IInv
<1>1. Init => IInv
  BY HidAssumption
     DEF Init, IInv, TypeOK, CloserKnows, OneOwner, RightlyOwned, Owners
<1>2. IInv /\ [Next]_vars => IInv'
  <2>1. ASSUME IInv, UNCHANGED vars
        PROVE  OneOwner'
    BY <2>1 DEF vars, kernelVars, callVars, IInv, OneOwner, RightlyOwned,
                Owners
  <2> QED
    BY <2>1, TypeStep, CloserStep, KernelOwners, ConnectOwners, CallerOwners,
       ListenerOwners DEF IInv, Next
<1> QED
  BY <1>1, <1>2, PTL DEF Spec

\* The variables of the backend and of the kernel keep their types; the
\* channel of a Listen never holds more than its capacity.
THEOREM TypeCorrect == Spec => []TypeOK
<1>1. IInv => TypeOK
  BY DEF IInv
<1> QED
  BY <1>1, Invariance, PTL

\* usbhid.go Connect / Disconnect: whatever calls overlap and however the
\* kernel reuses descriptors, a descriptor of a node has exactly one party that
\* will close it, and Disconnect closes no descriptor of anybody else.
THEOREM DescriptorsHaveOneOwner == Spec => []OneOwner
<1>1. IInv => OneOwner
  BY DEF IInv
<1> QED
  BY <1>1, Invariance, PTL

-----------------------------------------------------------------------------
(* Refinement of Listening (its safety part).                              *)

\* A step that leaves the reader's phase and the channel alone is a stutter.
LEMMA ChannelStutter ==
  ASSUME UNCHANGED <<out, ctxDone>>,
         \A l \in Listeners :
           \/ reader'[l] = reader[l]
           \/ /\ reader[l] \notin {"none", "closed"}
              /\ reader'[l] \notin {"none", "closed"}
  PROVE  UNCHANGED Channel!vars
  BY DEF Channel!vars

\* A step of a Listen is a step of its channel or a stutter.
LEMMA ListenerRefines == ASSUME IInv, NEW l \in Listeners, Listener(l)
                         PROVE  [Channel!Next]_(Channel!vars)
<1> USE DEF IInv, TypeOK
<1>1. CASE \E e \in Endpoints : Listen(l, e)
  <2>1. Channel!Listen(l)
    BY <1>1 DEF Listen, Channel!Listen
  <2> QED
    BY <2>1 DEF Channel!Next
<1>2. CASE ReaderStops(l) \/ PollFails(l) \/ ReadFails(l) \/ OfferCancelled(l)
  <2>1. Channel!Close(l)
    BY <1>2 DEF ReaderStops, PollFails, ReadFails, OfferCancelled, ReaderAt,
                Channel!Close
  <2> QED
    BY <2>1 DEF Channel!Next
<1>3. CASE \/ ReaderPolls(l) \/ PollTimesOut(l) \/ PollReady(l)
           \/ ReadReport(l) \/ ReadNothing(l) \/ ReadBlocks(l)
  BY <1>3, ChannelStutter
     DEF ReaderPolls, PollTimesOut, PollReady, ReadReport, ReadNothing,
         ReadBlocks, ReaderAt
<1>4. CASE Offer(l)
  <2>1. Channel!Emit(l)
    BY <1>4 DEF Offer, ReaderAt, Channel!Emit
  <2> QED
    BY <2>1 DEF Channel!Next
<1>5. CASE Take(l)
  <2>1. Channel!Take(l)
    BY <1>5 DEF Take, Channel!Take
  <2> QED
    BY <2>1 DEF Channel!Next
<1>6. CASE Cancel(l)
  <2>1. Channel!Cancel(l)
    BY <1>6 DEF Cancel, Channel!Cancel
  <2> QED
    BY <2>1 DEF Channel!Next
<1>7. CASE ReadReturns(l)
  <2>1. CASE ReaderAt(l, "reading", "closed")
    <3>1. Channel!Close(l)
      BY <1>7, <2>1 DEF ReadReturns, ReaderAt, Channel!Close
    <3> QED
      BY <3>1 DEF Channel!Next
  <2>2. CASE ReaderAt(l, "reading", "offering") \/ ReaderAt(l, "reading", "checking")
    BY <1>7, <2>2, ChannelStutter DEF ReadReturns, ReaderAt
  <2> QED
    BY <1>7, <2>1, <2>2 DEF ReadReturns
<1> QED
  BY <1>1, <1>2, <1>3, <1>4, <1>5, <1>6, <1>7 DEF Listener, Reader

\* usbhid.go Listen: the channel takes no event after its close, is closed at
\* most once and never holds more than its buffer, whatever has become of the
\* descriptor it reads from.
THEOREM ListenRefinement == Spec => Channel!SafeSpec
<1>1. Init => Channel!Init
  BY DEF Init, Channel!Init
<1>2. IInv /\ [Next]_vars => [Channel!Next]_(Channel!vars)
  <2>1. ASSUME UNCHANGED listenVars
        PROVE  UNCHANGED Channel!vars
    BY <2>1, ChannelStutter DEF listenVars
  <2>2. Kernel => UNCHANGED listenVars
    BY DEF Kernel, ForeignOpen, ForeignClose, Arrive, Unplug
  <2>3. ASSUME NEW e \in Endpoints, Connect(e)
        PROVE  UNCHANGED listenVars
    BY <2>3 DEF Connect
  <2>4. ASSUME NEW c \in Callers, Caller(c)
        PROVE  UNCHANGED listenVars
    BY <2>4 DEF Caller, Forget, SendBegin, CloseForgotten, SendWrite
  <2>5. UNCHANGED vars => UNCHANGED listenVars
    BY DEF vars
  <2> QED
    BY <2>1, <2>2, <2>3, <2>4, <2>5, ListenerRefines DEF Next
<1> QED
  BY <1>1, <1>2, Invariance, PTL DEF Spec, Channel!SafeSpec

=============================================================================
