----------------------------- MODULE Ble_proofs -----------------------------
(***************************************************************************)
(* Proofs about BleTransport and BleScan, for any number of endpoints,     *)
(* planes, bus connections, callers, listeners and scanners: a data plane  *)
(* has one owner and is not closed under a write, notifications and scans  *)
(* are stopped when nobody needs them, and the channel of Listen takes no  *)
(* event after its close.                                                  *)
(***************************************************************************)
EXTENDS BleScan, TLAPS

\* What a caller holds at each point of its call.
CallerHolds == \A c \in Callers :
  /\ pc[c] \notin {"idle", "panicked"} => ep[c] \in Endpoints
  /\ pc[c] \in {"install", "close", "send", "writing"} => arg[c] \in Planes
  /\ pc[c] \in {"linking", "notify", "acquire"} => busArg[c] \in Buses

\* t.conn is the one connection that is open.
OnlyBusAlive == \A b \in Buses : busState[b] = "open" <=> b = bus

\* The reader offers only messages it has.
OffersWhatItHas == \A l \in Listeners : reader[l] = "offering" => batch[l] >= 1

Basics == TypeOK /\ CallerHolds /\ OnlyBusAlive /\ OffersWhatItHas

IInv == Basics /\ OneOwner /\ NoTornWrite /\ NotifiedForSomebody

-----------------------------------------------------------------------------
(* What the calls hold. *)

\* What is chosen among the unused ones is one of them.
LEMMA OneIsSuch == ASSUME NEW stateOf, NEW what, Some(stateOf, what)
                   PROVE  /\ One(stateOf, what) \in DOMAIN stateOf
                          /\ stateOf[One(stateOf, what)] = what
BY DEF Some, One

\* Types and what callers hold, for the calls of Connect up to the data plane.
LEMMA ConnectBasics == ASSUME Basics, NEW c \in Callers, Connect(c)
                       PROVE  Basics'
<1> USE BleAssumption DEF Basics, TypeOK, CallerHolds, OnlyBusAlive,
        OffersWhatItHas, busVars, mapVars, planeVars, radioVars, callVars, listenVars
<1>1. ASSUME NEW e \in Endpoints, ConnectBegin(c, e)
      PROVE  Basics'
  <2>1. CASE bus # NoBus /\ UNCHANGED busVars
    BY <1>1, <2>1 DEF ConnectBegin, Begins, Goes
  <2>2. CASE bus = NoBus /\ Some(busState, "unused")
    <3>1. One(busState, "unused") \in Buses
      BY <2>2, OneIsSuch
    <3> QED
      BY <1>1, <2>2, <3>1 DEF ConnectBegin, Begins, Goes, EnsureBus
  <2> QED
    BY <1>1, <2>1, <2>2 DEF ConnectBegin, EnsureBus
<1>2. CASE Resolve(c)
  BY <1>2 DEF Resolve, Goes
<1>3. CASE ReadsNil(c)
  BY <1>3 DEF ReadsNil, Goes
<1>4. CASE GivesUp(c)
  BY <1>4 DEF GivesUp, Returns, Goes
<1>5. CASE OpenALSA(c)
  <2>1. One(state, "unused") \in Planes
    BY <1>5, OneIsSuch DEF OpenALSA, Opens
  <2> QED
    BY <1>5, <2>1 DEF OpenALSA, Opens, Goes
<1>6. CASE NoALSA(c)
  BY <1>6 DEF NoALSA, Goes
<1>7. CASE DropStaleLink(c)
  BY <1>7 DEF DropStaleLink, Goes
<1>8. CASE Link(c)
  BY <1>8 DEF Link, Goes
<1>9. CASE FindChar(c)
  BY <1>9 DEF FindChar, Goes
<1>10. CASE TakeBus(c)
  BY <1>10 DEF TakeBus, Goes
<1>11. CASE BusClosed(c)
  BY <1>11 DEF BusClosed, Returns, Goes
<1>12. CASE StartNotify(c)
  BY <1>12 DEF StartNotify, Goes
<1>13. CASE AcquireWrite(c)
  <2>1. One(state, "unused") \in Planes
    BY <1>13, OneIsSuch DEF AcquireWrite, Opens
  <2> QED
    BY <1>13, <2>1 DEF AcquireWrite, Opens, Goes
<1>14. CASE AcquireFails(c)
  BY <1>14 DEF AcquireFails, Returns, Goes
<1>15. CASE SetPlane(c)
  BY <1>15 DEF SetPlane, Returns, Goes, Holds, Closes, StopsNotify
<1> QED
  BY <1>1, <1>2, <1>3, <1>4, <1>5, <1>6, <1>7, <1>8, <1>9, <1>10, <1>11, <1>12,
     <1>13, <1>14, <1>15 DEF Connect

\* Types and what callers hold, for the other calls.
LEMMA CallBasics == ASSUME Basics, NEW c \in Callers, Disconnect(c) \/ Send(c)
                    PROVE  Basics'
<1> USE BleAssumption DEF Basics, TypeOK, CallerHolds, OnlyBusAlive,
        OffersWhatItHas, busVars, mapVars, planeVars, radioVars, callVars, listenVars
<1>1. ASSUME NEW e \in Endpoints, TakeOut(c, e)
      PROVE  Basics'
  BY <1>1 DEF TakeOut, Begins, Goes
<1>2. CASE ClosePlane(c)
  BY <1>2 DEF ClosePlane, Goes, Closes, StopsNotify
<1>3. CASE DropLink(c)
  BY <1>3 DEF DropLink, Returns, Goes
<1>4. ASSUME NEW e \in Endpoints, SendBegin(c, e)
      PROVE  Basics'
  BY <1>4 DEF SendBegin, Begins, Goes
<1>5. CASE SendWrites(c)
  BY <1>5 DEF SendWrites, Goes
<1>6. CASE SendEnds(c)
  <2>1. PICK from \in {"writing", "send"} : Returns(c, from)
    BY <1>6 DEF SendEnds
  <2>2. UNCHANGED <<busVars, mapVars, planeVars, radioVars>>
    BY <1>6 DEF SendEnds
  <2> QED
    BY <2>1, <2>2 DEF Returns, Goes
<1> QED
  BY <1>1, <1>2, <1>3, <1>4, <1>5, <1>6 DEF Disconnect, Send

\* Types and what callers hold, for Transport.Close.
LEMMA CloseBasics == ASSUME Basics, Close
                     PROVE  Basics'
<1> USE BleAssumption DEF Basics, TypeOK, CallerHolds, OnlyBusAlive,
        OffersWhatItHas, busVars, mapVars, planeVars, radioVars, callVars, listenVars
<1>1. busState' \in [Buses -> {"unused", "open", "closed"}] /\ OnlyBusAlive'
  BY DEF Close
<1>2. state' \in [Planes -> {"unused", "alsa", "gatt", "closed"}]
  BY DEF Close
<1> QED
  BY <1>1, <1>2 DEF Close

\* Types and what the reader has, for a call of Listen.
LEMMA ListenerBasics == ASSUME Basics, NEW l \in Listeners, Listener(l)
                        PROVE  Basics'
<1> USE BleAssumption DEF Basics, TypeOK, CallerHolds, OnlyBusAlive,
        OffersWhatItHas, busVars, mapVars, planeVars, radioVars, callVars, listenVars
<1>1. ASSUME NEW e \in Endpoints, Listen(l, e)
      PROVE  Basics'
  BY <1>1 DEF Listen, Alive
<1>2. CASE ReaderEnds(l, "waiting") \/ ReaderEnds(l, "offering")
  BY <1>2 DEF ReaderEnds, ReaderAt
<1>3. CASE Notified(l)
  <2>1. PICK n \in 1..MaxBatch : batch' = [batch EXCEPT ![l] = n]
    BY <1>3 DEF Notified
  <2> QED
    BY <1>3, <2>1 DEF Notified, ReaderAt
<1>4. CASE Offer(l)
  BY <1>4 DEF Offer, ReaderAt
<1>5. CASE Take(l)
  BY <1>5 DEF Take
<1>6. CASE Cancel(l)
  BY <1>6 DEF Cancel
<1> QED
  BY <1>1, <1>2, <1>3, <1>4, <1>5, <1>6 DEF Listener, Reader, ReaderStops, OfferCancelled

\* Types and what everybody holds are kept by every step.
LEMMA StepBasics == ASSUME Basics, [Next]_vars
                    PROVE  Basics'
<1>1. CASE UNCHANGED vars
  BY <1>1 DEF Basics, TypeOK, CallerHolds, OnlyBusAlive, OffersWhatItHas, vars,
              busVars, mapVars, planeVars, radioVars, callVars, listenVars
<1> QED
  BY <1>1, ConnectBasics, CallBasics, CloseBasics, ListenerBasics DEF Next

\* They hold at the start.
LEMMA InitBasics == Init => Basics
BY BleAssumption DEF Init, Basics, TypeOK, CallerHolds, OnlyBusAlive, OffersWhatItHas

-----------------------------------------------------------------------------
(* Who owns a data plane. *)

\* Caller c is between the opening of plane k and setPlane, or between the
\* unlock of Disconnect and plane.Close.
Keeps(c, k) == pc[c] \in {"install", "close"} /\ arg[c] = k

\* A step in which no plane changes its state or its owner.
LEMMA SameOwners == ASSUME OneOwner, UNCHANGED <<plane, state>>,
                           \A c \in Callers, k \in Planes : Keeps(c, k)' <=> Keeps(c, k)
                    PROVE  OneOwner'
<1>1. \A k \in Planes : Owners(k)' = Owners(k)
  BY DEF Owners, Keeps
<1> QED
  BY <1>1 DEF OneOwner, RightlyOwned

\* An endpoint is no caller.
LEMMA EndpointsApart == ASSUME NEW e \in Endpoints, NEW c \in Callers
                        PROVE  e # c /\ {e} # {c}
<1>1. e # c
  BY BleAssumption
<1> QED
  BY <1>1

\* A step that opens plane k for caller c.
LEMMA OpenedOwner == ASSUME Basics, OneOwner, NEW c \in Callers, NEW what \in {"alsa", "gatt"},
                            NEW b, NEW from, Goes(c, from, "install"), Opens(c, what, b),
                            from \notin {"install", "close"}, UNCHANGED plane
                     PROVE  OneOwner'
<1> USE DEF Basics, TypeOK
<1>1. PICK k \in Planes : k = One(state, "unused") /\ state[k] = "unused"
  <2>1. One(state, "unused") \in DOMAIN state /\ state[One(state, "unused")] = "unused"
    BY OneIsSuch DEF Opens
  <2> QED
    BY <2>1
<1>2. Owners(k) = {}
  BY <1>1 DEF OneOwner, RightlyOwned
<1>3. pc' = [pc EXCEPT ![c] = "install"] /\ arg' = [arg EXCEPT ![c] = k]
      /\ state' = [state EXCEPT ![k] = what]
  BY <1>1 DEF Goes, Opens
<1>4. Owners(k)' = {c}
  BY <1>1, <1>2, <1>3 DEF Owners
<1>5. \A j \in Planes \ {k} : Owners(j)' = Owners(j)
  <2>1. pc[c] \notin {"install", "close"}
    BY DEF Goes
  <2> QED
    BY <1>3, <2>1 DEF Owners
<1>6. RightlyOwned(k)'
  BY <1>1, <1>3, <1>4 DEF RightlyOwned
<1>7. \A j \in Planes \ {k} : RightlyOwned(j)'
  BY <1>3, <1>5 DEF OneOwner, RightlyOwned
<1> QED
  BY <1>6, <1>7 DEF OneOwner

\* Connect hands the plane it keeps to the device map, and closes the one
\* that was there: each had no other owner.
LEMMA SetPlaneOwner == ASSUME Basics, OneOwner, NEW c \in Callers, SetPlane(c)
                       PROVE  OneOwner'
<1>1. PICK e \in Endpoints, new \in Planes, old \in Planes \union {NoPlane} :
        /\ e = ep[c] /\ new = arg[c] /\ old = plane[e] /\ pc[c] = "install"
        /\ plane' = [plane EXCEPT ![e] = new]
        /\ pc' = [pc EXCEPT ![c] = "idle"]
        /\ arg' = [arg EXCEPT ![c] = NoPlane]
        /\ \A k \in Planes : state'[k] = IF k = old THEN "closed" ELSE state[k]
  <2>1. pc[c] = "install" /\ ep[c] \in Endpoints /\ arg[c] \in Planes
    BY DEF SetPlane, Returns, Goes, Basics, TypeOK, CallerHolds
  <2>2. /\ plane' = [plane EXCEPT ![ep[c]] = arg[c]]
        /\ pc' = [pc EXCEPT ![c] = "idle"]
        /\ arg' = [arg EXCEPT ![c] = NoPlane]
    BY DEF SetPlane, Returns, Goes, Holds
  <2>3. plane[ep[c]] \in Planes \union {NoPlane}
    BY <2>1 DEF Basics, TypeOK
  <2>4. \A k \in Planes : state'[k] = IF k = plane[ep[c]] THEN "closed" ELSE state[k]
    <3>1. CASE plane[ep[c]] = NoPlane /\ UNCHANGED planeVars
      BY <3>1, BleAssumption DEF planeVars
    <3>2. CASE Closes(plane[ep[c]])
      BY <3>2 DEF Closes, Basics, TypeOK
    <3> QED
      BY <3>1, <3>2 DEF SetPlane
  <2> QED
    BY <2>1, <2>2, <2>3, <2>4
<1>2. state[new] \in {"alsa", "gatt"} /\ Owners(new) = {c}
  <2>1. c \in Owners(new)
    BY <1>1 DEF Owners
  <2> QED
    BY <2>1 DEF OneOwner, RightlyOwned
<1>3. old \in Planes => Owners(old) = {e}
  <2>1. e \in Owners(old)
    BY <1>1 DEF Owners
  <2> QED
    BY <2>1 DEF OneOwner, RightlyOwned
<1>4. new # old
  <2>1. {e} # {c}
    BY EndpointsApart
  <2> QED
    BY <1>2, <1>3, <2>1
<1>5. Owners(new)' = {e}
  <2>1. \A x \in Endpoints : plane[x] # new
    BY <1>2, EndpointsApart DEF Owners
  <2>2. \A d \in Callers \ {c} : ~ (pc[d] \in {"install", "close"} /\ arg[d] = new)
    BY <1>2 DEF Owners
  <2> QED
    BY <1>1, <2>1, <2>2, BleAssumption DEF Owners, Basics, TypeOK
<1>6. old \in Planes => Owners(old)' = {}
  BY <1>1, <1>3, <1>4, BleAssumption DEF Owners, Basics, TypeOK
<1>7. \A k \in Planes \ {old, new} : Owners(k)' = Owners(k)
  BY <1>1, BleAssumption DEF Owners, Basics, TypeOK
<1>8. RightlyOwned(new)'
  BY <1>1, <1>2, <1>4, <1>5 DEF RightlyOwned
<1>9. old \in Planes => RightlyOwned(old)'
  BY <1>1, <1>6 DEF RightlyOwned
<1>10. \A k \in Planes \ {old, new} : RightlyOwned(k)'
  BY <1>1, <1>7 DEF OneOwner, RightlyOwned
<1> QED
  BY <1>8, <1>9, <1>10 DEF OneOwner

\* Disconnect takes the plane over from the device map.
LEMMA TakeOutOwner == ASSUME Basics, OneOwner, NEW c \in Callers,
                             NEW e \in Endpoints, TakeOut(c, e)
                      PROVE  OneOwner'
<1> USE BleAssumption DEF Basics, TypeOK
<1>1. PICK k \in Planes : /\ k = plane[e] /\ pc[c] = "idle"
                          /\ plane' = [plane EXCEPT ![e] = NoPlane]
                          /\ pc' = [pc EXCEPT ![c] = "close"]
                          /\ arg' = [arg EXCEPT ![c] = k]
                          /\ UNCHANGED state
  BY DEF TakeOut, Begins, Goes, planeVars
<1>2. Owners(k) = {e} /\ state[k] \in {"alsa", "gatt"}
  <2>1. e \in Owners(k)
    BY <1>1 DEF Owners
  <2> QED
    BY <2>1 DEF OneOwner, RightlyOwned
<1>3. Owners(k)' = {c}
  BY <1>1, <1>2 DEF Owners
<1>4. \A j \in Planes \ {k} : Owners(j)' = Owners(j)
  BY <1>1 DEF Owners
<1>5. RightlyOwned(k)'
  BY <1>1, <1>2, <1>3 DEF RightlyOwned
<1>6. \A j \in Planes \ {k} : RightlyOwned(j)'
  BY <1>1, <1>4 DEF OneOwner, RightlyOwned
<1> QED
  BY <1>5, <1>6 DEF OneOwner

\* Disconnect closes the plane it took.
LEMMA ClosePlaneOwner == ASSUME Basics, OneOwner, NEW c \in Callers, ClosePlane(c)
                         PROVE  OneOwner'
<1> USE BleAssumption DEF Basics, TypeOK
<1>1. PICK k \in Planes : /\ k = arg[c] /\ pc[c] = "close"
                          /\ pc' = [pc EXCEPT ![c] = "drop"]
                          /\ state' = [state EXCEPT ![k] = "closed"]
                          /\ UNCHANGED <<plane, arg>>
  BY DEF ClosePlane, Goes, Closes, CallerHolds, mapVars
<1>2. Owners(k) = {c}
  <2>1. c \in Owners(k)
    BY <1>1 DEF Owners
  <2> QED
    BY <2>1 DEF OneOwner, RightlyOwned
<1>3. Owners(k)' = {}
  BY <1>1, <1>2 DEF Owners
<1>4. \A j \in Planes \ {k} : Owners(j)' = Owners(j)
  BY <1>1 DEF Owners
<1>5. RightlyOwned(k)'
  BY <1>1, <1>3 DEF RightlyOwned
<1>6. \A j \in Planes \ {k} : RightlyOwned(j)'
  BY <1>1, <1>4 DEF OneOwner, RightlyOwned
<1> QED
  BY <1>5, <1>6 DEF OneOwner

\* Transport.Close closes what the device map owns.
LEMMA CloseOwner == ASSUME Basics, OneOwner, Close
                    PROVE  OneOwner'
<1> USE BleAssumption DEF Basics, TypeOK
<1>1. /\ plane' = [e \in Endpoints |-> NoPlane]
      /\ state' = [k \in Planes |-> IF k \in Held THEN "closed" ELSE state[k]]
      /\ UNCHANGED <<pc, arg>>
  BY DEF Close, callVars
<1>2. ASSUME NEW k \in Held, k \in Planes
      PROVE  Owners(k)' = {}
  <2>1. PICK e \in Endpoints : plane[e] = k
    BY <1>2 DEF Held
  <2>2. e \in Owners(k)
    BY <2>1 DEF Owners
  <2>3. Owners(k) = {e}
    BY <1>2, <2>2 DEF OneOwner, RightlyOwned
  <2>4. \A c \in Callers : c # e
    BY EndpointsApart
  <2>5. \A c \in Callers : c \notin Owners(k)
    BY <2>3, <2>4
  <2> QED
    BY <1>1, <1>2, <2>5 DEF Owners
<1>3. ASSUME NEW k \in Planes \ Held
      PROVE  Owners(k)' = Owners(k)
  BY <1>1, <1>3 DEF Owners, Held
<1> QED
  BY <1>1, <1>2, <1>3 DEF OneOwner, RightlyOwned

\* Every other step of a caller leaves the planes where they are.
LEMMA CallerOwners == ASSUME Basics, OneOwner, NEW c \in Callers,
                             Connect(c) \/ Disconnect(c) \/ Send(c)
                      PROVE  OneOwner'
<1> USE DEF Basics, TypeOK
<1> DEFINE away == {"idle", "resolve", "alsa", "gatt", "linking", "chars", "bus",
                    "notify", "acquire", "drop", "send", "writing", "panicked"}
<1>1. ASSUME NEW from \in away, NEW to \in away, pc[c] = from,
             pc' = [pc EXCEPT ![c] = to], \A d \in Callers \ {c} : arg'[d] = arg[d],
             UNCHANGED <<plane, state>>
      PROVE  OneOwner'
  <2>1. \A d \in Callers, k \in Planes : Keeps(d, k)' <=> Keeps(d, k)
    BY <1>1 DEF Keeps
  <2> QED
    BY <1>1, <2>1, SameOwners
<1>2. CASE OpenALSA(c)
  BY <1>2, OpenedOwner DEF OpenALSA, mapVars
<1>3. CASE AcquireWrite(c)
  BY <1>3, OpenedOwner DEF AcquireWrite, mapVars
<1>4. CASE SetPlane(c)
  BY <1>4, SetPlaneOwner
<1>5. CASE \E e \in Endpoints : TakeOut(c, e)
  BY <1>5, TakeOutOwner
<1>6. CASE ClosePlane(c)
  BY <1>6, ClosePlaneOwner
<1>7. CASE \E e \in Endpoints : ConnectBegin(c, e) \/ SendBegin(c, e)
  BY <1>1, <1>7 DEF ConnectBegin, SendBegin, Begins, Goes, mapVars, planeVars
<1>8. CASE Resolve(c) \/ ReadsNil(c) \/ NoALSA(c) \/ FindChar(c)
  BY <1>1, <1>8 DEF Resolve, ReadsNil, NoALSA, FindChar, Goes, mapVars, planeVars
<1>9. CASE GivesUp(c) \/ BusClosed(c) \/ AcquireFails(c)
  BY <1>1, <1>9 DEF GivesUp, BusClosed, AcquireFails, Returns, Goes, mapVars, planeVars
<1>10. CASE DropStaleLink(c) \/ Link(c) \/ TakeBus(c) \/ StartNotify(c)
  BY <1>1, <1>10 DEF DropStaleLink, Link, TakeBus, StartNotify, Goes, mapVars, planeVars
<1>11. CASE DropLink(c) \/ SendWrites(c) \/ SendEnds(c)
  BY <1>1, <1>11 DEF DropLink, SendWrites, SendEnds, Returns, Goes, mapVars, planeVars
<1> QED
  BY <1>2, <1>3, <1>4, <1>5, <1>6, <1>7, <1>8, <1>9, <1>10, <1>11
     DEF Connect, Disconnect, Send

\* The steps of a Listen are not about planes.
LEMMA ListenerApart == ASSUME NEW l \in Listeners, Listener(l)
                       PROVE  UNCHANGED <<busVars, mapVars, planeVars, radioVars, callVars>>
BY DEF Listener, Listen, Reader, ReaderStops, ReaderEnds, ReaderAt, Notified, Offer,
       OfferCancelled, Take, Cancel

-----------------------------------------------------------------------------
(* A write is not torn. *)

\* A step that starts no write, and touches no plane that is written to.
LEMMA SameWriters == ASSUME NoTornWrite,
                            \A d \in Callers : pc'[d] = "writing" =>
                               /\ pc[d] = "writing" /\ arg'[d] = arg[d]
                               /\ state'[arg[d]] = state[arg[d]]
                     PROVE  NoTornWrite'
BY DEF NoTornWrite

\* No step of a caller closes a plane while somebody writes to it, and g.wmu
\* lets one write at a time.
LEMMA CallerWrites == ASSUME Basics, NoTornWrite, NEW c \in Callers,
                             Connect(c) \/ Disconnect(c) \/ Send(c)
                      PROVE  NoTornWrite'
<1> USE DEF Basics, TypeOK
<1>1. ASSUME NEW to, to # "writing", pc' = [pc EXCEPT ![c] = to],
             \A d \in Callers \ {c} : arg'[d] = arg[d],
             \A d \in Callers \ {c} : pc[d] = "writing" => state'[arg[d]] = state[arg[d]]
      PROVE  NoTornWrite'
  BY <1>1, SameWriters
<1>2. ASSUME NEW what, NEW b, NEW from, Goes(c, from, "install"), Opens(c, what, b)
      PROVE  NoTornWrite'
  <2>1. PICK k \in Planes : k = One(state, "unused") /\ state[k] = "unused"
    <3>1. One(state, "unused") \in DOMAIN state /\ state[One(state, "unused")] = "unused"
      BY <1>2, OneIsSuch DEF Opens
    <3> QED
      BY <3>1
  <2>2. \A d \in Callers : pc[d] = "writing" => arg[d] # k
    BY <2>1 DEF NoTornWrite
  <2>3. \A d \in Callers : pc[d] = "writing" => state'[arg[d]] = state[arg[d]]
    BY <1>2, <2>1, <2>2 DEF Opens, CallerHolds
  <2>4. \A d \in Callers \ {c} : arg'[d] = arg[d]
    BY <1>2 DEF Opens
  <2> QED
    BY <1>1, <1>2, <2>3, <2>4 DEF Goes
<1>3. ASSUME NEW k, ~Locked(k), Closes(k), NEW d \in Callers, pc[d] = "writing"
       PROVE  state'[arg[d]] = state[arg[d]]
  BY <1>3 DEF Locked, Closes, CallerHolds
<1>4. CASE OpenALSA(c)
  BY <1>2, <1>4 DEF OpenALSA
<1>5. CASE AcquireWrite(c)
  BY <1>2, <1>5 DEF AcquireWrite
<1>6. CASE SetPlane(c)
  <2>1. CASE UNCHANGED planeVars
    BY <1>1, <1>6, <2>1 DEF SetPlane, Returns, Goes, planeVars
  <2>2. CASE ~Locked(plane[ep[c]]) /\ Closes(plane[ep[c]])
    BY <1>1, <1>3, <1>6, <2>2 DEF SetPlane, Returns, Goes
  <2> QED
    BY <1>6, <2>1, <2>2 DEF SetPlane
<1>7. CASE ClosePlane(c)
  BY <1>1, <1>3, <1>7 DEF ClosePlane, Goes
<1>8. CASE SendWrites(c)
  BY <1>8 DEF SendWrites, Goes, Locked, NoTornWrite, planeVars
<1>9. CASE \E e \in Endpoints : ConnectBegin(c, e) \/ SendBegin(c, e) \/ TakeOut(c, e)
  BY <1>1, <1>9 DEF ConnectBegin, SendBegin, TakeOut, Begins, Goes, planeVars
<1>10. CASE Resolve(c) \/ ReadsNil(c) \/ NoALSA(c) \/ FindChar(c)
  BY <1>1, <1>10 DEF Resolve, ReadsNil, NoALSA, FindChar, Goes, planeVars
<1>11. CASE GivesUp(c) \/ BusClosed(c) \/ AcquireFails(c)
  BY <1>1, <1>11 DEF GivesUp, BusClosed, AcquireFails, Returns, Goes, planeVars
<1>12. CASE DropStaleLink(c) \/ Link(c) \/ TakeBus(c) \/ StartNotify(c)
  BY <1>1, <1>12 DEF DropStaleLink, Link, TakeBus, StartNotify, Goes, planeVars
<1>13. CASE DropLink(c) \/ SendEnds(c)
  BY <1>1, <1>13 DEF DropLink, SendEnds, Returns, Goes, planeVars
<1> QED
  BY <1>4, <1>5, <1>6, <1>7, <1>8, <1>9, <1>10, <1>11, <1>12, <1>13
     DEF Connect, Disconnect, Send

\* Nor does Transport.Close.
LEMMA CloseWrites == ASSUME Basics, NoTornWrite, Close
                     PROVE  NoTornWrite'
<1>1. \A d \in Callers : pc[d] = "writing" => arg[d] \in Planes \ Held
  BY DEF Basics, CallerHolds, Close, Locked
<1> QED
  BY <1>1, SameWriters DEF Close, callVars

-----------------------------------------------------------------------------
(* Notifications are for somebody. *)

\* Plane k, or the Connect of caller c, is a subscriber of endpoint e on b.
PlaneServes(k, e, b) == /\ state[k] = "gatt" /\ busOf[k] = b
                        /\ plane[e] = k \/ \E c \in Callers : Keeps(c, k) /\ ep[c] = e
CallServes(c, e, b) == pc[c] = "acquire" /\ ep[c] = e /\ busArg[c] = b

Served(e, b) == \/ \E k \in Planes : PlaneServes(k, e, b)
                \/ \E c \in Callers : CallServes(c, e, b)

\* A plane or a Connect is a subscriber, or there is none.
LEMMA SubscribersServe == NotifiedForSomebody <=>
         \A e \in Endpoints : \A b \in notify[e] : Alive(b) /\ Served(e, b)
BY DEF NotifiedForSomebody, Subscribers, Served, PlaneServes, CallServes, Keeps

\* After a step the same holds when nothing was notified anew, and every
\* subscriber that counts is one still.
LEMMA SameServants == ASSUME NotifiedForSomebody,
                             \A b : Alive(b) => Alive(b)',
                             \A e \in Endpoints : \A b \in notify'[e] :
                               /\ b \in notify[e]
                               /\ \A k \in Planes : PlaneServes(k, e, b) => Served(e, b)'
                               /\ \A c \in Callers : CallServes(c, e, b) => Served(e, b)'
                      PROVE  NotifiedForSomebody'
<1>1. \A e \in Endpoints : \A b \in notify[e] : Alive(b) /\ Served(e, b)
  BY SubscribersServe
<1>2. \A e \in Endpoints : \A b \in notify'[e] : Alive(b)' /\ Served(e, b)'
  BY <1>1 DEF Served
<1>3. NotifiedForSomebody' <=>
         \A e \in Endpoints : \A b \in notify'[e] : Alive(b)' /\ Served(e, b)'
  BY DEF NotifiedForSomebody, Subscribers, Served, PlaneServes, CallServes, Keeps
<1> QED
  BY <1>2, <1>3

\* A step of a call that neither opens nor closes a plane, nor begins or ends
\* the wait between StartNotify and AcquireWrite.
LEMMA QuietCall == ASSUME Basics, NotifiedForSomebody, NEW c \in Callers, NEW to,
                          pc' = [pc EXCEPT ![c] = to],
                          pc[c] \notin {"acquire", "install", "close"},
                          to \notin {"acquire", "install", "close"},
                          \A d \in Callers \ {c} : /\ ep'[d] = ep[d] /\ arg'[d] = arg[d]
                                                  /\ busArg'[d] = busArg[d],
                          UNCHANGED <<state, busOf, plane, notify>>,
                          \A b : Alive(b) => Alive(b)'
                   PROVE  NotifiedForSomebody'
<1>1. \A d \in Callers, k \in Planes, e \in Endpoints :
        Keeps(d, k) /\ ep[d] = e => (Keeps(d, k) /\ ep[d] = e)'
  BY DEF Keeps, Basics, TypeOK
<1>2. \A k \in Planes, e \in Endpoints, b \in Buses :
        PlaneServes(k, e, b) => PlaneServes(k, e, b)'
  BY <1>1 DEF PlaneServes
<1>3. \A d \in Callers, e \in Endpoints, b \in Buses :
        CallServes(d, e, b) => CallServes(d, e, b)'
  BY DEF CallServes, Basics, TypeOK
<1>4. \A e \in Endpoints : notify[e] \subseteq Buses
  BY DEF Basics, TypeOK
<1>5. \A e \in Endpoints : \A b \in notify'[e] :
        /\ \A k \in Planes : PlaneServes(k, e, b) => Served(e, b)'
        /\ \A d \in Callers : CallServes(d, e, b) => Served(e, b)'
  BY <1>2, <1>3, <1>4 DEF Served
<1> QED
  BY <1>5, SameServants

\* A step that opens a plane: nobody had it before.
LEMMA OpenKeepsServants == ASSUME Basics, NotifiedForSomebody, NEW c \in Callers,
                                  OpenALSA(c) \/ AcquireWrite(c)
                           PROVE  NotifiedForSomebody'
<1> USE DEF Basics, TypeOK
<1>1. PICK new \in Planes : new = One(state, "unused") /\ state[new] = "unused"
  <2>1. One(state, "unused") \in DOMAIN state /\ state[One(state, "unused")] = "unused"
    BY OneIsSuch DEF OpenALSA, AcquireWrite, Opens
  <2> QED
    BY <2>1
<1>2. /\ pc' = [pc EXCEPT ![c] = "install"] /\ arg' = [arg EXCEPT ![c] = new]
      /\ pc[c] \in {"alsa", "acquire"}
      /\ UNCHANGED <<busVars, plane, notify, ep>>
      /\ \A k \in Planes \ {new} : state'[k] = state[k] /\ busOf'[k] = busOf[k]
      /\ \A d \in Callers \ {c} : busArg'[d] = busArg[d]
  BY <1>1 DEF OpenALSA, AcquireWrite, Goes, Opens, mapVars, radioVars
<1>3. \A e \in Endpoints, b \in Buses, k \in Planes : PlaneServes(k, e, b) => PlaneServes(k, e, b)'
  <2>1. \A d \in Callers, k \in Planes, e \in Endpoints :
          Keeps(d, k) /\ ep[d] = e => (Keeps(d, k) /\ ep[d] = e)'
    BY <1>2 DEF Keeps
  <2> QED
    BY <1>1, <1>2, <2>1 DEF PlaneServes
<1>4. \A e \in Endpoints, b \in Buses, d \in Callers \ {c} :
        CallServes(d, e, b) => CallServes(d, e, b)'
  BY <1>2 DEF CallServes
<1>5. ASSUME NEW e \in Endpoints, NEW b \in Buses, CallServes(c, e, b)
      PROVE  PlaneServes(new, e, b)'
  <2>1. AcquireWrite(c)
    BY <1>5 DEF CallServes, OpenALSA, Goes
  <2>2. state'[new] = "gatt" /\ busOf'[new] = b /\ ep'[c] = e
    BY <1>1, <1>2, <1>5, <2>1 DEF AcquireWrite, Opens, CallServes
  <2>3. Keeps(c, new)'
    BY <1>2 DEF Keeps
  <2> QED
    BY <2>2, <2>3 DEF PlaneServes
<1>6. \A b : Alive(b) => Alive(b)'
  BY <1>2 DEF Alive, busVars
<1>7. \A e \in Endpoints : notify[e] \subseteq Buses
  OBVIOUS
<1>8. \A e \in Endpoints : \A b \in notify'[e] :
        /\ b \in notify[e]
        /\ \A k \in Planes : PlaneServes(k, e, b) => Served(e, b)'
        /\ \A d \in Callers : CallServes(d, e, b) => Served(e, b)'
  BY <1>1, <1>2, <1>3, <1>4, <1>5, <1>7 DEF Served
<1> QED
  BY <1>6, <1>8, SameServants

\* StartNotify makes its Connect a subscriber.
LEMMA StartServes == ASSUME Basics, NotifiedForSomebody, NEW c \in Callers, StartNotify(c)
                     PROVE  NotifiedForSomebody'
<1> USE DEF Basics, TypeOK
<1>1. PICK e0 \in Endpoints, b0 \in Buses : e0 = ep[c] /\ b0 = busArg[c]
  BY DEF StartNotify, Goes, CallerHolds
<1>2. /\ pc' = [pc EXCEPT ![c] = "acquire"] /\ pc[c] = "notify" /\ Alive(b0)
      /\ notify' = [notify EXCEPT ![e0] = @ \union {b0}]
      /\ UNCHANGED <<busVars, plane, state, busOf, ep, arg, busArg>>
  BY <1>1 DEF StartNotify, Goes, mapVars, planeVars
<1>3. \A e \in Endpoints, b \in Buses, k \in Planes : PlaneServes(k, e, b) => PlaneServes(k, e, b)'
  <2>1. \A d \in Callers, k \in Planes : Keeps(d, k) => Keeps(d, k)'
    BY <1>2 DEF Keeps
  <2> QED
    BY <1>2, <2>1 DEF PlaneServes
<1>4. \A e \in Endpoints, b \in Buses, d \in Callers : CallServes(d, e, b) => CallServes(d, e, b)'
  BY <1>2 DEF CallServes
<1>5. CallServes(c, e0, b0)'
  BY <1>1, <1>2 DEF CallServes
<1>6. \A b : Alive(b) => Alive(b)'
  BY <1>2 DEF Alive, busVars
<1>7. ASSUME NEW e \in Endpoints, NEW b \in notify'[e]
      PROVE  Alive(b)' /\ Served(e, b)'
  <2>1. b \in Buses
    BY <1>2, <1>7
  <2>2. CASE e = e0 /\ b = b0
    BY <1>2, <1>5, <1>6, <2>2 DEF Served
  <2>3. CASE b \in notify[e]
    <3>1. Alive(b) /\ Served(e, b)
      BY <2>3, SubscribersServe
    <3> QED
      BY <1>3, <1>4, <1>6, <2>1, <3>1 DEF Served
  <2> QED
    BY <1>2, <1>7, <2>2, <2>3
<1> QED
  BY <1>7 DEF NotifiedForSomebody, Subscribers, Served, PlaneServes, CallServes, Keeps

\* A Connect that could not acquire the write fd has stopped the notifications
\* that were its own.
LEMMA FailServes == ASSUME Basics, NotifiedForSomebody, NEW c \in Callers, AcquireFails(c)
                    PROVE  NotifiedForSomebody'
<1> USE DEF Basics, TypeOK
<1>1. PICK e0 \in Endpoints, b0 \in Buses : e0 = ep[c] /\ b0 = busArg[c]
  BY DEF AcquireFails, Returns, Goes, CallerHolds
<1>2. /\ pc' = [pc EXCEPT ![c] = "idle"] /\ pc[c] = "acquire"
      /\ notify' = [notify EXCEPT ![e0] = IF Alive(b0) THEN @ \ {b0} ELSE @]
      /\ UNCHANGED <<busVars, plane, state, busOf>>
      /\ \A d \in Callers \ {c} : ep'[d] = ep[d] /\ arg'[d] = arg[d] /\ busArg'[d] = busArg[d]
  BY <1>1 DEF AcquireFails, Returns, Goes, mapVars, planeVars
<1>3. \A e \in Endpoints, b \in Buses, k \in Planes : PlaneServes(k, e, b) => PlaneServes(k, e, b)'
  <2>1. \A d \in Callers, k \in Planes, e \in Endpoints :
          Keeps(d, k) /\ ep[d] = e => (Keeps(d, k) /\ ep[d] = e)'
    BY <1>2 DEF Keeps
  <2> QED
    BY <1>2, <2>1 DEF PlaneServes
<1>4. \A e \in Endpoints, b \in Buses, d \in Callers \ {c} :
        CallServes(d, e, b) => CallServes(d, e, b)'
  BY <1>2 DEF CallServes
<1>5. ASSUME NEW e \in Endpoints, NEW b \in notify'[e]
      PROVE  b \in notify[e] /\ b \in Buses /\ ~CallServes(c, e, b)
  <2>1. b \in notify[e] /\ b \in Buses
    BY <1>2, <1>5
  <2>2. Alive(b)
    BY <2>1 DEF NotifiedForSomebody
  <2> QED
    BY <1>1, <1>2, <1>5, <2>1, <2>2 DEF CallServes
<1>6. \A b : Alive(b) => Alive(b)'
  BY <1>2 DEF Alive, busVars
<1>7. \A e \in Endpoints : \A b \in notify'[e] :
        /\ b \in notify[e]
        /\ \A k \in Planes : PlaneServes(k, e, b) => Served(e, b)'
        /\ \A d \in Callers : CallServes(d, e, b) => Served(e, b)'
  BY <1>3, <1>4, <1>5 DEF Served
<1> QED
  BY <1>6, <1>7, SameServants

\* Notifications of the endpoint that alone had plane k are stopped with it.
LEMMA ClosedServes == ASSUME Basics, NotifiedForSomebody, NEW k \in Planes, NEW e0 \in Endpoints,
                             \A e \in Endpoints, b \in Buses : PlaneServes(k, e, b) => e = e0,
                             notify' = StopsNotify(k, e0),
                             NEW e \in Endpoints, NEW b \in notify'[e]
                      PROVE  b \in notify[e] /\ b \in Buses /\ ~PlaneServes(k, e, b)
<1>1. b \in notify[e] /\ b \in Buses
  BY DEF StopsNotify, Basics, TypeOK
<1>2. Alive(b)
  BY <1>1 DEF NotifiedForSomebody
<1> QED
  BY <1>1, <1>2 DEF StopsNotify, PlaneServes, Basics, TypeOK

\* An open plane that the device map has for e serves no other endpoint.
LEMMA MapServes == ASSUME OneOwner, NEW e0 \in Endpoints, plane[e0] \in Planes
                   PROVE  \A e \in Endpoints, b \in Buses :
                            PlaneServes(plane[e0], e, b) => e = e0
<1>1. Owners(plane[e0]) = {e0}
  <2>1. e0 \in Owners(plane[e0])
    BY DEF Owners
  <2> QED
    BY <2>1 DEF OneOwner, RightlyOwned
<1>2. \A c \in Callers : ~Keeps(c, plane[e0])
  <2>1. \A c \in Callers : c \notin Owners(plane[e0])
    BY <1>1, EndpointsApart
  <2> QED
    BY <2>1 DEF Owners, Keeps
<1>3. \A e \in Endpoints : plane[e] = plane[e0] => e = e0
  BY <1>1 DEF Owners
<1> QED
  BY <1>2, <1>3 DEF PlaneServes

\* setPlane: the plane of its Connect goes on serving, from the device map; the
\* one it replaces, if any, served this endpoint only.
LEMMA SetPlaneServes == ASSUME Basics, OneOwner, NotifiedForSomebody, NEW c \in Callers, SetPlane(c)
                        PROVE  NotifiedForSomebody'
<1>1. PICK e0 \in Endpoints, new \in Planes : e0 = ep[c] /\ new = arg[c]
  BY DEF SetPlane, Returns, Goes, CallerHolds, Basics, TypeOK
<1>2. /\ pc' = [pc EXCEPT ![c] = "idle"] /\ pc[c] = "install"
      /\ plane' = [plane EXCEPT ![e0] = new]
      /\ UNCHANGED busVars
      /\ \A d \in Callers \ {c} : ep'[d] = ep[d] /\ arg'[d] = arg[d] /\ busArg'[d] = busArg[d]
  BY <1>1 DEF SetPlane, Returns, Goes, Holds, Basics, TypeOK
<1>3. \/ plane[e0] = NoPlane /\ UNCHANGED <<state, busOf, notify>>
      \/ /\ plane[e0] \in Planes
         /\ \A k \in Planes \ {plane[e0]} : state'[k] = state[k] /\ busOf'[k] = busOf[k]
         /\ notify' = StopsNotify(plane[e0], e0)
  BY <1>1 DEF SetPlane, Closes, planeVars, Basics, TypeOK
<1>4. ASSUME NEW k \in Planes \ {plane[e0]}, NEW e \in Endpoints, NEW b \in Buses,
             PlaneServes(k, e, b)
      PROVE  PlaneServes(k, e, b)'
  <2>1. state'[k] = "gatt" /\ busOf'[k] = b
    BY <1>3, <1>4 DEF PlaneServes
  <2>2. CASE plane[e] = k
    BY <1>2, <2>1, <2>2 DEF PlaneServes, Basics, TypeOK
  <2>3. ASSUME NEW d \in Callers, Keeps(d, k), ep[d] = e
        PROVE  PlaneServes(k, e, b)'
    <3>1. CASE d = c
      BY <1>1, <1>2, <2>1, <2>3, <3>1 DEF PlaneServes, Keeps, Basics, TypeOK
    <3>2. CASE d # c
      BY <1>2, <2>1, <2>3, <3>2 DEF PlaneServes, Keeps, Basics, TypeOK
    <3> QED
      BY <3>1, <3>2
  <2> QED
    BY <1>4, <2>2, <2>3 DEF PlaneServes
<1>5. \A e \in Endpoints, b \in Buses, d \in Callers : CallServes(d, e, b) => CallServes(d, e, b)'
  BY <1>2 DEF CallServes, Basics, TypeOK
<1>6. ASSUME NEW e \in Endpoints, NEW b \in notify'[e]
      PROVE  /\ b \in notify[e] /\ b \in Buses
             /\ plane[e0] \in Planes => ~PlaneServes(plane[e0], e, b)
  <2>1. CASE plane[e0] = NoPlane /\ UNCHANGED notify
    BY <1>6, <2>1, BleAssumption DEF Basics, TypeOK
  <2>2. CASE plane[e0] \in Planes /\ notify' = StopsNotify(plane[e0], e0)
    BY <1>6, <2>2, MapServes, ClosedServes
  <2> QED
    BY <1>3, <2>1, <2>2
<1>7. \A b : Alive(b) => Alive(b)'
  BY <1>2 DEF Alive, busVars
<1>8. \A e \in Endpoints : \A b \in notify'[e] :
        /\ b \in notify[e]
        /\ \A k \in Planes : PlaneServes(k, e, b) => Served(e, b)'
        /\ \A d \in Callers : CallServes(d, e, b) => Served(e, b)'
  BY <1>4, <1>5, <1>6 DEF Served
<1> QED
  BY <1>7, <1>8, SameServants

\* Disconnect takes the plane over together with its endpoint.
LEMMA TakeOutServes == ASSUME Basics, NotifiedForSomebody, NEW c \in Callers,
                              NEW e0 \in Endpoints, TakeOut(c, e0)
                       PROVE  NotifiedForSomebody'
<1> USE DEF Basics, TypeOK
<1>1. /\ pc' = [pc EXCEPT ![c] = "close"] /\ pc[c] = "idle"
      /\ plane' = [plane EXCEPT ![e0] = NoPlane]
      /\ arg' = [arg EXCEPT ![c] = plane[e0]] /\ ep' = [ep EXCEPT ![c] = e0]
      /\ UNCHANGED <<busVars, state, busOf, notify>>
      /\ \A d \in Callers \ {c} : busArg'[d] = busArg[d]
  BY DEF TakeOut, Begins, Goes, planeVars, radioVars
<1>2. ASSUME NEW k \in Planes, NEW e \in Endpoints, NEW b \in Buses, PlaneServes(k, e, b)
      PROVE  PlaneServes(k, e, b)'
  <2>1. CASE plane[e] = k /\ e # e0
    BY <1>1, <1>2, <2>1 DEF PlaneServes
  <2>2. CASE plane[e] = k /\ e = e0
    BY <1>1, <1>2, <2>2 DEF PlaneServes, Keeps
  <2>3. ASSUME NEW d \in Callers, Keeps(d, k), ep[d] = e
        PROVE  PlaneServes(k, e, b)'
    BY <1>1, <1>2, <2>3 DEF PlaneServes, Keeps
  <2> QED
    BY <1>2, <2>1, <2>2, <2>3 DEF PlaneServes
<1>3. \A e \in Endpoints, b \in Buses, d \in Callers : CallServes(d, e, b) => CallServes(d, e, b)'
  BY <1>1 DEF CallServes
<1>4. \A b : Alive(b) => Alive(b)'
  BY <1>1 DEF Alive, busVars
<1>5. \A e \in Endpoints : notify[e] \subseteq Buses
  OBVIOUS
<1>6. \A e \in Endpoints : \A b \in notify'[e] :
        /\ b \in notify[e]
        /\ \A k \in Planes : PlaneServes(k, e, b) => Served(e, b)'
        /\ \A d \in Callers : CallServes(d, e, b) => Served(e, b)'
  BY <1>1, <1>2, <1>3, <1>5 DEF Served
<1> QED
  BY <1>4, <1>6, SameServants

\* Disconnect closes the plane, which nobody else has.
LEMMA ClosePlaneServes == ASSUME Basics, OneOwner, NotifiedForSomebody, NEW c \in Callers,
                                 ClosePlane(c)
                          PROVE  NotifiedForSomebody'
<1>1. PICK e0 \in Endpoints, k0 \in Planes : e0 = ep[c] /\ k0 = arg[c]
  BY DEF ClosePlane, Goes, CallerHolds, Basics, TypeOK
<1>2. /\ pc' = [pc EXCEPT ![c] = "drop"] /\ pc[c] = "close"
      /\ notify' = StopsNotify(k0, e0)
      /\ UNCHANGED <<busVars, plane, ep, arg, busArg>>
      /\ \A k \in Planes \ {k0} : state'[k] = state[k] /\ busOf'[k] = busOf[k]
  BY <1>1 DEF ClosePlane, Goes, Closes, mapVars, Basics, TypeOK
<1>3. Owners(k0) = {c}
  <2>1. c \in Owners(k0)
    BY <1>1, <1>2 DEF Owners
  <2> QED
    BY <2>1 DEF OneOwner, RightlyOwned
<1>4. \A e \in Endpoints, b \in Buses : PlaneServes(k0, e, b) => e = e0
  <2>1. \A e \in Endpoints : plane[e] # k0
    BY <1>3, EndpointsApart DEF Owners
  <2>2. \A d \in Callers : Keeps(d, k0) => d = c
    BY <1>3 DEF Owners, Keeps
  <2> QED
    BY <1>1, <2>1, <2>2 DEF PlaneServes
<1>5. ASSUME NEW k \in Planes \ {k0}, NEW e \in Endpoints, NEW b \in Buses, PlaneServes(k, e, b)
      PROVE  PlaneServes(k, e, b)'
  <2>1. \A d \in Callers : Keeps(d, k) => Keeps(d, k)'
    BY <1>1, <1>2 DEF Keeps, Basics, TypeOK
  <2> QED
    BY <1>2, <1>5, <2>1 DEF PlaneServes
<1>6. \A e \in Endpoints, b \in Buses, d \in Callers : CallServes(d, e, b) => CallServes(d, e, b)'
  BY <1>2 DEF CallServes, Basics, TypeOK
<1>7. ASSUME NEW e \in Endpoints, NEW b \in notify'[e]
      PROVE  b \in notify[e] /\ b \in Buses /\ ~PlaneServes(k0, e, b)
  BY <1>2, <1>4, <1>7, ClosedServes
<1>8. \A b : Alive(b) => Alive(b)'
  BY <1>2 DEF Alive, busVars
<1>9. \A e \in Endpoints : \A b \in notify'[e] :
        /\ b \in notify[e]
        /\ \A k \in Planes : PlaneServes(k, e, b) => Served(e, b)'
        /\ \A d \in Callers : CallServes(d, e, b) => Served(e, b)'
  BY <1>5, <1>6, <1>7 DEF Served
<1> QED
  BY <1>8, <1>9, SameServants

\* Transport.Close: the bus forgets its only client, and there is no other bus.
LEMMA CloseServes == ASSUME Basics, NotifiedForSomebody, Close
                     PROVE  NotifiedForSomebody'
<1>1. \A e \in Endpoints : \A b \in notify[e] : b = bus
  BY DEF NotifiedForSomebody, Alive, Basics, OnlyBusAlive
<1>2. \A e \in Endpoints : notify'[e] = {}
  BY <1>1 DEF Close
<1> QED
  BY <1>2 DEF NotifiedForSomebody

\* No step of a caller leaves notifications behind.
LEMMA CallerServes == ASSUME Basics, OneOwner, NotifiedForSomebody, NEW c \in Callers,
                             Connect(c) \/ Disconnect(c) \/ Send(c)
                      PROVE  NotifiedForSomebody'
<1> DEFINE active == {"acquire", "install", "close"}
<1>1. ASSUME NEW from, NEW to, from \notin active, to \notin active, Goes(c, from, to),
             \A d \in Callers \ {c} : /\ ep'[d] = ep[d] /\ arg'[d] = arg[d]
                                     /\ busArg'[d] = busArg[d],
             UNCHANGED <<busState, state, busOf, plane, notify>>
      PROVE  NotifiedForSomebody'
  BY <1>1, QuietCall DEF Goes, Alive
<1>2. ASSUME NEW e \in Endpoints, ConnectBegin(c, e)
      PROVE  NotifiedForSomebody'
  <2>1. \A b : Alive(b) => Alive(b)'
    <3>1. CASE UNCHANGED busVars
      BY <3>1 DEF Alive, busVars
    <3>2. CASE Some(busState, "unused") /\ bus' = One(busState, "unused")
               /\ busState' = [busState EXCEPT ![bus'] = "open"]
      BY <3>2 DEF Alive, Basics, TypeOK
    <3> QED
      BY <1>2, <3>1, <3>2 DEF ConnectBegin, EnsureBus
  <2> QED
    BY <1>2, <2>1, QuietCall DEF ConnectBegin, Begins, Goes, mapVars, planeVars, radioVars,
       Basics, TypeOK
<1>3. CASE \E e \in Endpoints : SendBegin(c, e)
  BY <1>1, <1>3 DEF SendBegin, Begins, busVars, mapVars, planeVars, radioVars, Basics, TypeOK
<1>4. CASE Resolve(c) \/ ReadsNil(c) \/ NoALSA(c) \/ FindChar(c)
  BY <1>1, <1>4 DEF Resolve, ReadsNil, NoALSA, FindChar, busVars, mapVars, planeVars, radioVars
<1>5. CASE GivesUp(c) \/ BusClosed(c)
  BY <1>1, <1>5 DEF GivesUp, BusClosed, Returns, busVars, mapVars, planeVars, radioVars,
     Basics, TypeOK
<1>6. CASE DropStaleLink(c) \/ Link(c) \/ TakeBus(c)
  BY <1>1, <1>6 DEF DropStaleLink, Link, TakeBus, busVars, mapVars, planeVars, radioVars,
     Basics, TypeOK
<1>7. CASE DropLink(c) \/ SendWrites(c) \/ SendEnds(c)
  BY <1>1, <1>7 DEF DropLink, SendWrites, SendEnds, Returns, busVars, mapVars, planeVars,
     radioVars, Basics, TypeOK
<1> QED
  BY <1>2, <1>3, <1>4, <1>5, <1>6, <1>7, StartServes, FailServes, OpenKeepsServants,
     SetPlaneServes, TakeOutServes, ClosePlaneServes DEF Connect, Disconnect, Send

-----------------------------------------------------------------------------
(* The theorems. *)

\* A caller keeps the whole invariant.
LEMMA CallerStep == ASSUME IInv, NEW c \in Callers, Connect(c) \/ Disconnect(c) \/ Send(c)
                    PROVE  IInv'
<1>1. Basics'
  BY ConnectBasics, CallBasics DEF IInv
<1> QED
  BY <1>1, CallerOwners, CallerWrites, CallerServes DEF IInv

\* What the properties of planes and notifications speak of does not change in
\* a step of a Listen.
LEMMA ApartStep == ASSUME IInv, Basics',
                          UNCHANGED <<busVars, mapVars, planeVars, radioVars, callVars>>
                   PROVE  IInv'
<1> USE DEF busVars, mapVars, planeVars, radioVars, callVars
<1>1. OneOwner'
  BY DEF IInv, OneOwner, RightlyOwned, Owners
<1>2. NoTornWrite'
  BY DEF IInv, NoTornWrite
<1>3. NotifiedForSomebody'
  BY DEF IInv, NotifiedForSomebody, Subscribers, Alive
<1> QED
  BY <1>1, <1>2, <1>3 DEF IInv

\* It holds at the start.
LEMMA InvInit == ASSUME Init
                 PROVE  IInv
<1>1. Basics
  BY InitBasics
<1>2. OneOwner
  BY BleAssumption DEF Init, OneOwner, RightlyOwned, Owners
<1>3. NoTornWrite
  BY DEF Init, NoTornWrite
<1>4. NotifiedForSomebody
  BY DEF Init, NotifiedForSomebody
<1> QED
  BY <1>1, <1>2, <1>3, <1>4 DEF IInv

\* Every step keeps it.
LEMMA StepKeeps == ASSUME IInv, [Next]_vars
                   PROVE  IInv'
<1>1. CASE \E c \in Callers : Connect(c) \/ Disconnect(c) \/ Send(c)
  BY <1>1, CallerStep
<1>2. CASE \E l \in Listeners : Listener(l)
  BY <1>2, ListenerApart, ListenerBasics, ApartStep DEF IInv
<1>3. CASE Close
  BY <1>3, CloseBasics, CloseOwner, CloseWrites, CloseServes DEF IInv
<1>4. CASE UNCHANGED vars
  BY <1>4, StepBasics, ApartStep DEF IInv, vars
<1> QED
  BY <1>1, <1>2, <1>3, <1>4 DEF Next

\* The inductive invariant.
LEMMA Invariance == Spec => []IInv
<1>1. Init => IInv
  BY InvInit
<1>2. IInv /\ [Next]_vars => IInv'
  BY StepKeeps
<1> QED
  BY <1>1, <1>2, PTL DEF Spec

\* The variables keep their types: no channel of Listen overflows.
THEOREM TypeCorrect == Spec => []TypeOK
<1>1. IInv => TypeOK
  BY DEF IInv, Basics
<1> QED
  BY <1>1, Invariance, PTL

\* However Connect, Disconnect, Send and Close overlap, every open data plane
\* has exactly one owner and a closed one has none.
THEOREM PlanesHaveOneOwner == Spec => []OneOwner
<1>1. IInv => OneOwner
  BY DEF IInv
<1> QED
  BY <1>1, Invariance, PTL

\* The write fd is never closed under a write.
THEOREM WritesAreWhole == Spec => []NoTornWrite
<1>1. IInv => NoTornWrite
  BY DEF IInv
<1> QED
  BY <1>1, Invariance, PTL

\* Notifications that were started are stopped, on the error paths too.
THEOREM NotificationsStop == Spec => []NotifiedForSomebody
<1>1. IInv => NotifiedForSomebody
  BY DEF IInv
<1> QED
  BY <1>1, Invariance, PTL

-----------------------------------------------------------------------------
(* Listen implements the safety part of Listening.                         *)

\* A step that neither makes nor closes a channel and takes nothing in or out.
LEMMA ChannelStutter ==
  ASSUME UNCHANGED <<out, ctxDone>>,
         \A l \in Listeners :
           \/ reader'[l] = reader[l]
           \/ reader[l] \notin {"none", "closed"} /\ reader'[l] \notin {"none", "closed"}
  PROVE  UNCHANGED Channel!vars
BY DEF Channel!vars

\* A step of a Listen is a step of its channel, or none.
LEMMA ListenerRefines == ASSUME IInv, NEW l \in Listeners, Listener(l)
                         PROVE  [Channel!Next]_(Channel!vars)
<1> USE DEF IInv, Basics, TypeOK
<1>1. ASSUME NEW e \in Endpoints, Listen(l, e)
      PROVE  Channel!Next
  <2>1. Channel!Listen(l)
    BY <1>1 DEF Listen, Channel!Listen
  <2> QED
    BY <2>1 DEF Channel!Next
<1>2. ASSUME NEW from \in {"waiting", "offering"}, ReaderEnds(l, from)
      PROVE  Channel!Next
  <2>1. Channel!Close(l)
    BY <1>2 DEF ReaderEnds, ReaderAt, Channel!Close
  <2> QED
    BY <2>1 DEF Channel!Next
<1>3. CASE Notified(l)
  BY <1>3, ChannelStutter DEF Notified, ReaderAt
<1>4. CASE Offer(l)
  <2>1. Channel!Emit(l)
    BY <1>4 DEF Offer, ReaderAt, Channel!Emit
  <2> QED
    BY <2>1 DEF Channel!Next
<1>5. CASE Take(l)
  <2>1. Channel!Take(l)
    BY <1>5 DEF Take, Channel!Take
  <2> QED
    BY <2>1 DEF Channel!Next
<1>6. CASE Cancel(l)
  <2>1. Channel!Cancel(l)
    BY <1>6 DEF Cancel, Channel!Cancel
  <2> QED
    BY <2>1 DEF Channel!Next
<1> QED
  BY <1>1, <1>2, <1>3, <1>4, <1>5, <1>6 DEF Listener, Reader, ReaderStops, OfferCancelled

\* No other step touches a channel.
LEMMA CallsApart == ASSUME NEW c \in Callers, Connect(c) \/ Disconnect(c) \/ Send(c)
                    PROVE  UNCHANGED listenVars
<1>1. CASE Connect(c)
  BY <1>1 DEF Connect, ConnectBegin, Resolve, ReadsNil, GivesUp, OpenALSA, NoALSA,
     DropStaleLink, Link, FindChar, TakeBus, BusClosed, StartNotify, AcquireWrite,
     AcquireFails, SetPlane, Begins, Returns, Goes
<1>2. CASE Disconnect(c) \/ Send(c)
  BY <1>2 DEF Disconnect, Send, TakeOut, ClosePlane, DropLink, SendBegin, SendWrites,
     SendEnds, Begins, Returns, Goes
<1> QED
  BY <1>1, <1>2

\* gatt.go Listen: the channel takes no event after its close, is closed at most
\* once and never holds more than its buffer.
THEOREM ListenRefinement == Spec => ListenIsSafe
<1>1. Init => Channel!Init
  BY DEF Init, Channel!Init
<1>2. IInv /\ [Next]_vars => [Channel!Next]_(Channel!vars)
  <2>1. UNCHANGED listenVars => UNCHANGED Channel!vars
    BY ChannelStutter DEF listenVars
  <2>2. Close => UNCHANGED listenVars
    BY DEF Close
  <2>3. UNCHANGED vars => UNCHANGED listenVars
    BY DEF vars
  <2> QED
    BY <2>1, <2>2, <2>3, CallsApart, ListenerRefines DEF Next
<1> QED
  BY <1>1, <1>2, Invariance, PTL DEF Spec, ListenIsSafe, Channel!SafeSpec

-----------------------------------------------------------------------------
(* Scans, next to everything else.                                         *)

\* ScansForSomebody without the connection that a StopDiscovery still to be
\* deferred will go to: the only one that is open.
StopIsAhead ==
  \A b \in discovering :
    /\ Alive(b)
    /\ \E s \in Scanners : \/ scan[s] = "deferring"
                           \/ scan[s] = "scanning" /\ stopOn[s] = b

ScanInv == IInv /\ ScanTypeOK /\ StopIsAhead

\* A call of Discover or Pair may make the bus connection and leaves all else
\* that the other calls know of as it is.
LEMMA ScannerKeeps == ASSUME IInv, NEW s \in Scanners, Scanner(s)
                      PROVE  /\ IInv'
                             /\ \A b : Alive(b) => Alive(b)'
<1> USE DEF busVars, mapVars, planeVars, radioVars, callVars, listenVars
<1>1. UNCHANGED <<mapVars, planeVars, radioVars, callVars, listenVars>>
  BY DEF Scanner
<1>2. UNCHANGED busVars \/ EnsureBus
  BY DEF Scanner, DiscoverBegin, PairBegin, Found, NotFound, StartDiscovery,
     StartFails, DefersStop, ScanEnds, Bond, ScanReadsNil
<1>3. CASE UNCHANGED busVars
  <2>1. UNCHANGED vars
    BY <1>1, <1>3 DEF vars
  <2> QED
    BY <2>1, <1>3, StepKeeps DEF Alive
<1>4. CASE bus = NoBus /\ Some(busState, "unused") /\ bus' = One(busState, "unused")
           /\ busState' = [busState EXCEPT ![bus'] = "open"]
  <2>1. busState \in [Buses -> {"unused", "open", "closed"}]
    BY DEF IInv, Basics, TypeOK
  <2>2. bus' \in Buses /\ busState[bus'] = "unused"
    BY <1>4, <2>1, OneIsSuch
  <2>3. \A b : Alive(b) => Alive(b)'
    BY <1>4, <2>1, <2>2 DEF Alive
  <2>4. OnlyBusAlive'
    BY <1>4, <2>1, <2>2, BleAssumption DEF IInv, Basics, OnlyBusAlive
  <2>5. TypeOK'
    BY <1>1, <1>4, <2>1, <2>2 DEF IInv, Basics, TypeOK
  <2>6. CallerHolds' /\ OffersWhatItHas'
    BY <1>1 DEF IInv, Basics, CallerHolds, OffersWhatItHas
  <2>7. OneOwner' /\ NoTornWrite'
    BY <1>1 DEF IInv, OneOwner, RightlyOwned, Owners, NoTornWrite
  <2>8. NotifiedForSomebody'
    BY <1>1, <2>3 DEF IInv, NotifiedForSomebody, Subscribers
  <2> QED
    BY <2>3, <2>4, <2>5, <2>6, <2>7, <2>8 DEF IInv, Basics
<1> QED
  BY <1>2, <1>3, <1>4 DEF EnsureBus

\* A call that neither begins nor ends a scan.
LEMMA ScanGoesOn ==
  ASSUME ScanTypeOK, StopIsAhead, NEW s \in Scanners,
         scan[s] \notin {"deferring", "scanning"},
         \A r \in Scanners \ {s} : scan'[r] = scan[r],
         UNCHANGED <<stopOn, discovering>>,
         \A b : Alive(b) => Alive(b)'
  PROVE  StopIsAhead'
BY DEF StopIsAhead

\* Types of what belongs to a scan.
LEMMA ScannerTypes == ASSUME IInv, ScanTypeOK, NEW s \in Scanners, Scanner(s)
                      PROVE  ScanTypeOK'
<1> USE DEF ScanTypeOK, ScanGoes, ScanReturns, AfterScan
<1>1. bus \in Buses \union {NoBus}
  BY DEF IInv, Basics, TypeOK
<1>2. CASE DiscoverBegin(s) \/ PairBegin(s)
  BY <1>2 DEF DiscoverBegin, PairBegin
<1>3. CASE Found(s) \/ NotFound(s) \/ Bond(s) \/ ScanReadsNil(s)
  BY <1>3 DEF Found, NotFound, Bond, ScanReadsNil
<1>4. CASE StartDiscovery(s) \/ StartFails(s)
  BY <1>1, <1>4 DEF StartDiscovery, StartFails
<1>5. CASE DefersStop(s) \/ ScanEnds(s)
  BY <1>1, <1>5 DEF DefersStop, ScanEnds
<1> QED
  BY <1>2, <1>3, <1>4, <1>5 DEF Scanner

\* Whoever begins a session is in the scan, and ends it with the scan.
LEMMA ScannerStops == ASSUME ScanInv, NEW s \in Scanners, Scanner(s)
                      PROVE  StopIsAhead'
<1> USE DEF ScanInv, ScanTypeOK
<1>1. \A b : Alive(b) => Alive(b)'
  BY ScannerKeeps
<1>2. \A b : Alive(b) => b = bus
  BY DEF IInv, Basics, OnlyBusAlive, Alive
<1>3. CASE \/ DiscoverBegin(s) \/ PairBegin(s) \/ Found(s) \/ NotFound(s)
           \/ StartFails(s) \/ Bond(s)
  BY <1>1, <1>3, ScanGoesOn DEF DiscoverBegin, PairBegin, Found, NotFound, StartFails,
     Bond, AfterScan, ScanReturns, ScanGoes
<1>4. CASE ScanReadsNil(s)
  <2>1. discovering = {}
    BY <1>2, <1>4, BleAssumption DEF StopIsAhead, ScanReadsNil, Alive
  <2> QED
    BY <1>4, <2>1 DEF StopIsAhead, ScanReadsNil
<1>5. CASE StartDiscovery(s)
  <2>1. Alive(bus)
    BY <1>5 DEF StartDiscovery, IInv, Basics, TypeOK, OnlyBusAlive, Alive
  <2>2. scan'[s] = "deferring" /\ \A r \in Scanners \ {s} : scan'[r] = scan[r]
    BY <1>5 DEF StartDiscovery, ScanGoes
  <2> QED
    BY <1>1, <1>5, <2>1, <2>2 DEF StopIsAhead, StartDiscovery
<1>6. CASE DefersStop(s)
  <2>1. scan'[s] = "scanning" /\ stopOn'[s] = bus
    BY <1>6 DEF DefersStop, ScanGoes
  <2>2. \A b \in discovering : b = bus /\ Alive(b)'
    BY <1>1, <1>2 DEF StopIsAhead
  <2>3. discovering' = discovering
    BY <1>6 DEF DefersStop
  <2> QED
    BY <2>1, <2>2, <2>3 DEF StopIsAhead
<1>7. CASE ScanEnds(s)
  <2>1. /\ scan[s] = "scanning"
        /\ \A r \in Scanners \ {s} : scan'[r] = scan[r] /\ stopOn'[r] = stopOn[r]
        /\ discovering' = discovering \ {stopOn[s]}
    BY <1>7 DEF ScanEnds, AfterScan, ScanReturns, ScanGoes
  <2> QED
    BY <1>1, <2>1 DEF StopIsAhead
<1> QED
  BY <1>3, <1>4, <1>5, <1>6, <1>7 DEF Scanner

\* blemidi.go, dbus.go: with any number of Discovers and Pairs next to any
\* number of other calls, BlueZ scans for nobody who has gone.
THEOREM ScansStop == BleSpec => []ScansForSomebody
<1>1. Init /\ ScanInit => ScanInv
  BY InvInit DEF ScanInv, ScanInit, ScanTypeOK, StopIsAhead
<1>2. ScanInv /\ [BleNext]_<<vars, scanVars>> => ScanInv'
  <2> SUFFICES ASSUME ScanInv, [BleNext]_<<vars, scanVars>>
               PROVE  ScanInv'
    OBVIOUS
  <2>1. CASE \E s \in Scanners : Scanner(s)
    BY <2>1, ScannerKeeps, ScannerTypes, ScannerStops DEF ScanInv
  <2>2. CASE Next /\ SessionsGoWithBus
    BY <2>2, StepKeeps DEF ScanInv, ScanTypeOK, StopIsAhead, SessionsGoWithBus, Alive
  <2>3. CASE UNCHANGED <<vars, scanVars>>
    BY <2>3, StepKeeps DEF ScanInv, ScanTypeOK, StopIsAhead, scanVars, vars, busVars,
       Alive
  <2> QED
    BY <2>1, <2>2, <2>3 DEF BleNext
<1>3. ScanInv => ScansForSomebody
  <2>1. IInv => \A b : Alive(b) => b = bus
    BY DEF IInv, Basics, OnlyBusAlive, Alive
  <2> QED
    BY <2>1 DEF ScanInv, StopIsAhead, ScansForSomebody
<1> QED
  BY <1>1, <1>2, <1>3, PTL DEF BleSpec

\* All that holds of the planes without scans holds next to them.
THEOREM SafeAmongScans == BleSpec => [](OneOwner /\ NoTornWrite /\ NotifiedForSomebody)
<1>1. Init => IInv
  BY InvInit
<1>2. IInv /\ [BleNext]_<<vars, scanVars>> => IInv'
  BY StepKeeps, ScannerKeeps DEF BleNext
<1>3. IInv => OneOwner /\ NoTornWrite /\ NotifiedForSomebody
  BY DEF IInv
<1> QED
  BY <1>1, <1>2, <1>3, PTL DEF BleSpec

=============================================================================
