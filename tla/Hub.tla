--------------------------------- MODULE Hub ---------------------------------
(***************************************************************************)
(* The control channel of the ProbeMidiBrain: midicontrol.Hub (hub.go) and *)
(* the WebSocket handler that feeds it (receiver.go).                      *)
(*                                                                         *)
(* Every accepted WebSocket c runs one goroutine of handleControl, whose   *)
(* program counter is pc[c].  The goroutines of the daemon that push MIDI  *)
(* (Senders) call Hub.Send.  They meet at the mutex mu, which Send keeps   *)
(* across the network write: a Send is therefore two steps, one that       *)
(* acquires mu and one that returns from conn.Write, with any step of      *)
(* another goroutine that does not need mu in between.  Every other        *)
(* critical section is one step, taken when mu is free.                    *)
(*                                                                         *)
(* The network and the WebSocket library are external: a peer may stall    *)
(* (stop reading, so that the send window fills up), resume or vanish at   *)
(* any time, and a write to an open socket may always be swallowed by the  *)
(* kernel's buffers.                                                       *)
(***************************************************************************)
EXTENDS Naturals

CONSTANTS Conns,      \* accepted WebSocket connections, one handler each
          NoConn,     \* h.conn == nil
          Senders,    \* goroutines that call Hub.Send
          NoSender,   \* mu is not held by a Send
          Deadline,   \* the senders whose ctx ends while they wait
          MaxSends    \* bound: calls of Send per sender

ASSUME HubAssumption == /\ NoConn \notin Conns
                        /\ NoSender \notin Senders
                        /\ Deadline \subseteq Senders
                        /\ MaxSends \in Nat

VARIABLES
  mu,        \* the sender that holds Hub.mu across a write, or NoSender
  conn,      \* Hub.conn
  remote,    \* Hub.remote, as the connection whose address it is
  sent,      \* Hub.sent
  pc,        \* where the handler of each connection stands
  sock,      \* the daemon's end of each WebSocket
  peer,      \* the brain's end
  notice,    \* the last of OnConnect / OnDisconnect the daemon was given
  followed,  \* the connection of the last session switch dispatched
  calls,     \* Send calls begun by each sender
  target,    \* the connection a sender is writing to, NoConn outside Write
  latest     \* history: the last connection that was registered

hubVars == <<conn, remote, sent>>
sendVars == <<mu, calls, target>>
netVars == <<sock, peer>>
noteVars == <<notice, followed>>
vars == <<mu, conn, remote, sent, pc, sock, peer, notice, followed, calls,
          target, latest>>

PCs == {"idle", "accepted", "registered", "reading", "failed",
        "unregistered", "notified", "done"}

\* The handler has called hub.Connect and not yet hub.Disconnect.
Registered == {"registered", "reading", "failed"}

Init == /\ mu = NoSender
        /\ conn = NoConn
        /\ remote = NoConn
        /\ sent = 0
        /\ pc = [c \in Conns |-> "idle"]
        /\ sock = [c \in Conns |-> "none"]
        /\ peer = [c \in Conns |-> "none"]
        /\ notice = "none"
        /\ followed = NoConn
        /\ calls = [s \in Senders |-> 0]
        /\ target = [s \in Senders |-> NoConn]
        /\ latest = NoConn

-----------------------------------------------------------------------------
(* The brain and the network. *)

Stall(c) == /\ peer[c] = "up"
            /\ peer' = [peer EXCEPT ![c] = "stalled"]
            /\ UNCHANGED <<hubVars, sendVars, noteVars, pc, sock, latest>>

Resume(c) == /\ peer[c] = "stalled"
             /\ peer' = [peer EXCEPT ![c] = "up"]
             /\ UNCHANGED <<hubVars, sendVars, noteVars, pc, sock, latest>>

Vanish(c) == /\ peer[c] \in {"up", "stalled"}
             /\ peer' = [peer EXCEPT ![c] = "gone"]
             /\ UNCHANGED <<hubVars, sendVars, noteVars, pc, sock, latest>>

-----------------------------------------------------------------------------
(* handleControl, one connection.  A definition whose comment begins with   *)
(* "Variant:" is the next definition with a bug in it; nothing uses it, it  *)
(* is there to show that a property would notice.                           *)

\* websocket.Accept succeeds: the socket is open in both directions.
Accept(c) == /\ pc[c] = "idle"
             /\ pc' = [pc EXCEPT ![c] = "accepted"]
             /\ sock' = [sock EXCEPT ![c] = "open"]
             /\ peer' = [peer EXCEPT ![c] = "up"]
             /\ UNCHANGED <<hubVars, sendVars, noteVars, latest>>

\* It fails: the handler returns before it has touched the hub.
AcceptFails(c) == /\ pc[c] = "idle"
                  /\ pc' = [pc EXCEPT ![c] = "done"]
                  /\ UNCHANGED <<hubVars, sendVars, noteVars, netVars, latest>>

\* Hub.Connect: replaces h.conn whoever it belongs to, under mu.
Connect(c) == /\ pc[c] = "accepted"
              /\ mu = NoSender
              /\ conn' = c
              /\ remote' = c
              /\ latest' = c
              /\ pc' = [pc EXCEPT ![c] = "registered"]
              /\ UNCHANGED <<sent, sendVars, noteVars, netVars>>

\* cb.OnConnect, after Hub.Connect has released mu.
OnConnect(c) == /\ pc[c] = "registered"
                /\ notice' = "came"
                /\ pc' = [pc EXCEPT ![c] = "reading"]
                /\ UNCHANGED <<hubVars, sendVars, netVars, followed, latest>>

\* One turn of the read loop: a sessionSwitch frame is dispatched, any other
\* frame is drained.
ReadFrame(c) ==
  /\ pc[c] = "reading"
  /\ sock[c] = "open"
  /\ peer[c] \in {"up", "stalled"}
  /\ \E isSwitch \in BOOLEAN :
       followed' = IF isSwitch THEN c ELSE followed
  /\ UNCHANGED <<hubVars, sendVars, netVars, notice, pc, latest>>

\* c.Read returns an error: the peer went away or the socket was closed, here
\* or (a frame beyond SetReadLimit) by the library itself.
ReadFails(c) ==
  /\ pc[c] = "reading"
  /\ \/ /\ sock[c] = "closed" \/ peer[c] = "gone"
        /\ UNCHANGED sock
     \/ /\ sock[c] = "open" /\ peer[c] \in {"up", "stalled"}
        /\ sock' = [sock EXCEPT ![c] = "closed"]
  /\ pc' = [pc EXCEPT ![c] = "failed"]
  /\ UNCHANGED <<hubVars, sendVars, noteVars, peer, latest>>

\* Variant: the guard of Disconnect is missing.
ClearAlways(c) == /\ conn' = NoConn
                  /\ remote' = NoConn
                  /\ c \in Conns

\* Variant: Disconnect forgets to clear the hub.
ClearNever(c) == c \in Conns /\ UNCHANGED <<conn, remote>>

\* Variant: the address is cleared to something that is no address.
ClearToJunk(c) == IF conn = c THEN /\ conn' = NoConn
                                   /\ remote' = NoSender
                              ELSE UNCHANGED <<conn, remote>>

\* The body of Hub.Disconnect: only the connection that is still registered
\* clears the hub.
ClearIfCurrent(c) == IF conn = c THEN /\ conn' = NoConn
                                      /\ remote' = NoConn
                                 ELSE UNCHANGED <<conn, remote>>

\* Variant: a connection that was replaced leaves without OnDisconnect.
DisconnectInSilence(c) ==
  /\ pc[c] = "failed"
  /\ mu = NoSender
  /\ ClearIfCurrent(c)
  /\ pc' = [pc EXCEPT ![c] = IF conn = c THEN "unregistered" ELSE "notified"]
  /\ UNCHANGED <<sent, sendVars, noteVars, netVars, latest>>

\* The first deferred call: Hub.Disconnect, under mu.
Disconnect(c) == /\ pc[c] = "failed"
                 /\ mu = NoSender
                 /\ ClearIfCurrent(c)
                 /\ pc' = [pc EXCEPT ![c] = "unregistered"]
                 /\ UNCHANGED <<sent, sendVars, noteVars, netVars, latest>>

OnDisconnect(c) == /\ pc[c] = "unregistered"
                   /\ notice' = "went"
                   /\ pc' = [pc EXCEPT ![c] = "notified"]
                   /\ UNCHANGED <<hubVars, sendVars, netVars, followed, latest>>

\* c.CloseNow, the last deferred call.
CloseNow(c) == /\ pc[c] = "notified"
               /\ sock' = [sock EXCEPT ![c] = "closed"]
               /\ pc' = [pc EXCEPT ![c] = "done"]
               /\ UNCHANGED <<hubVars, sendVars, noteVars, peer, latest>>

-----------------------------------------------------------------------------
(* Hub.Send / Hub.SendJSON, one sender. *)

\* mu is acquired and nothing is connected: ErrNoBrain, mu is released.
SendNoBrain(s) == /\ mu = NoSender
                  /\ target[s] = NoConn
                  /\ calls[s] < MaxSends
                  /\ conn = NoConn
                  /\ calls' = [calls EXCEPT ![s] = @ + 1]
                  /\ UNCHANGED <<hubVars, netVars, noteVars, mu, target,
                                 pc, latest>>

\* Variant: mu is released before the write.
SendBeginUnlocked(s) ==
  /\ mu = NoSender
  /\ target[s] = NoConn
  /\ calls[s] < MaxSends
  /\ conn # NoConn
  /\ calls' = [calls EXCEPT ![s] = @ + 1]
  /\ target' = [target EXCEPT ![s] = conn]
  /\ UNCHANGED <<hubVars, netVars, noteVars, mu, pc, latest>>

\* mu is acquired and kept: h.conn.Write begins.
SendBegin(s) == /\ mu = NoSender
                /\ target[s] = NoConn
                /\ calls[s] < MaxSends
                /\ conn # NoConn
                /\ mu' = s
                /\ calls' = [calls EXCEPT ![s] = @ + 1]
                /\ target' = [target EXCEPT ![s] = conn]
                /\ UNCHANGED <<hubVars, netVars, noteVars, pc, latest>>

\* Variant: a path that leaves SendJSON without Unlock.
UnlockForgotten(s) == /\ target' = [target EXCEPT ![s] = NoConn]
                      /\ UNCHANGED mu

\* The deferred Unlock of SendJSON.
Unlock(s) == /\ mu' = NoSender
             /\ target' = [target EXCEPT ![s] = NoConn]

\* Write returns nil: the frame is counted, then mu is released.
WriteOK(s) == /\ target[s] # NoConn
              /\ sock[target[s]] = "open"
              /\ sent' = sent + 1
              /\ Unlock(s)
              /\ UNCHANGED <<conn, remote, netVars, noteVars, pc, calls, latest>>

\* Write returns an error: h.conn stays registered, only mu is released.  The
\* library may or may not have closed the socket on the way.
WriteFails(s) ==
  /\ target[s] # NoConn
  /\ sock[target[s]] = "closed" \/ peer[target[s]] = "gone"
  /\ \E end \in {sock[target[s]], "closed"} :
       sock' = [sock EXCEPT ![target[s]] = end]
  /\ Unlock(s)
  /\ UNCHANGED <<hubVars, noteVars, peer, pc, calls, latest>>

\* The ctx of the Send ends first: the library gives the write up and, once
\* the frame has been started, closes the socket.
WriteExpires(s) ==
  /\ target[s] # NoConn
  /\ s \in Deadline
  /\ \E end \in {sock[target[s]], "closed"} :
       sock' = [sock EXCEPT ![target[s]] = end]
  /\ Unlock(s)
  /\ UNCHANGED <<hubVars, noteVars, peer, pc, calls, latest>>

-----------------------------------------------------------------------------
Network(c) == Stall(c) \/ Resume(c) \/ Vanish(c)

Handler(c) == \/ Accept(c) \/ AcceptFails(c) \/ Connect(c) \/ OnConnect(c)
              \/ ReadFrame(c) \/ ReadFails(c)
              \/ Disconnect(c) \/ OnDisconnect(c) \/ CloseNow(c)

Sender(s) == \/ SendNoBrain(s) \/ SendBegin(s)
             \/ WriteOK(s) \/ WriteFails(s) \/ WriteExpires(s)

Next == \/ \E c \in Conns : Network(c) \/ Handler(c)
        \/ \E s \in Senders : Sender(s)

Spec == Init /\ [][Next]_vars

\* The write comes back by itself: whenever the peer is not stalling it.
Unstalled(s) == \/ sock[target[s]] = "closed"
                \/ peer[target[s]] # "stalled"

WriteReturns(s) == /\ WriteOK(s) \/ WriteFails(s)
                   /\ Unstalled(s)

\* A read error that needs no further doing of the peer.
SeesLoss(c) == /\ ReadFails(c)
               /\ sock[c] = "closed" \/ peer[c] = "gone"

\* Goroutines that can run do run.  A waiter of a sync.Mutex is not starved
\* (the mutex hands itself over to a waiter of more than a millisecond), hence
\* strong fairness of the two handler steps that take mu; TCP makes progress
\* whenever the peer reads, hence strong fairness of a write to it.  Nobody
\* has to dial, to send a frame, to call Send, to resume or to vanish.
Fairness ==
  /\ \A c \in Conns : /\ SF_vars(Connect(c))
                      /\ SF_vars(Disconnect(c))
                      /\ WF_vars(OnConnect(c))
                      /\ WF_vars(SeesLoss(c))
                      /\ WF_vars(OnDisconnect(c))
                      /\ WF_vars(CloseNow(c))
  /\ \A s \in Senders : /\ SF_vars(WriteReturns(s))
                        /\ WF_vars(WriteExpires(s))

FairSpec == Spec /\ Fairness

-----------------------------------------------------------------------------
(* Properties. *)

\* The types of the variables.
TypeOK == /\ mu \in Senders \union {NoSender}
          /\ conn \in Conns \union {NoConn}
          /\ remote \in Conns \union {NoConn}
          /\ sent \in Nat
          /\ pc \in [Conns -> PCs]
          /\ sock \in [Conns -> {"none", "open", "closed"}]
          /\ peer \in [Conns -> {"none", "up", "stalled", "gone"}]
          /\ notice \in {"none", "came", "went"}
          /\ followed \in Conns \union {NoConn}
          /\ calls \in [Senders -> 0..MaxSends]
          /\ target \in [Senders -> Conns \union {NoConn}]
          /\ latest \in Conns \union {NoConn}

\* The connection that was registered last and has not unregistered itself.
Current == IF latest \in Conns /\ pc[latest] \in Registered
           THEN latest ELSE NoConn

\* Hub.Connect and Hub.Disconnect: in every interleaving of the read loops the
\* hub holds the newest brain until that brain's own handler removes it, and
\* Remote() is the address of the brain that is held.  A late read loop of a
\* replaced connection never tears the newer one down.
HubHoldsLatest == conn = Current /\ remote = Current

\* Hub.SendJSON: while a frame is on its way the connection it is written to
\* is the one the hub holds (so no frame goes to a brain that was replaced or
\* has left), its socket has not been closed by its own handler, and no second
\* writer is at work.
WritesToHolder ==
  \A s \in Senders : target[s] # NoConn =>
    /\ conn = target[s]
    /\ pc[target[s]] \in Registered
    /\ \A q \in Senders : target[q] # NoConn => q = s

\* A handler that failed to accept is done without ever having had a socket.
HasLeft(c) == \/ pc[c] \in {"unregistered", "notified"}
              \/ pc[c] = "done" /\ sock[c] # "none"

\* The abstract slot, under the refinement mapping.
Slot == INSTANCE BrainSlot WITH
          holder <- conn,
          taken  <- {c \in Conns : pc[c] \in Registered \/ HasLeft(c)},
          left   <- {c \in Conns : HasLeft(c)},
          frames <- sent

\* The hub with its handlers implements the abstract slot: newest wins, only
\* the owner clears, a frame that is counted went to the holder.
ImplementsSlot == Slot!Spec

\* Hub.Disconnect via the read loop: once the brain that the hub holds is
\* gone, the hub lets go of it, whatever the senders do: a write to a brain
\* that is gone fails, so mu cannot stay locked.
ForgetsGoneBrain ==
  \A c \in Conns : (conn = c /\ pc[c] = "reading" /\ peer[c] = "gone")
                     ~> (conn # c)

\* A Send without a deadline that waits for a stalled peer.
StuckWriter == \E s \in Senders \ Deadline :
                 target[s] # NoConn /\ ~Unstalled(s)

\* A handler that has work to do: to register, or to wind up after its peer.
Pending(c) == \/ pc[c] = "accepted"
              \/ peer[c] = "gone" /\ pc[c] # "done"

\* handleControl: a handler that has accepted registers, and the handler of a
\* connection whose peer is gone runs to its end and closes the socket.  The
\* one thing that can keep it from doing so is a Send without a deadline to
\* another brain that stalls for ever, because Send keeps mu across the write.
HandlersFinish == \/ <>[]StuckWriter
                  \/ \A c \in Conns : []<>~Pending(c)

\* hub.go: "the daemon holds at most one live connection", a replaced one
\* being "closed by its own read loop on the way out": a connection the hub no
\* longer holds is closed in the end.
ReplacedIsClosed ==
  \A c \in Conns : (pc[c] = "reading" /\ conn # c) ~> (sock[c] = "closed")

\* receiver.go: OnConnect / OnDisconnect "notify that the brain ... came or
\* went".  They are called outside mu, so while handlers are at work the last
\* of them may contradict the hub; but once no handler is left that registered,
\* the last word was that the brain went, whatever the order of the callbacks.
NoGhostBrain ==
  (\A c \in Conns : pc[c] \in {"idle", "accepted", "done"}) => notice # "came"

=============================================================================
