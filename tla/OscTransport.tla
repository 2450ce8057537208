---------------------------- MODULE OscTransport ----------------------------
(***************************************************************************)
(* The OSC/UDP backend, osc/osc.go.                                        *)
(*                                                                         *)
(* A caller runs Connect, Disconnect or Send; each has one critical        *)
(* section of t.mu and one step outside it, so a call in progress holds a  *)
(* socket in arg[c].  A call of Listen starts two goroutines on the socket *)
(* it found: the reader, which owns the channel, and the renewer, which    *)
(* repeats /xremote.  Neither is told of the other.                        *)
(*                                                                         *)
(* The kernel is external.  A connected UDP socket reports a refusal by    *)
(* the console (ICMP) once, to the next read or write on that socket,      *)
(* whoever makes it: refused[k] is that pending error.                     *)
(***************************************************************************)
EXTENDS Naturals, FiniteSets, OscCodec

CONSTANTS Endpoints,  \* endpoint ids
          Sockets,    \* the UDP sockets that can be dialed, each once
          NoSocket,
          Callers,    \* goroutines that call Connect, Disconnect and Send
          Listeners,  \* calls of Listen
          Cap,        \* capacity of the channel of Listen (64 in the code)
          Packets,    \* the packets a console may send
          MaxBatch    \* bound: messages in one of them (a bundle has several)

\* The messages that decodePacket finds in a packet; none if it is malformed.
Messages(p) == decodePacket[p].msgs

ASSUME OscAssumption == /\ NoSocket \notin Sockets
                        /\ Endpoints \intersect Callers = {}
                        /\ Cap \in Nat \ {0}
                        /\ MaxBatch \in Nat

ASSUME BatchAssumption == \A p \in Packets : Len(Messages(p)) \in 0..MaxBatch

VARIABLES
  conns,    \* t.conns: endpoint -> socket
  sock,     \* "unused", "open" or "closed"
  refused,  \* the pending ICMP error of a socket
  call,     \* what a caller is doing outside t.mu
  ep,       \* the endpoint of that call
  arg,      \* the socket it holds
  lsock,    \* the socket a Listen was bound to
  reader,   \* the reading goroutine of a Listen
  batch,    \* messages of the last packet it has still to offer
  out,      \* events in the channel
  renewer,  \* the xremoteLoop goroutine of a Listen
  ctxDone   \* the ctx of a Listen has ended

callVars == <<call, ep, arg>>
listenVars == <<lsock, reader, batch, out, renewer, ctxDone>>
vars == <<conns, sock, refused, callVars, listenVars>>

Init == /\ conns = [e \in Endpoints |-> NoSocket]
        /\ sock = [k \in Sockets |-> "unused"]
        /\ refused = [k \in Sockets |-> FALSE]
        /\ call = [c \in Callers |-> "idle"]
        /\ ep \in [Callers -> Endpoints]
        /\ arg = [c \in Callers |-> NoSocket]
        /\ lsock = [l \in Listeners |-> NoSocket]
        /\ reader = [l \in Listeners |-> "none"]
        /\ batch = [l \in Listeners |-> 0]
        /\ out = [l \in Listeners |-> 0]
        /\ renewer = [l \in Listeners |-> "none"]
        /\ ctxDone = [l \in Listeners |-> FALSE]

-----------------------------------------------------------------------------
(* Connect, Disconnect and Send.  A definition whose comment begins with    *)
(* "Variant:" is the next definition with a bug in it; nothing uses it, it  *)
(* is there to show that a property would notice.                           *)

Begins(c, what, e, k) == /\ call[c] = "idle"
                         /\ call' = [call EXCEPT ![c] = what]
                         /\ ep' = [ep EXCEPT ![c] = e]
                         /\ arg' = [arg EXCEPT ![c] = k]

Returns(c) == /\ call' = [call EXCEPT ![c] = "idle"]
              /\ arg' = [arg EXCEPT ![c] = NoSocket]
              /\ UNCHANGED ep

\* The endpoint resolves and net.DialUDP opens a socket.  A resolve or a dial
\* that fails returns without a trace.
Dial(c, e) == \E k \in Sockets :
                /\ sock[k] = "unused"
                /\ Begins(c, "connect", e, k)
                /\ sock' = [sock EXCEPT ![k] = "open"]
                /\ UNCHANGED <<conns, refused, listenVars>>

Closed(old) == [k \in Sockets |-> IF k = old THEN "closed" ELSE sock[k]]

\* Variant: Connect replaces the socket without closing the old one.
InstallLeaks(c) == /\ call[c] = "connect"
                   /\ conns' = [conns EXCEPT ![ep[c]] = arg[c]]
                   /\ Returns(c)
                   /\ UNCHANGED <<sock, refused, listenVars>>

\* The critical section of Connect: close what the endpoint had, replace it.
Install(c) == /\ call[c] = "connect"
              /\ sock' = Closed(conns[ep[c]])
              /\ conns' = [conns EXCEPT ![ep[c]] = arg[c]]
              /\ Returns(c)
              /\ UNCHANGED <<refused, listenVars>>

\* The critical section of Disconnect: the endpoint forgets its socket, which
\* this call now has to close.  Without one there is nothing to do.
Forget(c, e) == /\ conns[e] # NoSocket
                /\ Begins(c, "disconnect", e, conns[e])
                /\ conns' = [conns EXCEPT ![e] = NoSocket]
                /\ UNCHANGED <<sock, refused, listenVars>>

CloseForgotten(c) == /\ call[c] = "disconnect"
                     /\ sock' = Closed(arg[c])
                     /\ Returns(c)
                     /\ UNCHANGED <<conns, refused, listenVars>>

\* connFor in Send.
SendBegin(c, e) == /\ conns[e] # NoSocket
                   /\ Begins(c, "send", e, conns[e])
                   /\ UNCHANGED <<conns, sock, refused, listenVars>>

\* conn.Write on socket k goes out; the console may refuse the datagram.
WriteSucceeds(k) == /\ sock[k] = "open"
                    /\ ~refused[k]
                    /\ \E r \in BOOLEAN : refused' = [refused EXCEPT ![k] = r]

\* It fails: the socket was closed, or it reports an earlier refusal.
WriteFails(k) == /\ sock[k] = "closed" \/ refused[k]
                 /\ refused' = [refused EXCEPT ![k] = FALSE]

SendWrite(c) == /\ call[c] = "send"
                /\ WriteSucceeds(arg[c]) \/ WriteFails(arg[c])
                /\ Returns(c)
                /\ UNCHANGED <<conns, sock, listenVars>>

-----------------------------------------------------------------------------
(* Listen: the reader. *)

\* Both goroutines start on the socket the endpoint has now.
Listen(l, e) == /\ reader[l] = "none"
                /\ conns[e] # NoSocket
                /\ lsock' = [lsock EXCEPT ![l] = conns[e]]
                /\ reader' = [reader EXCEPT ![l] = "checking"]
                /\ renewer' = [renewer EXCEPT ![l] = "writing"]
                /\ UNCHANGED <<conns, sock, refused, callVars, batch, out,
                               ctxDone>>

ReaderAt(l, from, to) == /\ reader[l] = from
                         /\ reader' = [reader EXCEPT ![l] = to]
                         /\ UNCHANGED <<conns, sock, callVars, lsock, renewer,
                                        ctxDone>>

\* The head of the loop: the ctx is done and the deferred close(out) runs.
ReaderStops(l) == /\ ctxDone[l]
                  /\ ReaderAt(l, "checking", "closed")
                  /\ UNCHANGED <<refused, batch, out>>

\* Or the reader sets its deadline and calls conn.Read.
ReaderReads(l) == /\ ~ctxDone[l]
                  /\ ReaderAt(l, "checking", "reading")
                  /\ UNCHANGED <<refused, batch, out>>

\* The deadline of 250 ms passes.
ReadTimesOut(l) == /\ ReaderAt(l, "reading", "checking")
                   /\ sock[lsock[l]] = "open"
                   /\ UNCHANGED <<refused, batch, out>>

\* Any other error ends the reader, a refusal provoked by another goroutine's
\* write included.
ReadFails(l) == /\ ReaderAt(l, "reading", "closed")
                /\ sock[lsock[l]] = "closed" \/ refused[lsock[l]]
                /\ refused' = [refused EXCEPT ![lsock[l]] = FALSE]
                /\ UNCHANGED <<batch, out>>

\* A packet arrives.  A malformed one, or a bundle without messages, is
\* skipped; else its messages are offered one by one.
ReadPacket(l) ==
  /\ reader[l] = "reading"
  /\ sock[lsock[l]] = "open"
  /\ ~refused[lsock[l]]
  /\ \E p \in Packets :
       /\ ReaderAt(l, "reading",
                   IF Len(Messages(p)) = 0 THEN "checking" ELSE "offering")
       /\ batch' = [batch EXCEPT ![l] = Len(Messages(p))]
  /\ UNCHANGED <<refused, out>>

\* Variant: an unbounded queue in place of the channel.
OfferUnbounded(l) == /\ ReaderAt(l, "offering",
                                 IF batch[l] = 1 THEN "checking" ELSE "offering")
                     /\ batch' = [batch EXCEPT ![l] = @ - 1]
                     /\ out' = [out EXCEPT ![l] = @ + 1]
                     /\ UNCHANGED refused

\* out <- ev, when the buffer has room.
Offer(l) == /\ out[l] < Cap
            /\ ReaderAt(l, "offering",
                        IF batch[l] = 1 THEN "checking" ELSE "offering")
            /\ batch' = [batch EXCEPT ![l] = @ - 1]
            /\ out' = [out EXCEPT ![l] = @ + 1]
            /\ UNCHANGED refused

\* Variant: a plain send, without the branch that watches the ctx.
OfferUncancelled(l) == l \notin Listeners /\ UNCHANGED vars

\* The other branch of the select.
OfferCancelled(l) == /\ ctxDone[l]
                     /\ ReaderAt(l, "offering", "closed")
                     /\ batch' = [batch EXCEPT ![l] = 0]
                     /\ UNCHANGED <<refused, out>>

Reader(l) == \/ ReaderStops(l) \/ ReaderReads(l)
             \/ ReadTimesOut(l) \/ ReadFails(l) \/ ReadPacket(l)
             \/ Offer(l) \/ OfferCancelled(l)

-----------------------------------------------------------------------------
(* Listen: xremoteLoop. *)

RenewerAt(l, from, to) == /\ renewer[l] = from
                          /\ renewer' = [renewer EXCEPT ![l] = to]
                          /\ UNCHANGED <<conns, sock, callVars, lsock, reader,
                                         batch, out, ctxDone>>

Renew(l) == /\ RenewerAt(l, "writing", "waiting")
            /\ WriteSucceeds(lsock[l])

\* Variant: a write error is ignored and the loop goes on.
RenewIgnoresError(l) == /\ RenewerAt(l, "writing", "waiting")
                        /\ WriteFails(lsock[l])

\* Every write error ends the loop, not only that of a closed socket.
RenewFails(l) == /\ RenewerAt(l, "writing", "stopped")
                 /\ WriteFails(lsock[l])

Tick(l) == /\ RenewerAt(l, "waiting", "writing")
           /\ UNCHANGED refused

\* Variant: the loop waits for the socket to be closed, not for the ctx.
RenewerIgnoresCtx(l) == /\ RenewerAt(l, "waiting", "stopped")
                        /\ sock[lsock[l]] = "closed"
                        /\ UNCHANGED refused

RenewerStops(l) == /\ ctxDone[l]
                   /\ RenewerAt(l, "waiting", "stopped")
                   /\ UNCHANGED refused

Renewer(l) == Renew(l) \/ RenewFails(l) \/ Tick(l) \/ RenewerStops(l)

-----------------------------------------------------------------------------
(* The consumer of the channel and the owner of the ctx. *)

Take(l) == /\ out[l] > 0
           /\ out' = [out EXCEPT ![l] = @ - 1]
           /\ UNCHANGED <<conns, sock, refused, callVars, lsock, reader, batch,
                          renewer, ctxDone>>

Cancel(l) == /\ ~ctxDone[l]
             /\ ctxDone' = [ctxDone EXCEPT ![l] = TRUE]
             /\ UNCHANGED <<conns, sock, refused, callVars, lsock, reader,
                            batch, out, renewer>>

-----------------------------------------------------------------------------
Caller(c) == \/ \E e \in Endpoints : Dial(c, e) \/ Forget(c, e) \/ SendBegin(c, e)
             \/ Install(c) \/ CloseForgotten(c) \/ SendWrite(c)

Listener(l) == \/ \E e \in Endpoints : Listen(l, e)
               \/ Reader(l) \/ Renewer(l) \/ Take(l) \/ Cancel(l)

Next == \/ \E c \in Callers : Caller(c)
        \/ \E l \in Listeners : Listener(l)

Spec == Init /\ [][Next]_vars

\* Goroutines that can run do run, and a ticker ticks.  The renewer's ctx
\* branch needs strong fairness: it is disabled while the renewer writes, and
\* a select whose ctx is done does not lose to the ticker for ever.  Nobody
\* has to call, to drain the channel or to end a ctx.
Fairness == /\ \A c \in Callers : /\ WF_vars(Install(c))
                                  /\ WF_vars(CloseForgotten(c))
                                  /\ WF_vars(SendWrite(c))
            /\ \A l \in Listeners : /\ WF_vars(Reader(l))
                                    /\ WF_vars(Renewer(l))
                                    /\ SF_vars(RenewerStops(l))

FairSpec == Spec /\ Fairness

-----------------------------------------------------------------------------
(* Properties. *)

\* The types of the variables.
TypeOK == /\ conns \in [Endpoints -> Sockets \union {NoSocket}]
          /\ sock \in [Sockets -> {"unused", "open", "closed"}]
          /\ refused \in [Sockets -> BOOLEAN]
          /\ call \in [Callers -> {"idle", "connect", "disconnect", "send"}]
          /\ ep \in [Callers -> Endpoints]
          /\ arg \in [Callers -> Sockets \union {NoSocket}]
          /\ lsock \in [Listeners -> Sockets \union {NoSocket}]
          /\ reader \in [Listeners -> {"none", "checking", "reading",
                                       "offering", "closed"}]
          /\ batch \in [Listeners -> 0..MaxBatch]
          /\ out \in [Listeners -> 0..Cap]
          /\ renewer \in [Listeners -> {"none", "writing", "waiting",
                                        "stopped"}]
          /\ ctxDone \in [Listeners -> BOOLEAN]

\* Who is to close a socket: the endpoint that has it in t.conns, a Connect
\* that has not installed it yet, a Disconnect that has taken it out.
Owners(k) == {e \in Endpoints : conns[e] = k} \union
             {c \in Callers : call[c] \in {"connect", "disconnect"}
                              /\ arg[c] = k}

RightlyOwned(k) == IF sock[k] = "open"
                   THEN \E o \in Owners(k) : Owners(k) = {o}
                   ELSE Owners(k) = {}

\* Connect / Disconnect: every open socket has exactly one owner, and only
\* open sockets have one: no interleaving of calls leaks a socket, closes one
\* twice, or leaves a closed one in t.conns for Send and Listen to find.
OneOwner == \A k \in Sockets : RightlyOwned(k)

\* Listen as transport.Transport promises it.
Channel == INSTANCE Listening WITH
             chan <- [l \in Listeners |->
                        IF reader[l] \in {"none", "closed"} THEN reader[l]
                        ELSE "open"],
             buf  <- out

\* The reader implements the channel: no event after the close, never more
\* than the buffer holds, and the channel closes once the ctx is done although
\* the reader may sit in a read or in front of a full buffer.
ImplementsListening == Channel!Spec

\* The reader waits for room in a channel nobody drains.
Blocked(l) == reader[l] = "offering" /\ out[l] = Cap

\* Disconnect "also unblocks any Listen read loop bound to it": once the
\* socket of a Listen is closed (by Disconnect, or by a Connect that replaces
\* it), both goroutines end, the reader at the latest when its channel is
\* drained or its ctx ends.
DisconnectStopsListen ==
  \A l \in Listeners :
    (lsock[l] # NoSocket /\ sock[lsock[l]] = "closed")
      ~> (renewer[l] = "stopped" /\ (reader[l] = "closed" \/ Blocked(l)))

\* Listen: once the ctx is done no goroutine of it is left, whatever the
\* console, the callers and the consumer do.
NoGoroutineLeft ==
  \A l \in Listeners :
    (ctxDone[l] /\ lsock[l] # NoSocket)
      ~> (reader[l] = "closed" /\ renewer[l] = "stopped")

\* osc.go: xremoteLoop sends "every xremoteEvery until ctx is done, keeping
\* the console's change-mirroring subscription alive": as long as the channel
\* is open, the ctx is not done and the socket is open, /xremote is renewed.
RenewedWhileOpen ==
  \A l \in Listeners :
    reader[l] \in {"checking", "reading", "offering"} /\ ~ctxDone[l]
      /\ sock[lsock[l]] = "open"
    => renewer[l] # "stopped"

=============================================================================
