------------------------------- MODULE UsbHid -------------------------------
(***************************************************************************)
(* The vendor-HID backend, usbhid/usbhid.go.                               *)
(*                                                                         *)
(* Unlike the OSC backend it keeps raw file descriptors, small integers    *)
(* that the kernel hands out again as soon as they are closed, to this     *)
(* backend or to any other part of the process.  Send, Disconnect and the  *)
(* reader of Listen capture a descriptor under t.mu and use it after the   *)
(* unlock.                                                                 *)
(*                                                                         *)
(* An endpoint stands for its hidraw node, which Connect opens O_NONBLOCK. *)
(* The kernel (descriptor table, unplugging, input reports) and the rest   *)
(* of the process are external: nothing is known of a foreign file, it may *)
(* be in blocking mode, hang up, be at its end or fail.                    *)
(***************************************************************************)
EXTENDS Naturals, FiniteSets

CONSTANTS Endpoints,  \* "VID:PID" ids, each with its hidraw node
          NoEndpoint,
          Fds,        \* file descriptors
          NoFd,
          NoFile,     \* the descriptor is closed
          Foreign,    \* the descriptor is a file of the rest of the process
          Callers,    \* goroutines that call Disconnect and Send
          Listeners,  \* calls of Listen
          Cap         \* capacity of the channel of Listen (64 in the code)

ASSUME HidAssumption == /\ NoFd \notin Fds
                        /\ Endpoints \intersect {NoFile, Foreign} = {}
                        /\ NoFile # Foreign
                        /\ NoEndpoint \notin Endpoints
                        /\ Endpoints \intersect Callers = {}
                        /\ Cap \in Nat \ {0}

VARIABLES
  ports,    \* t.ports: endpoint -> descriptor
  file,     \* the descriptor table: what a descriptor denotes
  gone,     \* the node behind a descriptor was unplugged
  input,    \* a report waits to be read from a descriptor
  call,     \* what a caller is doing outside t.mu
  ep,       \* the endpoint of that call
  arg,      \* the descriptor it captured
  lep,      \* the endpoint of a Listen
  lfd,      \* the descriptor it captured
  reader,   \* its goroutine
  out,      \* events in its channel
  ctxDone   \* its ctx has ended

kernelVars == <<file, gone, input>>
callVars == <<call, ep, arg>>
listenVars == <<lep, lfd, reader, out, ctxDone>>
vars == <<ports, kernelVars, callVars, listenVars>>

Init == /\ ports = [e \in Endpoints |-> NoFd]
        /\ file = [f \in Fds |-> NoFile]
        /\ gone = [f \in Fds |-> FALSE]
        /\ input = [f \in Fds |-> FALSE]
        /\ call = [c \in Callers |-> "idle"]
        /\ ep = [c \in Callers |-> NoEndpoint]
        /\ arg = [c \in Callers |-> NoFd]
        /\ lep = [l \in Listeners |-> NoEndpoint]
        /\ lfd = [l \in Listeners |-> NoFd]
        /\ reader = [l \in Listeners |-> "none"]
        /\ out = [l \in Listeners |-> 0]
        /\ ctxDone = [l \in Listeners |-> FALSE]

-----------------------------------------------------------------------------
(* The kernel and the rest of the process. *)

\* open(2) returns some closed descriptor, now a fresh open file x.
Opens(f, x) == /\ file[f] = NoFile
               /\ file' = [file EXCEPT ![f] = x]
               /\ UNCHANGED <<gone, input>>

\* close(2).
Closes(f) == /\ file' = [g \in Fds |-> IF g = f THEN NoFile ELSE file[g]]
             /\ gone' = [g \in Fds |-> g # f /\ gone[g]]
             /\ input' = [g \in Fds |-> g # f /\ input[g]]

ForeignOpen(f) == /\ Opens(f, Foreign)
                  /\ UNCHANGED <<ports, callVars, listenVars>>

ForeignClose(f) == /\ file[f] = Foreign
                   /\ Closes(f)
                   /\ UNCHANGED <<ports, callVars, listenVars>>

\* A report (or whatever a foreign file delivers) arrives.
Arrive(f) == /\ file[f] # NoFile
             /\ ~gone[f] /\ ~input[f]
             /\ input' = [input EXCEPT ![f] = TRUE]
             /\ UNCHANGED <<ports, file, gone, callVars, listenVars>>

\* The device is unplugged: every descriptor of its node is dead for good, a
\* device that is plugged in again is a new open file.
Unplug(e) == /\ \E f \in Fds : file[f] = e /\ ~gone[f]
             /\ gone' = [f \in Fds |-> gone[f] \/ file[f] = e]
             /\ UNCHANGED <<ports, file, input, callVars, listenVars>>

-----------------------------------------------------------------------------
(* Connect, Disconnect and Send.  A definition whose comment begins with    *)
(* "Variant:" is the next definition with a bug in it; nothing uses it, it  *)
(* is there to show that a property would notice.                           *)

\* Variant: not idempotent, a second Connect opens the node again.
ConnectReopens(e) == /\ \E f \in Fds : /\ Opens(f, e)
                                       /\ ports' = [ports EXCEPT ![e] = f]
                     /\ UNCHANGED <<callVars, listenVars>>

\* Connect: all of it under t.mu.  An endpoint that has a port already, a node
\* that does not resolve or open: nothing changes.
Connect(e) == /\ ports[e] = NoFd
              /\ \E f \in Fds : /\ Opens(f, e)
                                /\ ports' = [ports EXCEPT ![e] = f]
              /\ UNCHANGED <<callVars, listenVars>>

Begins(c, what, e) == /\ call[c] = "idle"
                      /\ ports[e] # NoFd
                      /\ call' = [call EXCEPT ![c] = what]
                      /\ ep' = [ep EXCEPT ![c] = e]
                      /\ arg' = [arg EXCEPT ![c] = ports[e]]

Returns(c) == /\ call' = [call EXCEPT ![c] = "idle"]
              /\ ep' = [ep EXCEPT ![c] = NoEndpoint]
              /\ arg' = [arg EXCEPT ![c] = NoFd]

\* The critical section of Disconnect.
Forget(c, e) == /\ Begins(c, "disconnect", e)
                /\ ports' = [ports EXCEPT ![e] = NoFd]
                /\ UNCHANGED <<kernelVars, listenVars>>

\* unix.Close, after the unlock.
CloseForgotten(c) == /\ call[c] = "disconnect"
                     /\ Closes(arg[c])
                     /\ Returns(c)
                     /\ UNCHANGED <<ports, listenVars>>

\* The critical section of Send.
SendBegin(c, e) == /\ Begins(c, "send", e)
                   /\ UNCHANGED <<ports, kernelVars, listenVars>>

\* unix.Write, after the unlock: on whatever the descriptor denotes by now.
SendWrite(c) == /\ call[c] = "send"
                /\ Returns(c)
                /\ UNCHANGED <<ports, kernelVars, listenVars>>

-----------------------------------------------------------------------------
(* Listen. *)

Listen(l, e) == /\ reader[l] = "none"
                /\ ports[e] # NoFd
                /\ lep' = [lep EXCEPT ![l] = e]
                /\ lfd' = [lfd EXCEPT ![l] = ports[e]]
                /\ reader' = [reader EXCEPT ![l] = "checking"]
                /\ UNCHANGED <<ports, kernelVars, callVars, out, ctxDone>>

ReaderAt(l, from, to) == /\ reader[l] = from
                         /\ reader' = [reader EXCEPT ![l] = to]
                         /\ UNCHANGED <<ports, file, gone, callVars, lep, lfd,
                                        ctxDone>>

ReaderStops(l) == /\ ctxDone[l]
                  /\ ReaderAt(l, "checking", "closed")
                  /\ UNCHANGED <<input, out>>

ReaderPolls(l) == /\ ~ctxDone[l]
                  /\ ReaderAt(l, "checking", "polling")
                  /\ UNCHANGED <<input, out>>

\* 200 ms without a report: rep is empty, back to the head of the loop.
PollTimesOut(l) == /\ ReaderAt(l, "polling", "checking")
                   /\ file[lfd[l]] # NoFile /\ ~gone[lfd[l]]
                   /\ UNCHANGED <<input, out>>

\* Variant: a poll that reports an error is taken for a timeout.
PollErrorIgnored(l) == /\ ReaderAt(l, "polling", "checking")
                       /\ file[lfd[l]] \in {NoFile, Foreign} \/ gone[lfd[l]]
                       /\ UNCHANGED <<input, out>>

\* POLLNVAL, POLLERR or POLLHUP: of a closed descriptor, of a dead node or of
\* a foreign file that has hung up.
PollFails(l) == /\ ReaderAt(l, "polling", "closed")
                /\ file[lfd[l]] \in {NoFile, Foreign} \/ gone[lfd[l]]
                /\ UNCHANGED <<input, out>>

PollReady(l) == /\ ReaderAt(l, "polling", "readable")
                /\ input[lfd[l]] /\ ~gone[lfd[l]]
                /\ UNCHANGED <<input, out>>

\* unix.Read returns the report ...
ReadReport(l) == /\ ReaderAt(l, "readable", "offering")
                 /\ input[lfd[l]] /\ ~gone[lfd[l]]
                 /\ input' = [input EXCEPT ![lfd[l]] = FALSE]
                 /\ UNCHANGED out

\* ... or no byte, at the end of a foreign file: taken for a timeout ...
ReadNothing(l) == /\ ReaderAt(l, "readable", "checking")
                  /\ file[lfd[l]] = Foreign
                  /\ UNCHANGED <<input, out>>

\* ... or an error: the node went in between, or (EAGAIN, for the node is
\* opened O_NONBLOCK) there is no report: another reader was faster, or the
\* descriptor was reused.  A foreign file may fail for reasons of its own.
ReadFails(l) == /\ ReaderAt(l, "readable", "closed")
                /\ ~input[lfd[l]] \/ gone[lfd[l]] \/ file[lfd[l]] = Foreign
                /\ UNCHANGED <<input, out>>

\* ... or it does not return: the descriptor has become a foreign file in
\* blocking mode with nothing to read.
ReadBlocks(l) == /\ ReaderAt(l, "readable", "reading")
                 /\ file[lfd[l]] = Foreign /\ ~input[lfd[l]]
                 /\ UNCHANGED <<input, out>>

\* Variant: an unbounded queue in place of the channel.
OfferUnbounded(l) == /\ ReaderAt(l, "offering", "checking")
                     /\ out' = [out EXCEPT ![l] = @ + 1]
                     /\ UNCHANGED input

Offer(l) == /\ out[l] < Cap
            /\ ReaderAt(l, "offering", "checking")
            /\ out' = [out EXCEPT ![l] = @ + 1]
            /\ UNCHANGED input

\* Variant: a plain send, without the branch that watches the ctx.
OfferUncancelled(l) == l \notin Listeners /\ UNCHANGED vars

OfferCancelled(l) == /\ ctxDone[l]
                     /\ ReaderAt(l, "offering", "closed")
                     /\ UNCHANGED <<input, out>>

Reader(l) == \/ ReaderStops(l) \/ ReaderPolls(l)
             \/ PollTimesOut(l) \/ PollFails(l) \/ PollReady(l)
             \/ ReadReport(l) \/ ReadNothing(l) \/ ReadFails(l) \/ ReadBlocks(l)
             \/ Offer(l) \/ OfferCancelled(l)

\* The other end of that file ends the read, with bytes, its end or an error,
\* whenever it likes.  The read holds on to the file: closing the descriptor
\* does not wake it, and what the descriptor denotes by then does not matter.
ReadReturns(l) == /\ \E to \in {"offering", "checking", "closed"} :
                       ReaderAt(l, "reading", to)
                  /\ UNCHANGED <<input, out>>

Take(l) == /\ out[l] > 0
           /\ out' = [out EXCEPT ![l] = @ - 1]
           /\ UNCHANGED <<ports, kernelVars, callVars, lep, lfd, reader,
                          ctxDone>>

Cancel(l) == /\ ~ctxDone[l]
             /\ ctxDone' = [ctxDone EXCEPT ![l] = TRUE]
             /\ UNCHANGED <<ports, kernelVars, callVars, lep, lfd, reader, out>>

-----------------------------------------------------------------------------
Kernel == \/ \E f \in Fds : ForeignOpen(f) \/ ForeignClose(f) \/ Arrive(f)
          \/ \E e \in Endpoints : Unplug(e)

Caller(c) == \/ \E e \in Endpoints : Forget(c, e) \/ SendBegin(c, e)
             \/ CloseForgotten(c) \/ SendWrite(c)

Listener(l) == \/ \E e \in Endpoints : Listen(l, e)
               \/ Reader(l) \/ ReadReturns(l) \/ Take(l) \/ Cancel(l)

Next == \/ Kernel
        \/ \E e \in Endpoints : Connect(e)
        \/ \E c \in Callers : Caller(c)
        \/ \E l \in Listeners : Listener(l)

Spec == Init /\ [][Next]_vars

\* A poll returns within 200 ms and goroutines that can run do run.  Nobody
\* has to call, to drain the channel, to end a ctx, to plug or to press, and
\* neither a write nor a read of a foreign file has to return.
Fairness == /\ \A c \in Callers : WF_vars(CloseForgotten(c))
            /\ \A l \in Listeners : WF_vars(Reader(l))

FairSpec == Spec /\ Fairness

-----------------------------------------------------------------------------
(* Properties. *)

\* The types of the variables.
TypeOK == /\ ports \in [Endpoints -> Fds \union {NoFd}]
          /\ file \in [Fds -> Endpoints \union {NoFile, Foreign}]
          /\ gone \in [Fds -> BOOLEAN]
          /\ input \in [Fds -> BOOLEAN]
          /\ call \in [Callers -> {"idle", "disconnect", "send"}]
          /\ ep \in [Callers -> Endpoints \union {NoEndpoint}]
          /\ arg \in [Callers -> Fds \union {NoFd}]
          /\ lep \in [Listeners -> Endpoints \union {NoEndpoint}]
          /\ lfd \in [Listeners -> Fds \union {NoFd}]
          /\ reader \in [Listeners -> {"none", "checking", "polling",
                                       "readable", "reading", "offering",
                                       "closed"}]
          /\ out \in [Listeners -> 0..Cap]
          /\ ctxDone \in [Listeners -> BOOLEAN]

\* Who is to close descriptor f, opened for the node of endpoint e: the entry
\* of e in t.ports, or a Disconnect of e that has taken it out.
Owners(f, e) == {x \in {e} : ports[e] = f} \union
                {c \in Callers : call[c] = "disconnect"
                                 /\ arg[c] = f
                                 /\ ep[c] = e}

\* A descriptor of the node of e has one owner, any other has none.
RightlyOwned(f, e) == IF file[f] = e
                      THEN \E o \in Owners(f, e) : Owners(f, e) = {o}
                      ELSE Owners(f, e) = {}

\* Connect / Disconnect: every open descriptor of a node has exactly one owner,
\* and a descriptor that is closed, foreign or another node's has none: none is
\* leaked, and Disconnect never closes a descriptor that has been handed out
\* again in the meantime.
OneOwner == \A f \in Fds, e \in Endpoints : RightlyOwned(f, e)

\* Listen as transport.Transport promises it.
Channel == INSTANCE Listening WITH
             chan <- [l \in Listeners |->
                        IF reader[l] \in {"none", "closed"} THEN reader[l]
                        ELSE "open"],
             buf  <- out

\* The reader implements the channel, even when its descriptor was closed,
\* reused or shared with another reader: no event after the close, never more
\* than the buffer holds.  "The channel closes when ctx is done", drained or
\* not, unless the reader is inside the read of a blocking foreign file: the
\* code does not keep the promise there, and nothing but that file ends it.
ImplementsListening ==
  /\ Channel!SafeSpec
  /\ \A l \in Listeners :
       (ctxDone[l] /\ reader[l] \notin {"none", "closed"})
         ~> reader[l] \in {"closed", "reading"}

\* The reader waits for room in a channel nobody drains, or inside the read of
\* a foreign file.
Blocked(l) == (reader[l] = "offering" /\ out[l] = Cap) \/ reader[l] = "reading"

\* The node a Listen reads from was closed or unplugged.
LostNode(l) == /\ lfd[l] # NoFd
               /\ file[lfd[l]] = NoFile \/ gone[lfd[l]]

\* "node closed (e.g. Disconnect)" ends a Listen, as does an unplugged device:
\* unless the descriptor is handed out again before the reader looks at it, or
\* was, and the reader still hangs in the read of a foreign file.
NodeLossEndsListen ==
  \A l \in Listeners :
    LostNode(l) ~> (reader[l] = "closed" \/ Blocked(l) \/ ~LostNode(l))

\* transport.go: "Send emits one event to a connected endpoint", "Listen
\* streams inbound events from an endpoint": while a descriptor is captured
\* for one endpoint it never denotes the node of another.
NeverAnothersNode ==
  /\ \A c \in Callers :
       call[c] = "send" => file[arg[c]] \notin Endpoints \ {ep[c]}
  /\ \A l \in Listeners :
       reader[l] \in {"checking", "polling", "readable"}
         => file[lfd[l]] \notin Endpoints \ {lep[l]}

=============================================================================
