------------------------------ MODULE Listening ------------------------------
(***************************************************************************)
(* What transport.Transport promises about Listen, for every backend: each *)
(* call returns a bounded channel of events that is closed at most once    *)
(* and takes no event after that, and that does get closed when its ctx is *)
(* done, whether or not anybody still drains it.                           *)
(*                                                                         *)
(* A backend may close a channel early (its device went away).             *)
(***************************************************************************)
EXTENDS Naturals

CONSTANTS Listeners,  \* the calls of Listen
          Cap         \* capacity of the channel's buffer

VARIABLES chan,       \* "none" before Listen returns, then "open", "closed"
          buf,        \* events in the channel
          ctxDone     \* the ctx of the call has ended

vars == <<chan, buf, ctxDone>>

Init == /\ chan = [l \in Listeners |-> "none"]
        /\ buf = [l \in Listeners |-> 0]
        /\ ctxDone = [l \in Listeners |-> FALSE]

Listen(l) == /\ chan[l] = "none"
             /\ chan' = [chan EXCEPT ![l] = "open"]
             /\ UNCHANGED <<buf, ctxDone>>

Emit(l) == /\ chan[l] = "open"
           /\ buf[l] < Cap
           /\ buf' = [buf EXCEPT ![l] = @ + 1]
           /\ UNCHANGED <<chan, ctxDone>>

\* What is buffered can still be taken from a closed channel.
Take(l) == /\ buf[l] > 0
           /\ buf' = [buf EXCEPT ![l] = @ - 1]
           /\ UNCHANGED <<chan, ctxDone>>

Close(l) == /\ chan[l] = "open"
            /\ chan' = [chan EXCEPT ![l] = "closed"]
            /\ UNCHANGED <<buf, ctxDone>>

Cancel(l) == /\ ~ctxDone[l]
             /\ ctxDone' = [ctxDone EXCEPT ![l] = TRUE]
             /\ UNCHANGED <<chan, buf>>

Next == \E l \in Listeners :
          Listen(l) \/ Emit(l) \/ Take(l) \/ Close(l) \/ Cancel(l)

\* The promise of the interface: "The channel closes when ctx is done".
ClosesWhenDone ==
  \A l \in Listeners : (ctxDone[l] /\ chan[l] = "open") ~> (chan[l] = "closed")

SafeSpec == Init /\ [][Next]_vars

Spec == SafeSpec /\ ClosesWhenDone

=============================================================================
