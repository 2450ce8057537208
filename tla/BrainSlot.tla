------------------------------ MODULE BrainSlot ------------------------------
(***************************************************************************)
(* What midicontrol.Hub promises to the daemon, with no lock, no socket    *)
(* and no goroutine in sight: one slot that holds at most one brain.       *)
(*                                                                         *)
(*   - a brain that takes the slot replaces whoever held it;               *)
(*   - a brain that leaves empties the slot only if it still holds it;     *)
(*   - a frame counted as sent was handed to the holder of the slot.       *)
(*                                                                         *)
(* Hub.tla is the detailed specification and implements this one.          *)
(***************************************************************************)
EXTENDS Naturals

CONSTANTS Conns,    \* the brain connections the listener may ever accept
          NoConn    \* the empty slot

VARIABLES holder,   \* who holds the slot, or NoConn
          taken,    \* the brains that have taken the slot so far
          left,     \* those of them that have left again
          frames    \* frames handed to a holder

vars == <<holder, taken, left, frames>>

Init == /\ holder = NoConn
        /\ taken = {}
        /\ left = {}
        /\ frames = 0

Take(c) == /\ c \notin taken
           /\ holder' = c
           /\ taken' = taken \union {c}
           /\ UNCHANGED <<left, frames>>

Leave(c) == /\ c \in taken \ left
            /\ left' = left \union {c}
            /\ \/ holder = c /\ holder' = NoConn
               \/ holder # c /\ UNCHANGED holder
            /\ UNCHANGED <<taken, frames>>

Deliver == /\ holder # NoConn
           /\ frames' = frames + 1
           /\ UNCHANGED <<holder, taken, left>>

Next == \/ \E c \in Conns : Take(c) \/ Leave(c)
        \/ Deliver

Spec == Init /\ [][Next]_vars

=============================================================================
