----------------------------- MODULE AtomicShelf -----------------------------
(***************************************************************************)
(* What the receiver promises to the probe app and to the readers of its   *)
(* staging directory, as if a file were written in one step: a post is put *)
(* on the shelf whole, replacing what was there, or it is not put at all;  *)
(* it is announced and acknowledged only after it was put; a post that is  *)
(* refused leaves the shelf as it was.  A process that dies loses answers, *)
(* never what is on the shelf.                                             *)
(*                                                                         *)
(* Staging.tla is the detailed specification and implements this one.      *)
(***************************************************************************)
CONSTANTS Posts,      \* the posts that may arrive
          Announced,  \* those that are announced once they are put
          Paths,      \* places on the shelf
          Nothing     \* an empty place

VARIABLES shelf,      \* what lies at each path
          stage       \* how far each post has come

vars == <<shelf, stage>>

Init == /\ shelf = [p \in Paths |-> Nothing]
        /\ stage = [r \in Posts |-> "pending"]

Moves(r, to) == stage' = [stage EXCEPT ![r] = to]

Put(r, p) == /\ stage[r] = "pending"
             /\ shelf' = [shelf EXCEPT ![p] = r]
             /\ Moves(r, "put")

Announce(r) == /\ stage[r] = "put"
               /\ r \in Announced
               /\ Moves(r, "told")
               /\ UNCHANGED shelf

Ack(r) == /\ stage[r] = IF r \in Announced THEN "told" ELSE "put"
          /\ Moves(r, "acked")
          /\ UNCHANGED shelf

Refuse(r) == /\ stage[r] = "pending"
             /\ Moves(r, "refused")
             /\ UNCHANGED shelf

\* Some of the posts in progress get no answer.
Die == \E lost \in SUBSET Posts :
         /\ \A r \in lost : stage[r] \in {"pending", "put", "told"}
         /\ stage' = [r \in Posts |-> IF r \in lost THEN "lost" ELSE stage[r]]
         /\ UNCHANGED shelf

Next == \/ \E r \in Posts : \/ \E p \in Paths : Put(r, p)
                            \/ Announce(r) \/ Ack(r) \/ Refuse(r)
        \/ Die

Spec == Init /\ [][Next]_vars

=============================================================================
