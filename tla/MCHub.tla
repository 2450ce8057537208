-------------------------------- MODULE MCHub --------------------------------
(***************************************************************************)
(* Model checking of Hub.  Two connections, so that one can be replaced by *)
(* the other at every step of its handler; two senders, one whose ctx has  *)
(* a deadline and one whose ctx has none.                                  *)
(*                                                                         *)
(* And of Auv3Midi, which shares no variable with the hub: a behaviour is  *)
(* one of the hub, or the Send of one event.                               *)
(***************************************************************************)
EXTENDS Hub, Auv3Midi

MCInit == Init /\ EventInit

MCNext == /\ event.kind = "none"
          /\ \/ Next /\ UNCHANGED eventVars
             \/ Init /\ EventNext /\ UNCHANGED vars

MCFairSpec == MCInit /\ [][MCNext]_<<vars, eventVars>> /\ Fairness

-----------------------------------------------------------------------------
\* Every status the switches of CommandFromMIDI tell apart, on the first and
\* the last channel, with zero to two data bytes: 0, the greatest, and one
\* with bit 7 set.
MCStatuses == {0, 127, 128, 143, 144, 159, 160, 176, 191, 192, 207, 208, 224,
               240, 248, 250, 251, 252, 254}

MCData == {0, 127, 128}

MCRendered == {<<>>} \union {<<s>> : s \in MCStatuses}
                     \union {<<s, d>> : s \in MCStatuses, d \in MCData}
                     \union {<<s, d, e>> : s \in MCStatuses, d, e \in MCData}
=============================================================================
