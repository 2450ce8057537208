---------------------------- MODULE MCBleFraming ----------------------------
(***************************************************************************)
(* Model checking of BleFraming at an MTU of 5: SysEx bodies of which the  *)
(* terminator fits into one packet, just does not fit, fits next to the    *)
(* last data, or needs a middle packet; one message of each kind of        *)
(* status; timestamps of which one looks like F7 and one like F0.  Up to   *)
(* two alien packets come in any place, after losses too: one that leaves  *)
(* a SysEx open or a status running, and another one on top of it.  One    *)
(* packet on the wire is enough, as packets are never reordered: every     *)
(* sequence of packets and losses can still reach the decoder.             *)
(***************************************************************************)
EXTENDS BleFraming

Sysex(n) == <<SOX>> \o [k \in 1..n |-> k] \o <<EOX>>

Note(n) == <<144, n, n>>
Clock == <<248>>

MCMessages == {Note(1), Note(2), <<192, 5>>, <<242, 1, 2>>, Clock}
                \union {Sysex(n) : n \in {1, 3, 5, 7}}

\* Running status, across a real-time message, before and after a SysEx.
MCBundles == {<<Note(1), Clock, Note(2)>>, <<Note(1), Note(2), Sysex(1)>>,
              <<Sysex(1), Note(1)>>, <<<<242, 1, 2>>, Note(2)>>}

\* Too short, a SysEx that opens or ends alone, and bytes with the high bit set
\* in the place of data before a truncated message.  (A continuation packet
\* whose beginning was lost is data without a status.)
MCNoise == {<<128>>, <<128, 128, SOX, 9>>, <<128, 128, EOX>>,
            <<128, 128, 144, 200, 240, 128, 144, 1>>}

\* The bundle of which the SysEx is not the last message.
MCSysexFirst == {<<Sysex(1), Note(1)>>}
=============================================================================
