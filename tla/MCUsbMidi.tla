------------------------------ MODULE MCUsbMidi ------------------------------
(***************************************************************************)
(* Model checking of UsbMidi: two callers, so that every two calls of      *)
(* Connect, Disconnect and Send overlap, and one Listen.  Two ports let an *)
(* endpoint be connected again after a Disconnect.                         *)
(***************************************************************************)
EXTENDS UsbMidi
=============================================================================
