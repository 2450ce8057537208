------------------------------- MODULE MCUsbHid -------------------------------
(***************************************************************************)
(* Model checking of UsbHid: two devices that compete for the descriptors, *)
(* one or two callers and one or two calls of Listen.                      *)
(***************************************************************************)
EXTENDS UsbHid
=============================================================================
