-------------------------------- MODULE MCBle --------------------------------
(***************************************************************************)
(* Model checking of BleTransport: one endpoint, so that every two calls   *)
(* meet on it, two callers and one Listen; and of BleScan with two         *)
(* scanners.  The two parts share the bus connection only, which the calls *)
(* of each make and Close ends, so they are explored one at a time.        *)
(***************************************************************************)
EXTENDS BleScan

VARIABLE part

MCInit == /\ Init
          /\ ScanInit
          /\ part \in {"planes"} \union {"scans" : s \in Scanners}

MCNext == /\ ~Panicked /\ ~ScanPanicked
          /\ \/ part = "planes" /\ Next /\ SessionsGoWithBus
             \/ part = "scans" /\ \E s \in Scanners : Scanner(s)
             \/ part = "scans" /\ Close /\ SessionsGoWithBus
          /\ UNCHANGED part

MCFairSpec == MCInit /\ [][MCNext]_<<vars, scanVars, part>> /\ Fairness
=============================================================================
