------------------------------- MODULE BleScan -------------------------------
(***************************************************************************)
(* Discover and Pair of blemidi/blemidi.go, with discover and              *)
(* resolveDevicePath of dbus.go, next to the rest of BleTransport.         *)
(*                                                                         *)
(* A scan asks BlueZ to discover and has it stop with a deferred call.  In *)
(* between it reads t.adapter and t.conn again and again without t.mu,     *)
(* while Close and ensureBus may replace both.  BlueZ keeps one discovery  *)
(* session for each client of the bus: it refuses a second one, and        *)
(* forgets the session with the connection.                                *)
(*                                                                         *)
(* Connect finds and bonds its device with the same code; in BleTransport  *)
(* that is the one step Resolve.  What a scan writes to the device map is  *)
(* the path and the name of an entry, which the model has no use for: the  *)
(* path is a function of the address, and which data plane the name leads  *)
(* to is a free choice there (OpenALSA, NoALSA).                           *)
(***************************************************************************)
EXTENDS BleTransport

CONSTANT Scanners  \* goroutines that call Discover and Pair

VARIABLES
  scan,         \* where such a goroutine stands
  goal,         \* the call it is in: "discover" or "pair"
  stopOn,       \* the connection its deferred StopDiscovery goes to
  discovering   \* the connections that have a discovery session

scanVars == <<scan, goal, stopOn, discovering>>

ScanInit == /\ scan = [s \in Scanners |-> "idle"]
            /\ goal = [s \in Scanners |-> "none"]
            /\ stopOn = [s \in Scanners |-> NoBus]
            /\ discovering = {}

-----------------------------------------------------------------------------
ScanGoes(s, from, to) == /\ scan[s] = from
                         /\ scan' = [scan EXCEPT ![s] = to]

ScanReturns(s, from) == /\ ScanGoes(s, from, "idle")
                        /\ goal' = [goal EXCEPT ![s] = "none"]

\* After discover, Discover returns, and resolveDevicePath looks again unless
\* the ctx has ended.
AfterScan(s, from) == \/ ScanReturns(s, from)
                      \/ /\ goal[s] = "pair"
                         /\ ScanGoes(s, from, "again")
                         /\ UNCHANGED goal

DiscoverBegin(s) == /\ ScanGoes(s, "idle", "start")
                    /\ goal' = [goal EXCEPT ![s] = "discover"]
                    /\ EnsureBus
                    /\ UNCHANGED <<stopOn, discovering>>

PairBegin(s) == /\ ScanGoes(s, "idle", "find")
                /\ goal' = [goal EXCEPT ![s] = "pair"]
                /\ EnsureBus
                /\ UNCHANGED <<stopOn, discovering>>

\* findDevicePath: BlueZ knows the device, or it does not.
Found(s) == /\ ScanGoes(s, "find", "bond") \/ ScanGoes(s, "again", "bond")
            /\ bus # NoBus
            /\ UNCHANGED <<busVars, goal, stopOn, discovering>>

NotFound(s) == /\ bus # NoBus
               /\ \/ ScanGoes(s, "find", "start") /\ UNCHANGED goal
                  \/ ScanReturns(s, "again")
               /\ UNCHANGED <<busVars, stopOn, discovering>>

\* StartDiscovery on t.adapter, an object of t.conn while there is one.
StartDiscovery(s) == /\ ScanGoes(s, "start", "deferring")
                     /\ bus # NoBus
                     /\ bus \notin discovering
                     /\ discovering' = discovering \union {bus}
                     /\ UNCHANGED <<busVars, goal, stopOn>>

\* It fails, as it does on a connection that has a session or is closed.
StartFails(s) == /\ AfterScan(s, "start")
                 /\ UNCHANGED <<busVars, stopOn, discovering>>

\* defer t.adapter.Call(StopDiscovery) reads t.adapter once more.  That of a
\* connection that is closed is as good as none.
DefersStop(s) == /\ ScanGoes(s, "deferring", "scanning")
                 /\ stopOn' = [stopOn EXCEPT ![s] = bus]
                 /\ UNCHANGED <<busVars, goal, discovering>>

\* Variant: StopDiscovery is called at the deadline only.
StopsAtDeadline(s) ==
  /\ AfterScan(s, "scanning")
  /\ stopOn' = [stopOn EXCEPT ![s] = NoBus]
  /\ discovering' \in {discovering, discovering \ {stopOn[s]}}
  /\ UNCHANGED busVars

\* The deadline, the end of the ctx, or a call that failed; whichever it is,
\* the deferred call is made.  BlueZ is taken to obey it: the code does not look
\* at its error, and there is nothing it could do then.
ScanEnds(s) == /\ AfterScan(s, "scanning")
               /\ stopOn' = [stopOn EXCEPT ![s] = NoBus]
               /\ discovering' = discovering \ {stopOn[s]}
               /\ UNCHANGED busVars

\* pairDevice, whether or not BlueZ bonds.
Bond(s) == /\ ScanReturns(s, "bond")
           /\ bus # NoBus
           /\ UNCHANGED <<busVars, stopOn, discovering>>

\* managedObjects(t.conn) and t.conn.Object after a Close.
ScanReadsNil(s) ==
  /\ bus = NoBus
  /\ \E from \in {"find", "scanning", "again", "bond"} :
       ScanGoes(s, from, "panicked")
  /\ UNCHANGED <<busVars, goal, stopOn, discovering>>

Scanner(s) == /\ \/ DiscoverBegin(s) \/ PairBegin(s)
                 \/ Found(s) \/ NotFound(s)
                 \/ StartDiscovery(s) \/ StartFails(s) \/ DefersStop(s)
                 \/ ScanEnds(s) \/ Bond(s) \/ ScanReadsNil(s)
              /\ UNCHANGED <<mapVars, planeVars, radioVars, callVars, listenVars>>

-----------------------------------------------------------------------------
ScanPanicked == \E s \in Scanners : scan[s] = "panicked"

\* BlueZ ends the session of a client whose connection is closed.
SessionsGoWithBus ==
  /\ discovering' = {b \in discovering : busState'[b] = "open"}
  /\ UNCHANGED <<scan, goal, stopOn>>

BleNext == /\ ~Panicked /\ ~ScanPanicked
           /\ \/ \E s \in Scanners : Scanner(s)
              \/ Next /\ SessionsGoWithBus

BleSpec == Init /\ ScanInit /\ [][BleNext]_<<vars, scanVars>>

-----------------------------------------------------------------------------
(* Properties. *)

\* The types of the variables.
ScanTypeOK == /\ scan \in [Scanners -> {"idle", "find", "start", "deferring",
                                        "scanning", "again", "bond", "panicked"}]
              /\ goal \in [Scanners -> {"none", "discover", "pair"}]
              /\ stopOn \in [Scanners -> Buses \union {NoBus}]
              /\ discovering \in SUBSET Buses

\* discover: BlueZ scans only for a call that is still in the scan and will
\* stop it, on the very connection it scans for: no error path, no overlap of
\* scans, and no Close or new connection in between leaves the adapter
\* scanning for nobody.  As long as StopDiscovery itself does not fail.
ScansForSomebody ==
  \A b \in discovering :
    /\ Alive(b)
    /\ \E s \in Scanners : \/ scan[s] = "deferring" /\ bus = b
                           \/ scan[s] = "scanning" /\ stopOn[s] = b

=============================================================================
