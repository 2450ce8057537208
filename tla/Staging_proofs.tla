--------------------------- MODULE Staging_proofs ---------------------------
(***************************************************************************)
(* Proofs about Staging, for every set of requests, ids and stamps.        *)
(*                                                                         *)
(* IInv adds to the invariants what a handler knows when it comes to the   *)
(* rename: its temporary file is whole, the file is named, and nothing of  *)
(* its own is at any path yet.                                             *)
(***************************************************************************)
EXTENDS Staging, TLAPS

\* The handler has not renamed its file yet.
Before == {"waiting", "decode", "mkdir", "create", "write", "close", "chmod",
           "rename", "remove", "error"}

\* The calls that are made on a file that was written without an error.
Late == {"close", "chmod", "rename"}

WholeWhenLate == \A r \in Requests : pc[r] \in Late => tmp[r] = "whole"

DumpNamed == \A r \in Probes :
               pc[r] \notin {"waiting", "decode", "error", "killed"}
                 => path[r] \in Paths

ReportNamed == \A r \in Reports :
                 pc[r] \notin {"waiting", "decode", "mkdir", "error", "killed"}
                   => path[r] \in Paths

NotThereBefore == \A p \in Paths : file[p] \in Requests => pc[file[p]] \notin Before

IInv == /\ TypeOK
        /\ NeverHalfWritten
        /\ TempCleanedUp
        /\ WholeWhenLate
        /\ DumpNamed
        /\ ReportNamed
        /\ NotThereBefore

-----------------------------------------------------------------------------

LEMMA InitEstablishes == Init => IInv
<1> SUFFICES ASSUME Init PROVE IInv
  OBVIOUS
<1> USE StagingAssumption DEF Init
<1>1. TypeOK
  <2>1. accepted \in BOOLEAN /\ ctxDone \in BOOLEAN
    BY Zenon
  <2>2. crashes \in 0..MaxCrashes
    OBVIOUS
  <2> QED
    BY <2>1, <2>2 DEF TypeOK, PCs
<1>2. NeverHalfWritten /\ TempCleanedUp /\ WholeWhenLate
  BY DEF NeverHalfWritten, TempCleanedUp, WholeWhenLate, Late
<1>3. DumpNamed /\ ReportNamed /\ NotThereBefore
  BY DEF DumpNamed, ReportNamed, NotThereBefore, Requests
<1> QED
  BY <1>1, <1>2, <1>3 DEF IInv

\* A step of a handler that leaves the files alone.
LEMMA QuietStep ==
  ASSUME IInv, NEW r \in Requests, UNCHANGED file,
         \/ Reject(r) \/ MkdirFails(r) \/ CreateTemp(r) \/ CreateFails(r)
         \/ Write(r) \/ WriteFails(r) \/ Close(r) \/ Chmod(r)
         \/ LateCallFails(r) \/ Cleanup(r) \/ Notify(r) \/ Respond(r)
         \/ Arrive(r)
  PROVE  IInv'
<1> USE DEF IInv, TypeOK, Goes, Reject, MkdirFails, CreateTemp, CreateFails,
            Write, WriteFails, Close, Chmod, LateCallFails, Cleanup, Notify,
            Respond, Arrive, serveVars
<1>1. TypeOK'
  BY DEF PCs, Ended
<1>2. NeverHalfWritten'
  BY DEF NeverHalfWritten
<1>3. TempCleanedUp'
  BY DEF TempCleanedUp, PCs, Ended
<1>4. WholeWhenLate'
  BY DEF WholeWhenLate, Late
<1>5. DumpNamed' /\ ReportNamed'
  BY StagingAssumption DEF DumpNamed, ReportNamed, Requests
<1>6. NotThereBefore'
  BY DEF NotThereBefore, Before
<1> QED
  BY <1>1, <1>2, <1>3, <1>4, <1>5, <1>6

\* A step that names the file of a request.
LEMMA NamingStep ==
  ASSUME IInv, NEW r \in Requests, Decode(r) \/ Mkdir(r)
  PROVE  IInv'
<1> USE DEF IInv, TypeOK, Goes, Decode, Mkdir, serveVars
<1>1. /\ path' \in [Requests -> Paths \union {NoPath}]
      /\ \A q \in Requests \ {r} : path'[q] = path[q]
      /\ r \in Probes /\ pc[r] = "decode" => path'[r] \in Paths
      /\ r \in Reports /\ pc[r] = "mkdir" => path'[r] \in Paths
      /\ r \in Probes /\ pc[r] = "mkdir" => path'[r] = path[r]
  BY StagingAssumption DEF Paths
<1>2. /\ pc[r] \in {"decode", "mkdir"}
      /\ pc'[r] \in {"mkdir", "create"}
      /\ pc[r] = "decode" => pc'[r] = "mkdir"
      /\ pc' \in [Requests -> PCs]
      /\ \A q \in Requests \ {r} : pc'[q] = pc[q]
      /\ UNCHANGED <<tmp, file, stuck, serve, listener, errCh, accepted, ctxDone, crashes>>
  BY DEF PCs, Ended
<1> HIDE DEF Goes, Decode, Mkdir
<1>3. TypeOK'
  BY <1>1, <1>2
<1>4. NeverHalfWritten'
  <2> SUFFICES ASSUME NEW p \in Paths, file[p] # NoFile
               PROVE  \E q \in Requests : file[p] = q /\ path'[q] = p
    BY <1>2 DEF NeverHalfWritten
  <2>1. PICK q \in Requests : file[p] = q /\ path[q] = p
    BY DEF NeverHalfWritten
  <2>2. q # r
    BY <2>1, <1>2 DEF NotThereBefore, Before
  <2> QED
    BY <2>1, <2>2, <1>1
<1>5. TempCleanedUp' /\ WholeWhenLate'
  BY <1>2 DEF TempCleanedUp, WholeWhenLate, Late
<1>6. DumpNamed' /\ ReportNamed'
  BY <1>1, <1>2, StagingAssumption DEF DumpNamed, ReportNamed, Requests
<1>7. NotThereBefore'
  BY <1>2 DEF NotThereBefore, Before
<1> QED
  BY <1>3, <1>4, <1>5, <1>6, <1>7

LEMMA RenameStep ==
  ASSUME IInv, NEW r \in Requests, Rename(r)
  PROVE  IInv'
<1> USE DEF IInv, TypeOK, Goes, Rename, serveVars
<1>1. /\ path[r] \in Paths
      /\ tmp[r] = "whole"
      /\ file' = [file EXCEPT ![path[r]] = r]
  BY DEF WholeWhenLate, Late, DumpNamed, ReportNamed, Requests
<1>2. TypeOK'
  BY <1>1 DEF PCs, Ended
<1>3. NeverHalfWritten'
  BY <1>1 DEF NeverHalfWritten
<1>4. TempCleanedUp' /\ WholeWhenLate'
  BY DEF TempCleanedUp, WholeWhenLate, Late
<1>5. DumpNamed' /\ ReportNamed'
  BY <1>1 DEF DumpNamed, ReportNamed
<1>6. NotThereBefore'
  BY <1>1 DEF NotThereBefore, Before
<1> QED
  BY <1>2, <1>3, <1>4, <1>5, <1>6

\* The steps of Serve touch no handler.
LEMMA ServeStep ==
  ASSUME IInv, Listens \/ ListenReturns \/ SendsError \/ Serve \/ CtxEnds
  PROVE  IInv' /\ UNCHANGED handlerVars
<1> USE DEF IInv, Listens, ListenReturns, SendsError, Serve, ServeFails,
            ServeCancelled, Drained, DrainExpires, CtxEnds, handlerVars
<1>1. UNCHANGED handlerVars
  OBVIOUS
<1>2. TypeOK'
  <2>1. accepted' \in BOOLEAN /\ ctxDone' \in BOOLEAN
    BY Zenon DEF TypeOK
  <2>2. /\ serve' \in {"serving", "draining", "returned"}
        /\ listener' \in {"starting", "accepting", "sending", "ended"}
        /\ errCh' \in 0..1
        /\ crashes' = crashes
    BY DEF TypeOK
  <2> QED
    BY <1>1, <2>1, <2>2 DEF TypeOK
<1>3. /\ (NeverHalfWritten /\ TempCleanedUp /\ WholeWhenLate)'
      /\ (DumpNamed /\ ReportNamed /\ NotThereBefore)'
  BY <1>1 DEF NeverHalfWritten, TempCleanedUp, WholeWhenLate, DumpNamed,
              ReportNamed, NotThereBefore
<1> QED
  BY <1>1, <1>2, <1>3

LEMMA CrashStep ==
  ASSUME IInv, Crash
  PROVE  IInv'
<1> USE DEF IInv, TypeOK, Crash, Active
<1>1. TypeOK'
  <2>1. accepted' \in BOOLEAN /\ ctxDone' \in BOOLEAN
    BY Zenon
  <2>2. crashes' \in 0..MaxCrashes /\ errCh' \in 0..1
    BY StagingAssumption
  <2>3. pc' \in [Requests -> PCs]
    BY DEF PCs, Ended
  <2> QED
    BY <2>1, <2>2, <2>3
<1>2. NeverHalfWritten'
  BY DEF NeverHalfWritten
<1>3. TempCleanedUp'
  BY DEF TempCleanedUp, Ended
<1>4. WholeWhenLate'
  BY DEF WholeWhenLate, Late, Ended
<1>5. DumpNamed' /\ ReportNamed'
  BY DEF DumpNamed, ReportNamed, Requests, Ended
<1>6. NotThereBefore'
  BY DEF NotThereBefore, Before, Ended
<1> QED
  BY <1>1, <1>2, <1>3, <1>4, <1>5, <1>6

LEMMA StepPreserves == IInv /\ [Next]_vars => IInv'
<1> SUFFICES ASSUME IInv, [Next]_vars PROVE IInv'
  OBVIOUS
<1>1. ASSUME NEW r \in Requests, Arrive(r) \/ Handle(r) PROVE IInv'
  <2>1. CASE Decode(r) \/ Mkdir(r)
    BY <2>1, NamingStep
  <2>2. CASE Rename(r)
    BY <2>2, RenameStep
  <2>3. CASE ~(Decode(r) \/ Mkdir(r) \/ Rename(r))
    <3>1. UNCHANGED file
      BY <1>1, <2>3
         DEF Handle, Reject, MkdirFails, CreateTemp, CreateFails, Write,
             WriteFails, Close, Chmod, LateCallFails, Cleanup, Notify,
             Respond, Arrive
    <3> QED
      BY <1>1, <2>3, <3>1, QuietStep DEF Handle
  <2> QED
    BY <2>1, <2>2, <2>3
<1>2. CASE Listens \/ ListenReturns \/ SendsError \/ Serve \/ CtxEnds
  BY <1>2, ServeStep
<1>3. CASE Crash
  BY <1>3, CrashStep
<1>4. CASE UNCHANGED vars
  BY <1>4 DEF vars, handlerVars, serveVars, IInv, TypeOK, NeverHalfWritten,
              TempCleanedUp, WholeWhenLate, DumpNamed, ReportNamed,
              NotThereBefore
<1> QED
  BY <1>1, <1>2, <1>3, <1>4 DEF Next

LEMMA Invariance == Spec => []IInv
  BY InitEstablishes, StepPreserves, PTL DEF Spec

-----------------------------------------------------------------------------

\* The variables keep their types; errCh never holds more than its capacity.
THEOREM TypeCorrect == Spec => []TypeOK
<1>1. IInv => TypeOK
  BY DEF IInv
<1> QED
  BY <1>1, Invariance, PTL

\* A reader of the staging directory only ever finds whole files, each of
\* them sent for the path it is at: WriteFileAtomic.
THEOREM FilesAreWhole == Spec => []NeverHalfWritten
<1>1. IInv => NeverHalfWritten
  BY DEF IInv
<1> QED
  BY <1>1, Invariance, PTL

\* No handler that has answered leaves a temporary file that could have been
\* removed: the error paths of WriteFileAtomic.
THEOREM NoTempFileLeft == Spec => []TempCleanedUp
<1>1. IInv => TempCleanedUp
  BY DEF IInv
<1> QED
  BY <1>1, Invariance, PTL

-----------------------------------------------------------------------------
(* Refinement. *)

LEMMA ShelfInit == Init => Shelf!Init
  BY DEF Init, Shelf!Init, StageOf

Stages == [r \in Requests |-> StageOf(r)]

\* A handler's step moves the stage of its own request only.
LEMMA OwnStage ==
  ASSUME TypeOK, NEW r \in Requests, NEW to, pc' = [pc EXCEPT ![r] = to]
  PROVE  Stages' = [Stages EXCEPT ![r] = StageOf(r)']
  BY DEF TypeOK, Stages, StageOf

LEMMA HandlerRefines ==
  ASSUME IInv, NEW r \in Requests, Arrive(r) \/ Handle(r)
  PROVE  Shelf!Next \/ UNCHANGED Shelf!vars
<1> USE DEF IInv
<1>1. CASE Rename(r)
  <2>1. path[r] \in Paths /\ tmp[r] = "whole"
    BY <1>1 DEF Rename, Goes, WholeWhenLate, Late, DumpNamed, ReportNamed, Requests
  <2>2. StageOf(r) = "pending" /\ StageOf(r)' = "put"
    BY <1>1, StagingAssumption DEF Rename, Goes, StageOf, TypeOK, Requests
  <2>3. Stages' = [Stages EXCEPT ![r] = "put"]
    BY <1>1, <2>2, OwnStage DEF Rename, Goes
  <2>4. Shelf!Put(r, path[r])
    BY <1>1, <2>1, <2>2, <2>3
       DEF Rename, Shelf!Put, Shelf!Moves, Stages
  <2> QED
    BY <2>1, <2>4 DEF Shelf!Next
<1>2. CASE Notify(r)
  <2>1. r \in Probes \/ r \in Reports
    BY DEF Requests
  <2>2. CASE r \in Reports
    <3>1. StageOf(r)' = "put" /\ StageOf(r) = "put"
      BY <1>2, <2>2, StagingAssumption DEF Notify, Goes, StageOf, TypeOK
    <3>2. Stages' = Stages
      BY <1>2, <3>1, OwnStage DEF Notify, Goes, Stages
    <3> QED
      BY <1>2, <3>2 DEF Notify, Shelf!vars, Stages
  <2>3. CASE r \in Probes
    <3>1. StageOf(r)' = "told" /\ StageOf(r) = "put"
      BY <1>2, <2>3 DEF Notify, Goes, StageOf, TypeOK
    <3>2. Stages' = [Stages EXCEPT ![r] = "told"]
      BY <1>2, <3>1, OwnStage DEF Notify, Goes
    <3>3. Shelf!Announce(r)
      BY <1>2, <2>3, <3>1, <3>2
         DEF Notify, Shelf!Announce, Shelf!Moves, Stages
    <3> QED
      BY <3>3 DEF Shelf!Next
  <2> QED
    BY <2>1, <2>2, <2>3
<1>3. CASE Respond(r)
  <2>1. StageOf(r) = (IF r \in Probes THEN "told" ELSE "put") /\ StageOf(r)' = "acked"
    BY <1>3 DEF Respond, Goes, StageOf, TypeOK
  <2>2. Stages' = [Stages EXCEPT ![r] = "acked"]
    BY <1>3, <2>1, OwnStage DEF Respond, Goes
  <2>3. Shelf!Ack(r)
    BY <1>3, <2>1, <2>2 DEF Respond, Shelf!Ack, Shelf!Moves, Stages
  <2> QED
    BY <2>3 DEF Shelf!Next
<1>4. CASE Reject(r) \/ MkdirFails(r) \/ CreateFails(r) \/ Cleanup(r)
  <2>1. UNCHANGED file /\ pc' = [pc EXCEPT ![r] = "error"]
    BY <1>4 DEF Reject, MkdirFails, CreateFails, Cleanup, Goes
  <2>2. StageOf(r) = "pending" /\ StageOf(r)' = "refused"
    BY <1>4, <2>1
       DEF Reject, MkdirFails, CreateFails, Cleanup, Goes, StageOf, TypeOK
  <2>3. Stages' = [Stages EXCEPT ![r] = "refused"]
    BY <2>1, <2>2, OwnStage
  <2>4. Shelf!Refuse(r)
    BY <2>1, <2>2, <2>3 DEF Shelf!Refuse, Shelf!Moves, Stages
  <2> QED
    BY <2>4 DEF Shelf!Next
<1>5. CASE \/ Arrive(r) \/ Decode(r) \/ Mkdir(r) \/ CreateTemp(r) \/ Write(r)
           \/ WriteFails(r) \/ Close(r) \/ Chmod(r) \/ LateCallFails(r)
  <2>1. PICK to \in PCs : /\ pc' = [pc EXCEPT ![r] = to]
                          /\ to \in Before \ {"error"}
                          /\ pc[r] \in Before \ {"error"}
                          /\ UNCHANGED file
    BY <1>5 DEF Arrive, Decode, Mkdir, CreateTemp, Write, WriteFails, Close,
                Chmod, LateCallFails, Goes, PCs, Before
  <2>2. StageOf(r)' = "pending" /\ StageOf(r) = "pending"
    BY <2>1 DEF StageOf, TypeOK, Before
  <2>3. Stages' = Stages
    BY <2>1, <2>2, OwnStage DEF Stages
  <2> QED
    BY <2>1, <2>3 DEF Shelf!vars, Stages
<1> QED
  BY <1>1, <1>2, <1>3, <1>4, <1>5 DEF Handle

LEMMA CrashRefines ==
  ASSUME IInv, Crash
  PROVE  Shelf!Next
<1> DEFINE lost == {r \in Requests : Active(r)}
<1>1. \A r \in Requests : Active(r) => StageOf(r) \in {"pending", "put", "told"}
  BY DEF IInv, TypeOK, Active, StageOf, Ended
<1>2. \A r \in Requests : StageOf(r)' = IF r \in lost THEN "lost" ELSE StageOf(r)
  BY DEF Crash, IInv, TypeOK, Active, StageOf, Ended
<1>3. Shelf!Die
  BY <1>1, <1>2 DEF Shelf!Die, Crash
<1> QED
  BY <1>3 DEF Shelf!Next

\* The handlers implement the shelf: every write of a file is one step to a
\* reader, announcements and 200s follow it, errors leave the files alone.
THEOREM ShelfRefinement == Spec => ImplementsShelf
<1>1. IInv /\ [Next]_vars => [Shelf!Next]_(Shelf!vars)
  <2> SUFFICES ASSUME IInv, [Next]_vars
               PROVE  Shelf!Next \/ UNCHANGED Shelf!vars
    OBVIOUS
  <2>1. ASSUME NEW r \in Requests, Arrive(r) \/ Handle(r)
        PROVE  Shelf!Next \/ UNCHANGED Shelf!vars
    BY <2>1, HandlerRefines
  <2>2. CASE \/ Listens \/ ListenReturns \/ SendsError \/ Serve \/ CtxEnds
             \/ UNCHANGED vars
    BY <2>2, ServeStep DEF handlerVars, vars, Shelf!vars, StageOf
  <2>3. CASE Crash
    BY <2>3, CrashRefines
  <2> QED
    BY <2>1, <2>2, <2>3 DEF Next
<1> QED
  BY <1>1, ShelfInit, Invariance, PTL DEF Spec, ImplementsShelf, Shelf!Spec

=============================================================================
