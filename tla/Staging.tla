------------------------------- MODULE Staging -------------------------------
(***************************************************************************)
(* The LAN receiver of probe dumps and probe-run reports: the handlers of  *)
(* auv3/receiver.go, and Serve and WriteFileAtomic of                      *)
(* internal/lanhttp/lanhttp.go.                                            *)
(*                                                                         *)
(* Every request r has a goroutine of its own; pc[r] is the call it makes  *)
(* next.  Requests meet only in the file system: two dumps with the same   *)
(* id are renamed to the same path, two reports named at the same reading  *)
(* of the clock too.  Each call into the file system is a step and may     *)
(* fail.  The process may end at any step (killed, or because its main     *)
(* function returns once Serve has) and be started again: files stay as    *)
(* they are, goroutines do not.  A loss of power is not modelled.          *)
(***************************************************************************)
EXTENDS Naturals

CONSTANTS Probes,     \* the requests POST /auv3-probe
          Reports,    \* the requests POST /auv3-probe/diagnostics
          Ids,        \* ids of dumps, hence paths of their files
          Stamps,     \* readings of the clock, hence paths of reports
          NoPath,     \* the request has not named its file
          NoFile,     \* there is no file at a path
          Half,       \* a file that is not what any request sent
          MaxCrashes  \* bound: how often the process ends

Requests == Probes \union Reports
Paths == Ids \union Stamps

ASSUME StagingAssumption == /\ Probes \intersect Reports = {}
                            /\ Ids \intersect Stamps = {}
                            /\ NoPath \notin Paths
                            /\ NoFile \notin Requests
                            /\ Half \notin Requests \union {NoFile}
                            /\ MaxCrashes \in Nat

VARIABLES
  pc,        \* the next call of a request's handler, or how it ended
  path,      \* the file the request names
  tmp,       \* its temporary file: "none", "partial" or "whole"
  file,      \* the files at the paths: NoFile, Half or whose they are
  stuck,     \* history: temporary files that could not be removed
  serve,     \* Serve: "serving", "draining" or "returned"
  listener,  \* the goroutine of Serve that runs ListenAndServe
  errCh,     \* how many values errCh holds (its capacity is 1)
  accepted,  \* the server has connections it may read requests from
  ctxDone,   \* the ctx of Serve has ended
  crashes

handlerVars == <<pc, path, tmp, file, stuck>>
serveVars == <<serve, listener, errCh, accepted, ctxDone>>
vars == <<handlerVars, serveVars, crashes>>

Ended == {"ok", "error", "killed"}
PCs == {"waiting", "decode", "mkdir", "create", "write", "close", "chmod",
        "rename", "remove", "notify", "respond"} \union Ended

Active(r) == pc[r] \notin {"waiting"} \union Ended

Init == /\ pc = [r \in Requests |-> "waiting"]
        /\ path = [r \in Requests |-> NoPath]
        /\ tmp = [r \in Requests |-> "none"]
        /\ file = [p \in Paths |-> NoFile]
        /\ stuck = {}
        /\ serve = "serving"
        /\ listener = "starting"
        /\ errCh = 0
        /\ accepted = FALSE
        /\ ctxDone = FALSE
        /\ crashes = 0

-----------------------------------------------------------------------------
(* handleProbe and handleDiagnostics.  A definition whose comment begins    *)
(* with "Variant:" is the next definition with a bug in it; nothing uses    *)
(* it, it is there to show that a property would notice.                    *)

Goes(r, from, to) == /\ pc[r] = from
                     /\ pc' = [pc EXCEPT ![r] = to]
                     /\ UNCHANGED <<serveVars, crashes>>

\* The server reads a request; its handler starts.
Arrive(r) == /\ accepted
             /\ Goes(r, "waiting", "decode")
             /\ UNCHANGED <<path, tmp, file, stuck>>

\* Not a POST, a body that is too large or does not decode, a dump without an
\* id, a value that cannot be encoded again: an error status.
Reject(r) == /\ Goes(r, "decode", "error")
             /\ UNCHANGED <<path, tmp, file, stuck>>

\* A dump has its id once it is decoded.
Decode(r) == /\ Goes(r, "decode", "mkdir")
             /\ path' \in IF r \in Probes
                          THEN {[path EXCEPT ![r] = id] : id \in Ids}
                          ELSE {path}
             /\ UNCHANGED <<tmp, file, stuck>>

\* os.MkdirAll; a report reads the clock next, which may stand still between
\* two readings, or be set back.
Mkdir(r) == /\ Goes(r, "mkdir", "create")
            /\ path' \in IF r \in Reports
                         THEN {[path EXCEPT ![r] = t] : t \in Stamps}
                         ELSE {path}
            /\ UNCHANGED <<tmp, file, stuck>>

MkdirFails(r) == /\ Goes(r, "mkdir", "error")
                 /\ UNCHANGED <<path, tmp, file, stuck>>

-----------------------------------------------------------------------------
(* WriteFileAtomic. *)

\* os.CreateTemp: an empty file under a name nobody else has.
CreateTemp(r) == /\ Goes(r, "create", "write")
                 /\ tmp' = [tmp EXCEPT ![r] = "partial"]
                 /\ UNCHANGED <<path, file, stuck>>

CreateFails(r) == /\ Goes(r, "create", "error")
                  /\ UNCHANGED <<path, tmp, file, stuck>>

Write(r) == /\ Goes(r, "write", "close")
            /\ tmp' = [tmp EXCEPT ![r] = "whole"]
            /\ UNCHANGED <<path, file, stuck>>

\* Variant: a short write is not noticed.
ShortWrite(r) == /\ Goes(r, "write", "close")
                 /\ UNCHANGED <<path, tmp, file, stuck>>

\* tmp.Write fails half way (a full disk, say); the file is closed all the
\* same.
WriteFails(r) == /\ Goes(r, "write", "remove")
                 /\ UNCHANGED <<path, tmp, file, stuck>>

Close(r) == /\ Goes(r, "close", "chmod")
            /\ UNCHANGED <<path, tmp, file, stuck>>

Chmod(r) == /\ Goes(r, "chmod", "rename")
            /\ UNCHANGED <<path, tmp, file, stuck>>

\* Variant: returns the error without the cleanup.
LateCallForgets(r) == /\ \E call \in {"close", "chmod", "rename"} :
                           Goes(r, call, "error")
                      /\ UNCHANGED <<path, tmp, file, stuck>>

\* Close, Chmod or Rename fails.
LateCallFails(r) == /\ \E call \in {"close", "chmod", "rename"} :
                         Goes(r, call, "remove")
                    /\ UNCHANGED <<path, tmp, file, stuck>>

\* Variant: answers before it calls onStaged.
RenameUntold(r) ==
  /\ Goes(r, "rename", "respond")
  /\ file' = [file EXCEPT ![path[r]] = IF tmp[r] = "whole" THEN r ELSE Half]
  /\ tmp' = [tmp EXCEPT ![r] = "none"]
  /\ UNCHANGED <<path, stuck>>

\* os.Rename replaces whatever was at the path.
Rename(r) ==
  /\ Goes(r, "rename", IF r \in Probes THEN "notify" ELSE "respond")
  /\ file' = [file EXCEPT ![path[r]] = IF tmp[r] = "whole" THEN r ELSE Half]
  /\ tmp' = [tmp EXCEPT ![r] = "none"]
  /\ UNCHANGED <<path, stuck>>

\* cleanup ignores the result of os.Remove.
Cleanup(r) == /\ Goes(r, "remove", "error")
              /\ \/ tmp' = [tmp EXCEPT ![r] = "none"] /\ UNCHANGED stuck
                 \/ stuck' = stuck \union {r} /\ UNCHANGED tmp
              /\ UNCHANGED <<path, file>>

-----------------------------------------------------------------------------

\* onStaged, called by the handler of a dump once its file is in place.
Notify(r) == /\ Goes(r, "notify", "respond")
             /\ UNCHANGED <<path, tmp, file, stuck>>

\* The result is encoded as the response, status 200.
Respond(r) == /\ Goes(r, "respond", "ok")
              /\ UNCHANGED <<path, tmp, file, stuck>>

Handle(r) == \/ Reject(r) \/ Decode(r) \/ Mkdir(r) \/ MkdirFails(r)
             \/ CreateTemp(r) \/ CreateFails(r) \/ Write(r) \/ WriteFails(r)
             \/ Close(r) \/ Chmod(r) \/ LateCallFails(r)
             \/ Rename(r) \/ Cleanup(r)
             \/ Notify(r) \/ Respond(r)

-----------------------------------------------------------------------------
(* Serve: the goroutine of ListenAndServe, then the select. *)

\* srv.Shutdown has been called.
ShuttingDown == ctxDone /\ serve \in {"draining", "returned"}

Listens == /\ listener = "starting"
           /\ ~ShuttingDown
           /\ listener' = "accepting"
           /\ accepted' = TRUE
           /\ UNCHANGED <<handlerVars, serve, errCh, ctxDone, crashes>>

\* ListenAndServe returns: the address cannot be bound, Accept fails for good,
\* or Shutdown was called (ErrServerClosed, sent on as nil).
ListenReturns == /\ listener \in {"starting", "accepting"}
                 /\ listener' = "sending"
                 /\ UNCHANGED <<handlerVars, serve, errCh, accepted, ctxDone,
                                crashes>>

\* Variant: errCh has no buffer, so that the send waits for the select.
SendsUnbuffered == /\ listener = "sending"
                   /\ serve = "serving"
                   /\ errCh = 0
                   /\ errCh' = errCh + 1
                   /\ listener' = "ended"
                   /\ UNCHANGED <<handlerVars, serve, accepted, ctxDone, crashes>>

\* Variant: the return after errCh <- err is missing, and the channel grows.
SendsTwice == /\ listener = "sending"
              /\ errCh' = errCh + 2
              /\ listener' = "ended"
              /\ UNCHANGED <<handlerVars, serve, accepted, ctxDone, crashes>>

\* errCh <- err, and the goroutine ends.
SendsError == /\ listener = "sending"
              /\ errCh = 0
              /\ errCh' = errCh + 1
              /\ listener' = "ended"
              /\ UNCHANGED <<handlerVars, serve, accepted, ctxDone, crashes>>

\* The branch of the select that receives from errCh.  Handlers in progress,
\* and the connections they came on, are left to themselves.
ServeFails == /\ serve = "serving"
              /\ errCh > 0
              /\ errCh' = errCh - 1
              /\ serve' = "returned"
              /\ UNCHANGED <<handlerVars, listener, accepted, ctxDone, crashes>>

\* The branch of ctx.Done(): Shutdown begins.
ServeCancelled == /\ serve = "serving"
                  /\ ctxDone
                  /\ serve' = "draining"
                  /\ UNCHANGED <<handlerVars, listener, errCh, accepted,
                                 ctxDone, crashes>>

\* Every connection is idle and gets closed, Serve returns ctx.Err().
Drained == /\ serve = "draining"
           /\ \A r \in Requests : ~Active(r)
           /\ accepted' = FALSE
           /\ serve' = "returned"
           /\ UNCHANGED <<handlerVars, listener, errCh, ctxDone, crashes>>

\* Five seconds are over with handlers still at work: Serve returns.
DrainExpires == /\ serve = "draining"
                /\ serve' = "returned"
                /\ UNCHANGED <<handlerVars, listener, errCh, accepted, ctxDone,
                               crashes>>

CtxEnds == /\ ~ctxDone
           /\ ctxDone' = TRUE
           /\ UNCHANGED <<handlerVars, serve, listener, errCh, accepted, crashes>>

\* The process ends and is started again.
Crash == /\ crashes < MaxCrashes
         /\ crashes' = crashes + 1
         /\ pc' = [r \in Requests |-> IF Active(r) THEN "killed" ELSE pc[r]]
         /\ serve' = "serving"
         /\ listener' = "starting"
         /\ errCh' = 0
         /\ accepted' = FALSE
         /\ ctxDone' = FALSE
         /\ UNCHANGED <<path, tmp, file, stuck>>

Serve == \/ ServeFails \/ ServeCancelled \/ Drained \/ DrainExpires

Next == \/ \E r \in Requests : Arrive(r) \/ Handle(r)
        \/ Listens \/ ListenReturns \/ SendsError
        \/ Serve \/ CtxEnds \/ Crash

Spec == Init /\ [][Next]_vars

\* The goroutines of Serve that can run do run, and the timer of five seconds
\* fires.  ListenAndServe notices a Shutdown.  Nobody has to send a request or
\* to end the ctx, and a handler may hang in the file system.
Fairness == /\ WF_vars(SendsError)
            /\ WF_vars(Serve)
            /\ WF_vars(ShuttingDown /\ ListenReturns)

FairSpec == Spec /\ Fairness

-----------------------------------------------------------------------------
(* Properties. *)

\* The types of the variables.
TypeOK == /\ pc \in [Requests -> PCs]
          /\ path \in [Requests -> Paths \union {NoPath}]
          /\ tmp \in [Requests -> {"none", "partial", "whole"}]
          /\ file \in [Paths -> Requests \union {NoFile, Half}]
          /\ stuck \subseteq Requests
          /\ serve \in {"serving", "draining", "returned"}
          /\ listener \in {"starting", "accepting", "sending", "ended"}
          /\ errCh \in 0..1
          /\ accepted \in BOOLEAN
          /\ ctxDone \in BOOLEAN
          /\ crashes \in 0..MaxCrashes

\* WriteFileAtomic: "a concurrent reader (or a second write for the same path)
\* never observes a half-written file".  At every step of every interleaving,
\* and after the process has ended at any step, what is at a path is whole and
\* was sent for that path.
NeverHalfWritten ==
  \A p \in Paths : file[p] # NoFile =>
    \E r \in Requests : file[p] = r /\ path[r] = p

\* WriteFileAtomic: "The temp file is cleaned up on error".  A handler that has
\* answered, with whatever status, leaves no temporary file behind, unless it
\* was os.Remove that failed; only a process that ended leaves others.
TempCleanedUp ==
  \A r \in Requests : tmp[r] # "none" =>
    \/ pc[r] \in {"write", "close", "chmod", "rename", "remove", "killed"}
    \/ r \in stuck

\* The shelf, under the refinement mapping.
StageOf(r) == CASE pc[r] = "ok" -> "acked"
                [] pc[r] = "error" -> "refused"
                [] pc[r] = "killed" -> "lost"
                [] pc[r] = "notify" -> "put"
                [] pc[r] = "respond" -> IF r \in Probes THEN "told" ELSE "put"
                [] OTHER -> "pending"

Shelf == INSTANCE AtomicShelf WITH
           Posts <- Requests,
           Announced <- Probes,
           Nothing <- NoFile,
           shelf <- file,
           stage <- [r \in Requests |-> StageOf(r)]

\* The receiver implements the shelf: the file changes in one step, at which
\* the request is no longer pending; a dump is announced and a 200 is sent
\* only after that; an error status means that the request changed nothing.
ImplementsShelf == Shelf!Spec

\* Serve: when the ctx ends Serve returns and its ListenAndServe goroutine
\* ends, whoever wins the select and even if a handler never returns (unless
\* the process itself ends first).
ServeWindsUp == ctxDone ~> \/ serve = "returned" /\ listener = "ended"
                           \/ ~ctxDone

=============================================================================
