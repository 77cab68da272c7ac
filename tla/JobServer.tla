----------------------------- MODULE JobServer -----------------------------
(***************************************************************************)
(* The threads that share the registry in drex_server.py: the endpoints    *)
(* POST /api/sanitization/execute, POST /api/recovery/scan,                *)
(* POST /api/jobs/{id}/cancel and POST /api/certificates/generate, the     *)
(* workers the first two start (inline or on the thread pool), and the     *)
(* crash of the process followed by its startup reconciliation.            *)
(*                                                                         *)
(* A step is one critical section of the registry, or one step outside it: *)
(* a check of the token, a unit of work on the target, an audit append.    *)
(* Everything between two steps may be interleaved with the other threads. *)
(***************************************************************************)
EXTENDS JobRegistry, Sequences, FiniteSets

CONSTANTS
  Requests,    \* the requests clients may send
  NoRequest,   \* the request of a job that was never submitted
  PoolSize,    \* max_workers of the thread pool
  MaxUnits,    \* bound: units of work (chunks, candidates) of one operation
  MaxCrashes   \* bound: crashes of the process

\* op: which endpoint; async: async_execution; case: the case it is bound to.
ASSUME RequestsAssumption ==
  /\ Requests \subseteq [op: {"SANITIZATION_EXECUTE", "RECOVERY_SCAN"},
                         async: BOOLEAN, target: Targets, case: STRING]
  /\ NoRequest \notin Requests
ASSUME BoundsAssumption ==
  /\ PoolSize \in Nat \ {0}
  /\ MaxUnits \in Nat
  /\ MaxCrashes \in Nat

VARIABLES
  req,       \* the request each job was submitted with
  pc,        \* where the thread of the job is
  left,      \* units of work its engine still has to do
  readback,  \* what the engine found when it read the target back
  cert,      \* does a certificate attest exact readback for the job?
  pool,      \* jobs submitted to the thread pool and not yet started
  up,        \* is the process running?
  crashes    \* crashes so far

workVars == <<left, readback>>
vars == <<registryVars, req, pc, workVars, cert, pool, up, crashes>>

-----------------------------------------------------------------------------
(* Control points *)

Endpoint  == {"none", "checked", "locked", "registered", "submitted"}
SanWorker == {"san_token", "san_status", "san_run", "writing", "progress",
              "report", "san_final", "san_verify", "san_audit",
              "san_complete", "san_precancel", "san_cancel", "san_auditcancel"}
RecWorker == {"rec_run", "rec_token", "reading", "rec_scan", "rec_token2",
              "carving", "rec_validate", "rec_candidates", "rec_seal", "rec_audit",
              "rec_complete", "rec_cancel"}
Worker    == SanWorker \cup RecWorker \cup {"failing", "release"}
\* rejected: refused before a record exists; broken: the endpoint raised after
\* that and started no worker; dead: the process crashed under the thread.
Stopped   == {"rejected", "broken", "done", "dead"}
Control   == Endpoint \cup Worker \cup Stopped

\* A job with a thread that will still act for it.
Live(j) == pc[j] \notin {"none"} \cup Stopped

\* The worker is inside the part of its run that touches the target.
UsesTarget(j) == pc[j] \in {"writing", "progress", "report", "reading", "carving"}

Goto(j, to) == pc' = [pc EXCEPT ![j] = to]
At(j, from) == up /\ pc[j] = from

\* A job that is not submitted yet has a fingerprint that equals no other's.
Fingerprint ==
  [j \in Jobs |-> IF req[j] = NoRequest THEN <<j>>
                  ELSE <<req[j].case, req[j].op, req[j].target>>]

\* A worker of the thread pool (a synchronous run uses the endpoint's thread).
OnPool(j) == req[j] # NoRequest /\ req[j].async /\ pc[j] \in Worker

UnchangedButPc == UNCHANGED <<req, workVars, cert, pool, up, crashes>>

-----------------------------------------------------------------------------
(* Submission: execute_sanitization and launch_recovery_scan *)

\* The fingerprint check.  It is a critical section of its own: another
\* request may be served before the lock is taken.
Submit(j, r) ==
  /\ At(j, "none")
  /\ req' = [req EXCEPT ![j] = r]
  /\ Goto(j, IF ActiveTwin(j, [Fingerprint EXCEPT ![j] = <<r.case, r.op, r.target>>])
             THEN "rejected" ELSE "checked")
  /\ UNCHANGED <<registryVars, workVars, cert, pool, up, crashes>>

TakeLock(j) ==
  /\ At(j, "checked")
  /\ \/ AcquireTargetLock(req[j].target, j) /\ Goto(j, "locked")
     \/ /\ ~CanAcquire(req[j].target, j)
        /\ Goto(j, "rejected")
        /\ UNCHANGED registryVars
  /\ UnchangedButPc

\* register_job, then what the endpoint does next: a scan goes to the pool at
\* once, an asynchronous sanitization is first marked QUEUED again, a
\* synchronous one runs on the endpoint's thread.
Register(j) ==
  /\ At(j, "locked")
  /\ \E ok \in BOOLEAN :
       /\ CreateJob(j, ok)
       /\ Goto(j, CASE ~ok -> "broken"
                    [] req[j].op = "RECOVERY_SCAN" -> "submitted"
                    [] req[j].async -> "registered"
                    [] OTHER -> "san_token")
       /\ pool' = IF ok /\ req[j].op = "RECOVERY_SCAN" THEN Append(pool, j) ELSE pool
  /\ UNCHANGED <<req, workVars, cert, up, crashes>>

\* Mutant: the worker is marked queued but never handed to the pool.
QueueWithoutSubmit(j) ==
  /\ At(j, "registered")
  /\ \E ok \in BOOLEAN :
       /\ UpdateJob(j, Update("QUEUED", Keep), ok)
       /\ Goto(j, IF ok THEN "submitted" ELSE "broken")
  /\ UNCHANGED <<tokens, req, workVars, cert, pool, up, crashes>>

\* update_job(QUEUED) raises when the job was cancelled in the meantime; the
\* worker is then never submitted.
QueueAsync(j) ==
  /\ At(j, "registered")
  /\ \E ok \in BOOLEAN :
       /\ UpdateJob(j, Update("QUEUED", Keep), ok)
       /\ Goto(j, IF ok THEN "submitted" ELSE "broken")
       /\ pool' = IF ok THEN Append(pool, j) ELSE pool
  /\ UNCHANGED <<tokens, req, workVars, cert, up, crashes>>

\* The thread pool starts the oldest submission when a thread is free.
StartWorker(j) ==
  /\ At(j, "submitted")
  /\ pool # <<>> /\ Head(pool) = j
  /\ Cardinality({k \in Jobs : OnPool(k)}) < PoolSize
  /\ pool' = Tail(pool)
  /\ Goto(j, IF req[j].op = "RECOVERY_SCAN" THEN "rec_run" ELSE "san_token")
  /\ UNCHANGED <<registryVars, req, workVars, cert, up, crashes>>

-----------------------------------------------------------------------------
(* Steps both workers are made of *)

\* One call of update_job: the next control point when it returns, and the
\* handler of "except Exception" when it raises.
UpdateStep(j, from, s, v, to, raised) ==
  /\ At(j, from)
  /\ \E ok \in BOOLEAN :
       /\ UpdateJob(j, Update(s, v), ok)
       /\ Goto(j, IF ok THEN to ELSE raised)
  /\ UNCHANGED tokens
  /\ UnchangedButPc

\* One look at the cancellation token.
TokenStep(j, from, cancelled, to) ==
  /\ At(j, from)
  /\ Goto(j, IF tokens[j] THEN cancelled ELSE to)
  /\ UNCHANGED registryVars
  /\ UnchangedButPc

\* One _append_audit_event, whose exceptions are swallowed.  What it does to
\* the files of the case is in CaseLedger; here other threads may come first.
AuditStep(j, from, to) ==
  /\ At(j, from)
  /\ Goto(j, to)
  /\ UNCHANGED registryVars
  /\ UnchangedButPc

CancelSeen(j) == tokens[j] \/ View(j).status \in {"CANCELLING", "CANCELLED"}

\* except Exception: FAILED, whatever that update does.
Fail(j) ==
  UpdateStep(j, "failing", "FAILED", Keep, "release", "release")

\* finally: release_target_lock.
Release(j) ==
  /\ At(j, "release")
  /\ ReleaseTargetLock(req[j].target, j)
  /\ Goto(j, "done")
  /\ UnchangedButPc

-----------------------------------------------------------------------------
(* The sanitization worker: _execute_worker *)

SanToken(j) == TokenStep(j, "san_token", "san_precancel", "san_status")

SanStatus(j) ==
  /\ At(j, "san_status")
  /\ Goto(j, IF View(j).status \in {"CANCELLING", "CANCELLED"}
             THEN "san_precancel" ELSE "san_run")
  /\ UNCHANGED registryVars
  /\ UnchangedButPc

SanPrecancel(j) ==
  UpdateStep(j, "san_precancel", "CANCELLED", "UNVERIFIED", "release", "failing")

\* Mutant: a refused transition to RUNNING is swallowed.
SanRunRegardless(j) ==
  /\ At(j, "san_run")
  /\ \E ok \in BOOLEAN : UpdateJob(j, Update("RUNNING", "PENDING"), ok)
  /\ Goto(j, "writing")
  /\ left' = [left EXCEPT ![j] = MaxUnits]
  /\ UNCHANGED <<tokens, req, readback, cert, pool, up, crashes>>

SanRun(j) ==
  /\ At(j, "san_run")
  /\ \E ok \in BOOLEAN :
       /\ UpdateJob(j, Update("RUNNING", "PENDING"), ok)
       /\ Goto(j, IF ok THEN "writing" ELSE "failing")
  /\ left' = [left EXCEPT ![j] = MaxUnits]
  /\ UNCHANGED <<tokens, req, readback, cert, pool, up, crashes>>

\* The engine overwrites one chunk and calls on_progress.
Overwrite(j) ==
  /\ At(j, "writing") /\ left[j] > 0
  /\ left' = [left EXCEPT ![j] = @ - 1]
  /\ Goto(j, "progress")
  /\ UNCHANGED <<registryVars, req, readback, cert, pool, up, crashes>>

\* on_progress looks at the token and the status ...
CheckProgress(j) ==
  /\ At(j, "progress")
  /\ Goto(j, IF CancelSeen(j) THEN "writing" ELSE "report")
  /\ UNCHANGED registryVars
  /\ UnchangedButPc

\* ... and only then updates the job, swallowing the exception.
ReportProgress(j) ==
  UpdateStep(j, "report", "RUNNING",
             IF left[j] > 0 THEN "PENDING" ELSE "IN_PROGRESS", "writing", "writing")

\* The engine returns: at the end of its work, or early once the token is set.
\* Its verdict, PASS or FAIL, only goes into the result payload.
Executed(j) ==
  /\ At(j, "writing")
  /\ left[j] = 0 \/ tokens[j]
  /\ \E v \in {"PASS", "FAIL"} : readback' = [readback EXCEPT ![j] = v]
  /\ Goto(j, "san_final")
  /\ UNCHANGED <<registryVars, req, left, cert, pool, up, crashes>>

\* The engine raises, or the target does not exist (HTTPException 404).
ExecutionRaises(j) ==
  /\ At(j, "writing")
  /\ Goto(j, "failing")
  /\ UNCHANGED registryVars
  /\ UnchangedButPc

\* The last look at the token and the status: the end is decided here.
SanFinal(j) ==
  /\ At(j, "san_final")
  /\ Goto(j, IF CancelSeen(j) THEN "san_cancel" ELSE "san_verify")
  /\ UNCHANGED registryVars
  /\ UnchangedButPc

SanVerify(j) ==
  UpdateStep(j, "san_verify", Keep, "VERIFYING", "san_audit", "failing")

SanAudit(j) == AuditStep(j, "san_audit", "san_complete")

SanComplete(j) ==
  UpdateStep(j, "san_complete", "COMPLETED", "VERIFIED", "release", "failing")

SanCancel(j) ==
  UpdateStep(j, "san_cancel", "CANCELLED", "UNVERIFIED", "san_auditcancel", "failing")

SanAuditCancel(j) == AuditStep(j, "san_auditcancel", "release")

-----------------------------------------------------------------------------
(* The recovery worker: run_scan_job *)

RecRun(j) ==
  UpdateStep(j, "rec_run", "RUNNING", "IN_PROGRESS", "rec_token", "failing")

\* A file is scanned in place; anything else goes to the engine's adapter.
RecToken(j) ==
  \/ TokenStep(j, "rec_token", "rec_cancel", "reading")
  \/ TokenStep(j, "rec_token", "rec_cancel", "carving")

\* The whole file is read before its size is reported; reading may raise.
RecRead(j) ==
  /\ At(j, "reading")
  /\ \E to \in {"rec_scan", "failing"} : Goto(j, to)
  /\ UNCHANGED registryVars
  /\ UnchangedButPc

RecScan(j) == UpdateStep(j, "rec_scan", Keep, Keep, "rec_token2", "failing")

RecToken2(j) == TokenStep(j, "rec_token2", "rec_cancel", "carving")

\* The carver or the adapter reads the target; it may raise.
Carve(j) ==
  /\ At(j, "carving")
  /\ \E n \in 0..MaxUnits : left' = [left EXCEPT ![j] = n]
  /\ \E to \in {"rec_validate", "failing"} : Goto(j, to)
  /\ UNCHANGED <<registryVars, req, readback, cert, pool, up, crashes>>

RecValidate(j) ==
  UpdateStep(j, "rec_validate", Keep, Keep, "rec_candidates", "failing")

\* One candidate: the token is looked at before each and once after the last;
\* storing one may raise.
RecCandidate(j) ==
  /\ At(j, "rec_candidates")
  /\ IF tokens[j] THEN Goto(j, "rec_cancel") /\ left' = left
     ELSE IF left[j] = 0 THEN Goto(j, "rec_seal") /\ left' = left
     ELSE /\ left' = [left EXCEPT ![j] = @ - 1]
          /\ \E to \in {"rec_candidates", "failing"} : Goto(j, to)
  /\ UNCHANGED <<registryVars, req, readback, cert, pool, up, crashes>>

RecSeal(j) == UpdateStep(j, "rec_seal", Keep, Keep, "rec_audit", "failing")

RecAudit(j) == AuditStep(j, "rec_audit", "rec_complete")

RecComplete(j) ==
  UpdateStep(j, "rec_complete", "COMPLETED", "VERIFIED", "release", "failing")

RecCancel(j) ==
  UpdateStep(j, "rec_cancel", "CANCELLED", "UNVERIFIED", "release", "failing")

-----------------------------------------------------------------------------
(* Other clients, crash and restart *)

Cancel(j) ==
  /\ up
  /\ CancelJob(j)
  /\ UNCHANGED <<req, pc, workVars, cert, pool, up, crashes>>

\* Mutant: the status of the job is not looked at.
GenerateUnchecked(j) ==
  /\ up
  /\ View(j).status \in Status
  /\ cert' = [cert EXCEPT ![j] = TRUE]
  /\ UNCHANGED <<registryVars, req, pc, workVars, pool, up, crashes>>

\* generate_certificate for a job: only a COMPLETED record qualifies.  The
\* payload update_job stores under "details" is looked for under "result",
\* where it never is, so exact readback is attested whatever it says.
GenerateCertificate(j) ==
  /\ up
  /\ View(j).status = "COMPLETED"
  /\ cert' = [cert EXCEPT ![j] = TRUE]
  /\ UNCHANGED <<registryVars, req, pc, workVars, pool, up, crashes>>

\* The process dies.  A direct write in progress leaves a truncated file.
Crash ==
  /\ up
  /\ crashes < MaxCrashes
  /\ crashes' = crashes + 1
  /\ up' = FALSE
  /\ \/ disk' = disk
     \/ /\ DiskFaults
        /\ \E j \in Jobs : /\ jobs[j].status \in Active
                           /\ disk' = [disk EXCEPT ![j] = Torn]
  /\ jobs' = [j \in Jobs |-> NoRecord]
  /\ locks' = [t \in Targets |-> NoOwner]
  /\ tokens' = [j \in Jobs |-> FALSE]
  /\ pc' = [j \in Jobs |-> IF Live(j) THEN "dead" ELSE pc[j]]
  /\ pool' = <<>>
  /\ left' = [j \in Jobs |-> 0]
  /\ UNCHANGED <<req, readback, cert>>

\* app_startup_reconciliation, before any request is served.
Restart ==
  /\ ~up
  /\ up' = TRUE
  /\ ReconcileStartup
  /\ UNCHANGED <<req, pc, workVars, cert, pool, crashes>>

-----------------------------------------------------------------------------

Init ==
  /\ RegistryInit
  /\ req = [j \in Jobs |-> NoRequest]
  /\ pc = [j \in Jobs |-> "none"]
  /\ left = [j \in Jobs |-> 0]
  /\ readback = [j \in Jobs |-> "NONE"]
  /\ cert = [j \in Jobs |-> FALSE]
  /\ pool = <<>>
  /\ up = TRUE
  /\ crashes = 0

EndpointStep(j) == TakeLock(j) \/ Register(j) \/ QueueAsync(j) \/ StartWorker(j)

SanStep(j) ==
  \/ SanToken(j) \/ SanStatus(j) \/ SanPrecancel(j) \/ SanRun(j)
  \/ Overwrite(j) \/ CheckProgress(j) \/ ReportProgress(j)
  \/ Executed(j) \/ ExecutionRaises(j)
  \/ SanFinal(j) \/ SanVerify(j) \/ SanAudit(j) \/ SanComplete(j)
  \/ SanCancel(j) \/ SanAuditCancel(j)

RecStep(j) ==
  \/ RecRun(j) \/ RecToken(j) \/ RecRead(j) \/ RecScan(j) \/ RecToken2(j) \/ Carve(j)
  \/ RecValidate(j) \/ RecCandidate(j) \/ RecSeal(j) \/ RecAudit(j)
  \/ RecComplete(j) \/ RecCancel(j)

ThreadStep(j) == EndpointStep(j) \/ SanStep(j) \/ RecStep(j) \/ Fail(j) \/ Release(j)

Next ==
  \/ \E j \in Jobs, r \in Requests : Submit(j, r)
  \/ \E j \in Jobs : ThreadStep(j) \/ Cancel(j) \/ GenerateCertificate(j)
  \/ Crash
  \/ Restart

Spec == Init /\ [][Next]_vars

\* Threads are scheduled and the process is started again; clients need not
\* submit or cancel anything, and nothing makes the process crash.
Fairness == (\A j \in Jobs : WF_vars(ThreadStep(j))) /\ WF_vars(Restart)

FairSpec == Spec /\ Fairness
-----------------------------------------------------------------------------
(* Properties *)

\* Every variable has its type.
TypeOK ==
  /\ RegistryTypeOK
  /\ req \in [Jobs -> Requests \cup {NoRequest}]
  /\ pc \in [Jobs -> Control]
  /\ left \in [Jobs -> 0..MaxUnits]
  /\ readback \in [Jobs -> {"NONE", "PASS", "FAIL"}]
  /\ cert \in [Jobs -> BOOLEAN]
  /\ pool \in Seq(Jobs)
  /\ up \in BOOLEAN
  /\ crashes \in 0..MaxCrashes

\* The parts of the invariant behind TargetExclusion.  A job id is unused
\* until its endpoint holds the lock; a live thread past that point has its
\* record in memory, so update_job judges it by that record; the endpoint
\* about to register and every active job with a thread own their target; and
\* a worker between its update to RUNNING and the end of its work on the
\* target has a job that is running or cancelling.
SubmittedHaveRequest == \A j \in Jobs : pc[j] # "none" => req[j] \in Requests
UnregisteredHaveNoRecord ==
  \A j \in Jobs : pc[j] \in {"none", "checked", "locked", "rejected"} =>
    jobs[j] = NoRecord /\ disk[j] = NoRecord
LiveHaveRecord ==
  \A j \in Jobs : (Live(j) /\ pc[j] \notin {"checked", "locked"}) => jobs[j] # NoRecord
RegisteringHoldsLock ==
  \A j \in Jobs : pc[j] = "locked" => locks[req[j].target] = j
ActiveHoldsLock ==
  \A j \in Jobs : (Live(j) /\ jobs[j].status \in Active) => locks[req[j].target] = j
UserRuns ==
  \A j \in Jobs :
    pc[j] \in {"writing", "progress", "report",
              "rec_token", "reading", "rec_scan", "rec_token2", "carving"} =>
      jobs[j].status \in {"RUNNING", "CANCELLING"}

ExclusionInv ==
  /\ TypeOK
  /\ SubmittedHaveRequest
  /\ UnregisteredHaveNoRecord
  /\ LiveHaveRecord
  /\ RegisteringHoldsLock
  /\ ActiveHoldsLock
  /\ UserRuns

\* No two workers are ever in the part of their run that touches the same
\* target: not when a queued job is cancelled and its lock is taken over
\* before its worker has noticed, and not when writes fail or the process
\* restarts.  (The target locks and the guards of update_job together.)
TargetExclusion ==
  \A i, j \in Jobs :
    (i # j /\ UsesTarget(i) /\ UsesTarget(j)) => req[i].target # req[j].target

\* No lock outlives its reason: the owner is an endpoint about to register
\* the job, or a job that is still active (so that cancelling or ending it
\* frees the target).  (Every path on which a worker or an endpoint ends.)
LockOwnerActive ==
  \A t \in Targets : locks[t] # NoOwner =>
    \/ pc[locks[t]] = "locked"
    \/ jobs[locks[t]].status \in Active

\* A cancellation the registry accepted is never forgotten: no later progress
\* report, completion or restart makes the job run on or complete.
CancelHonoured ==
  \A j \in Jobs : View(j).cancelReq =>
    View(j).status \notin {"QUEUED", "RUNNING", "COMPLETED"}

\* No job is shown as active without a thread that will end it: neither
\* after a restart nor after an endpoint gave up.
ActiveHasThread ==
  up => \A j \in Jobs : View(j).status \in Active => Live(j)

\* What clients see of an ended job never changes, restarts included.
TerminalImmutable ==
  [][\A j \in Jobs : View(j).status \in Terminal => View(j)'.status = View(j).status]_vars

\* A job that was certified as completed is a completed job ever after.
CertificateStands ==
  \A j \in Jobs : cert[j] => View(j).status = "COMPLETED"

\* Every job that got a record reaches a terminal status, crash or no crash.
EveryJobEnds ==
  \A j \in Jobs : (View(j).status \in Active) ~> (View(j).status \in Terminal)

\* A target does not stay locked by one job.
LocksReleased ==
  \A j \in Jobs, t \in Targets : (locks[t] = j) ~> (locks[t] # j)

\* The lifecycle of JobLifecycle, read off the registry and the threads.
Lifecycle == INSTANCE JobLifecycle WITH
  status <- [j \in Jobs |-> View(j).status],
  active <- [t \in Targets |->
              {j \in Jobs : View(j).status \in Active /\ req[j].target = t}],
  using  <- {j \in Jobs : UsesTarget(j)}

\* Locks, files, tokens and threads together implement the lifecycle: one
\* active job per target although the fingerprint check and the lock are two
\* critical sections, no job completed after a cancellation, no target in
\* use by an ended job.
ImplementsLifecycle == Lifecycle!Spec

-----------------------------------------------------------------------------
(* What the documents and tests say, and the code does not do *)

\* "A cancelled or partial operation must NEVER be marked VERIFIED."
CancelledNeverVerified ==
  \A j \in Jobs : View(j).status = "CANCELLED" => View(j).verif # "VERIFIED"

\* A certificate that attests exact readback is about a target that passed it.
CertificateTruthful ==
  \A j \in Jobs : cert[j] => readback[j] # "FAIL"
=============================================================================
