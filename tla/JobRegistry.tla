---------------------------- MODULE JobRegistry ----------------------------
(***************************************************************************)
(* The job registry of drex_server.py (class JobRegistry): the in-memory   *)
(* job table, the JSON record each job has on disk, the table of target    *)
(* locks and the cancellation tokens.  Every operation below is one        *)
(* critical section of the registry's RLock.                               *)
(*                                                                         *)
(* A record keeps the fields that the lifecycle reads or that another      *)
(* component trusts: status, verification_state and                        *)
(* cancellation_requested.  Phase labels, timestamps, byte counters        *)
(* and percent_complete are left out.                                      *)
(***************************************************************************)
EXTENDS Naturals

CONSTANTS
  Jobs,        \* job identifiers: each submission draws a fresh one
  Targets,     \* normalised target paths
  NoOwner,     \* an unlocked target
  DiskFaults   \* may a write of a job record fail?

ASSUME NoOwnerAssumption == NoOwner \notin Jobs
ASSUME DiskFaultsAssumption == DiskFaults \in BOOLEAN

VARIABLES
  jobs,    \* _jobs: the record in memory, or NoRecord
  disk,    \* cases/<case>/jobs/<job>.json: the record, NoRecord or Torn
  locks,   \* _target_locks: the owner of a target, or NoOwner
  tokens   \* _cancel_events: is the cancellation event of the job set?

registryVars == <<jobs, disk, locks, tokens>>

-----------------------------------------------------------------------------
(* Records *)

Active   == {"QUEUED", "RUNNING", "CANCELLING"}
Terminal == {"COMPLETED", "FAILED", "CANCELLED", "INTERRUPTED",
             "DEVICE_DISCONNECTED", "VERIFICATION_FAILED"}
Status   == Active \cup Terminal

Verification ==
  {"NOT_STARTED", "PENDING", "IN_PROGRESS", "VERIFYING", "VERIFIED", "UNVERIFIED"}

Record == [status: Status, verif: Verification, cancelReq: BOOLEAN]

\* "No such job" and a file that json.load refuses: records that no job has.
NoRecord == [status |-> "NONE", verif |-> "NOT_STARTED", cancelReq |-> FALSE]
Torn     == [status |-> "TORN", verif |-> "NOT_STARTED", cancelReq |-> FALSE]

\* The record create_job writes.
NewRecord == [status |-> "QUEUED", verif |-> "NOT_STARTED", cancelReq |-> FALSE]

\* get_job: the table, or the file when the table has no entry.
View(j) == IF jobs[j] # NoRecord THEN jobs[j] ELSE disk[j]

-----------------------------------------------------------------------------
(* update_job *)

\* An argument left out of a call to update_job.
Keep == "KEEP"

\* The arguments of a call: new status and new verification_state.
Update(s, v) == [status |-> s, verif |-> v, cancel |-> FALSE]

\* Mutant: a late progress report may take a job back from CANCELLING.
SuccessorsResuming(s) ==
  CASE s = "QUEUED"     -> {"RUNNING", "CANCELLED", "INTERRUPTED", "FAILED"}
    [] s = "RUNNING"    -> {"COMPLETED", "FAILED", "CANCELLING", "CANCELLED",
                            "DEVICE_DISCONNECTED", "VERIFICATION_FAILED", "INTERRUPTED"}
    [] s = "CANCELLING" -> {"RUNNING", "CANCELLED", "FAILED", "DEVICE_DISCONNECTED"}
    [] OTHER            -> {}

\* The transition table.  A terminal status has no successor.
Successors(s) ==
  CASE s = "QUEUED"     -> {"RUNNING", "CANCELLED", "INTERRUPTED", "FAILED"}
    [] s = "RUNNING"    -> {"COMPLETED", "FAILED", "CANCELLING", "CANCELLED",
                            "DEVICE_DISCONNECTED", "VERIFICATION_FAILED", "INTERRUPTED"}
    [] s = "CANCELLING" -> {"CANCELLED", "FAILED", "DEVICE_DISCONNECTED"}
    [] OTHER            -> {}

\* A completion that arrives while the job is being cancelled cancels it.
Requested(cur, s) ==
  CASE s = Keep -> cur
    [] cur = "CANCELLING" /\ s = "COMPLETED" -> "CANCELLED"
    [] OTHER -> s

\* Mutant: the exception handler's FAILED is always let through.
IllegalUnlessFailing(cur, s) ==
  /\ s # "FAILED"
  /\ Requested(cur, s) # cur
  /\ Requested(cur, s) \notin Successors(cur)

\* Does update_job raise "Illegal state transition"?
Illegal(cur, s) ==
  /\ Requested(cur, s) # cur
  /\ Requested(cur, s) \notin Successors(cur)

\* The fields update_job assigns before it looks at the transition.
WithFields(rec, u) ==
  [rec EXCEPT !.verif = IF u.verif = Keep THEN @ ELSE u.verif,
              !.cancelReq = @ \/ u.cancel]

\* Mutant: the lock is left in the table.
NeverFreed(t, j) == locks[t]

\* The lock of target t after job j has let go of it.  (A job only ever
\* acquires its own target_path, so letting go of it everywhere is the same.)
Freed(t, j) == IF locks[t] = j THEN NoOwner ELSE locks[t]

\* _persist_job and _atomic_write.  A failed write raises (ok = FALSE): the
\* old file is still there when the temporary file could not be written, and
\* is truncated when os.replace was refused five times and the direct write
\* that follows did not finish.
Persist(j, rec, ok) ==
  \/ ok /\ disk' = [disk EXCEPT ![j] = rec]
  \/ DiskFaults /\ ~ok /\ disk' = disk
  \/ DiskFaults /\ ~ok /\ disk' = [disk EXCEPT ![j] = Torn]

\* update_job: ok says whether the call returned or raised.
UpdateJob(j, u, ok) ==
  LET cur == View(j)
      new == [WithFields(cur, u) EXCEPT !.status = Requested(cur.status, u.status)]
  IN \/ /\ Illegal(cur.status, u.status)
        /\ ~ok
        /\ jobs' = [jobs EXCEPT ![j] = WithFields(cur, u)]
        /\ UNCHANGED <<disk, locks>>
     \/ /\ ~Illegal(cur.status, u.status)
        /\ jobs' = [jobs EXCEPT ![j] = new]
        /\ locks' = IF u.status # Keep /\ new.status \in Terminal
                    THEN [t \in Targets |-> Freed(t, j)] ELSE locks
        /\ Persist(j, new, ok)

-----------------------------------------------------------------------------
(* The other operations *)

\* Mutant: the table is written without looking at the present owner.
AlwaysAcquire(t, j) == TRUE

\* acquire_target_lock: fails when another job holds the target.
CanAcquire(t, j) == locks[t] \in {NoOwner, j}

AcquireTargetLock(t, j) ==
  /\ CanAcquire(t, j)
  /\ locks' = [locks EXCEPT ![t] = j]
  /\ UNCHANGED <<jobs, disk, tokens>>

\* release_target_lock: only the owner's call has an effect.
ReleaseTargetLock(t, j) ==
  /\ locks' = [locks EXCEPT ![t] = Freed(t, j)]
  /\ UNCHANGED <<jobs, disk, tokens>>

\* create_job: the record is in the table before it is on disk.
CreateJob(j, ok) ==
  /\ jobs' = [jobs EXCEPT ![j] = NewRecord]
  /\ Persist(j, NewRecord, ok)
  /\ UNCHANGED <<locks, tokens>>

\* cancel_job: the token is set whatever the status; the update is made only
\* for a job that is QUEUED or RUNNING.
CancelJob(j) ==
  LET cur == View(j)
  IN /\ cur.status \in Status
     /\ tokens' = [tokens EXCEPT ![j] = TRUE]
     /\ \/ /\ cur.status \in {"QUEUED", "RUNNING"}
           /\ \E ok \in BOOLEAN :
                UpdateJob(j,
                  [status |-> IF cur.status = "QUEUED" THEN "CANCELLED"
                                                       ELSE "CANCELLING",
                   verif  |-> Keep,
                   cancel |-> TRUE], ok)
        \/ /\ cur.status \notin {"QUEUED", "RUNNING"}
           /\ jobs' = [jobs EXCEPT ![j] = cur]
           /\ UNCHANGED <<disk, locks>>

\* find_active_job_by_fingerprint, for the fingerprint function f.
ActiveTwin(j, f) ==
  \E k \in Jobs : jobs[k].status \in Active /\ f[k] = f[j]

\* Mutant: only RUNNING jobs are reconciled.
ReconciledRunning(rec) ==
  IF rec.status = "RUNNING" THEN [rec EXCEPT !.status = "INTERRUPTED"] ELSE rec

\* What reconcile_startup writes over the record of an active job.
Reconciled(rec) ==
  IF rec.status \in Active THEN [rec EXCEPT !.status = "INTERRUPTED"] ELSE rec

\* reconcile_startup: an exception on one file is swallowed, so with faults
\* any file may keep its record, or lose it to an unfinished direct write.
ReconcileStartup ==
  /\ \/ disk' = [j \in Jobs |-> Reconciled(disk[j])]
     \/ /\ DiskFaults
        /\ \E S \in SUBSET {j \in Jobs : disk[j].status \in Active} :
             \E lost \in SUBSET S :
               disk' = [j \in Jobs |-> IF j \in lost THEN Torn
                                       ELSE IF j \in S THEN disk[j]
                                       ELSE Reconciled(disk[j])]
  /\ UNCHANGED <<jobs, locks, tokens>>

RegistryInit ==
  /\ jobs = [j \in Jobs |-> NoRecord]
  /\ disk = [j \in Jobs |-> NoRecord]
  /\ locks = [t \in Targets |-> NoOwner]
  /\ tokens = [j \in Jobs |-> FALSE]

RegistryTypeOK ==
  /\ jobs \in [Jobs -> Record \cup {NoRecord}]
  /\ disk \in [Jobs -> Record \cup {NoRecord, Torn}]
  /\ locks \in [Targets -> Jobs \cup {NoOwner}]
  /\ tokens \in [Jobs -> BOOLEAN]
=============================================================================
