-------------------------- MODULE JobServer_proofs --------------------------
(***************************************************************************)
(* What JobServer guarantees for every set of jobs, targets and requests,  *)
(* every pool size, and across any number of crashes: the exclusion part   *)
(* with and without write faults, the life cycle while record writes       *)
(* succeed (~DiskFaults).                                                  *)
(***************************************************************************)
EXTENDS JobServer, TLAPS

-----------------------------------------------------------------------------
(* update_job *)

\* The arguments update_job is called with.
Arguments == [status: Status \cup {Keep}, verif: Verification \cup {Keep},
              cancel: BOOLEAN]

\* A call of update_job keeps the types of the registry.
LEMMA UpdateType ==
  ASSUME RegistryTypeOK, NEW j \in Jobs, View(j) \in Record,
         NEW u \in Arguments, NEW ok \in BOOLEAN, UpdateJob(j, u, ok)
  PROVE  /\ jobs' \in [Jobs -> Record \cup {NoRecord}]
         /\ disk' \in [Jobs -> Record \cup {NoRecord, Torn}]
         /\ locks' \in [Targets -> Jobs \cup {NoOwner}]
  <1> DEFINE cur == View(j)
             new == [WithFields(cur, u) EXCEPT !.status = Requested(cur.status, u.status)]
  <1>1. WithFields(cur, u) \in Record
    BY DEF WithFields, Record, Arguments
  <1>2. Requested(cur.status, u.status) \in Status
    BY DEF Requested, Record, Arguments, Status, Active, Terminal, Keep
  <1>3. new \in Record
    BY <1>1, <1>2 DEF Record
  <1>4. \A t \in Targets : Freed(t, j) \in Jobs \cup {NoOwner}
    BY DEF Freed, RegistryTypeOK
  <1>5. CASE Illegal(cur.status, u.status)
    BY <1>1, <1>5 DEF UpdateJob, RegistryTypeOK
  <1>6. CASE ~Illegal(cur.status, u.status)
    <2>1. jobs' = [jobs EXCEPT ![j] = new]
      BY <1>6 DEF UpdateJob
    <2>2. Persist(j, new, ok)
      BY <1>6 DEF UpdateJob
    <2>3. disk' \in [Jobs -> Record \cup {NoRecord, Torn}]
      BY <1>3, <2>2 DEF Persist, RegistryTypeOK
    <2>4. locks' \in [Targets -> Jobs \cup {NoOwner}]
      BY <1>4, <1>6 DEF UpdateJob, RegistryTypeOK
    <2> QED BY <1>3, <2>1, <2>3, <2>4 DEF RegistryTypeOK
  <1> QED BY <1>5, <1>6

\* What a call of update_job does to statuses and locks: only the job of the
\* call changes, its status stays or takes a legal step (never out of a
\* terminal one), and the job's locks are let go exactly when it ends.
LEMMA UpdateEffect ==
  ASSUME RegistryTypeOK, NEW j \in Jobs, View(j) \in Record,
         NEW u \in Arguments, NEW ok \in BOOLEAN, UpdateJob(j, u, ok)
  PROVE  /\ \A k \in Jobs : k # j => jobs'[k] = jobs[k] /\ disk'[k] = disk[k]
         /\ jobs'[j] \in Record
         /\ \/ jobs'[j].status = View(j).status
            \/ /\ jobs'[j].status = Requested(View(j).status, u.status)
               /\ jobs'[j].status \in Successors(View(j).status)
         /\ ok => jobs'[j].status = Requested(View(j).status, u.status)
         /\ \A t \in Targets : locks'[t] = locks[t]
                               \/ (locks[t] = j /\ locks'[t] = NoOwner)
         /\ jobs'[j].status \in Active => locks' = locks
         /\ \/ jobs'[j].status \in Active
            \/ jobs'[j].status = View(j).status
            \/ \A t \in Targets : locks'[t] # j
  <1> DEFINE cur == View(j)
             new == [WithFields(cur, u) EXCEPT !.status = Requested(cur.status, u.status)]
  <1>1. WithFields(cur, u) \in Record /\ WithFields(cur, u).status = cur.status
    BY DEF WithFields, Record, Arguments
  <1>2. Requested(cur.status, u.status) \in Status
    BY DEF Requested, Record, Arguments, Status, Active, Terminal, Keep
  <1>3. new \in Record /\ new.status = Requested(cur.status, u.status)
    BY <1>1, <1>2 DEF Record
  <1>4. CASE Illegal(cur.status, u.status)
    <2>1. /\ ~ok
          /\ jobs' = [jobs EXCEPT ![j] = WithFields(cur, u)]
          /\ disk' = disk /\ locks' = locks
      BY <1>4 DEF UpdateJob
    <2> QED BY <1>1, <2>1 DEF RegistryTypeOK
  <1>5. CASE ~Illegal(cur.status, u.status)
    <2>1. /\ jobs' = [jobs EXCEPT ![j] = new]
          /\ locks' = IF u.status # Keep /\ new.status \in Terminal
                      THEN [t \in Targets |-> Freed(t, j)] ELSE locks
          /\ Persist(j, new, ok)
      BY <1>5 DEF UpdateJob
    <2>2. jobs'[j] = new
      BY <2>1 DEF RegistryTypeOK
    <2>3. \A k \in Jobs : k # j => jobs'[k] = jobs[k] /\ disk'[k] = disk[k]
      BY <2>1 DEF RegistryTypeOK, Persist
    <2>4. new.status = cur.status \/ new.status \in Successors(cur.status)
      BY <1>3, <1>5 DEF Illegal
    <2>5. \A t \in Targets : locks'[t] = locks[t] \/ (locks[t] = j /\ locks'[t] = NoOwner)
      BY <2>1 DEF Freed
    <2>6. new.status \in Active => locks' = locks
      BY <2>1 DEF Active, Terminal
    <2>7. u.status = Keep => new.status = cur.status
      BY <1>3 DEF Requested, Keep
    <2>8. (u.status # Keep /\ new.status \in Terminal) => \A t \in Targets : locks'[t] # j
      BY <2>1, NoOwnerAssumption DEF Freed
    <2>9. new.status \in Active \cup Terminal
      BY <1>2, <1>3 DEF Status
    <2> QED BY <1>3, <2>2, <2>3, <2>4, <2>5, <2>6, <2>7, <2>8, <2>9
  <1> QED BY <1>4, <1>5
-----------------------------------------------------------------------------
(* Types *)

LEMMA InitType == Init => TypeOK
  BY NoOwnerAssumption, BoundsAssumption
  DEF Init, RegistryInit, TypeOK, RegistryTypeOK, Control, Endpoint

\* The record a job is judged by is a record once it has one.
LEMMA ViewType ==
  ASSUME RegistryTypeOK, NEW j \in Jobs, View(j).status \in Status
  PROVE  View(j) \in Record
  BY DEF View, RegistryTypeOK, NoRecord, Torn, Status, Active, Terminal

LEMMA CreateType ==
  ASSUME RegistryTypeOK, NEW j \in Jobs, NEW ok \in BOOLEAN, CreateJob(j, ok)
  PROVE  RegistryTypeOK'
  <1>1. NewRecord \in Record
    BY DEF NewRecord, Record, Status, Active, Verification
  <1> QED BY <1>1 DEF CreateJob, Persist, RegistryTypeOK

\* cancel_job is a call of update_job or only loads the record.
LEMMA CancelCases ==
  ASSUME RegistryTypeOK, NEW j \in Jobs, CancelJob(j)
  PROVE  /\ View(j) \in Record
         /\ tokens' \in [Jobs -> BOOLEAN]
         /\ \/ \E u \in Arguments, ok \in BOOLEAN :
                 /\ \/ View(j).status = "QUEUED" /\ u.status = "CANCELLED"
                    \/ View(j).status = "RUNNING" /\ u.status = "CANCELLING"
                 /\ UpdateJob(j, u, ok)
            \/ /\ jobs' = [jobs EXCEPT ![j] = View(j)]
               /\ UNCHANGED <<disk, locks>>
  <1>1. View(j) \in Record
    BY ViewType DEF CancelJob
  <1>2. tokens' \in [Jobs -> BOOLEAN]
    BY DEF CancelJob, RegistryTypeOK
  <1>3. CASE View(j).status \in {"QUEUED", "RUNNING"}
    <2> DEFINE u == [status |-> IF View(j).status = "QUEUED" THEN "CANCELLED"
                                                             ELSE "CANCELLING",
                     verif |-> Keep, cancel |-> TRUE]
    <2>1. \E ok \in BOOLEAN : UpdateJob(j, u, ok)
      BY <1>3 DEF CancelJob
    <2>2. u \in Arguments
      BY DEF Arguments, Status, Active, Terminal
    <2>3. \/ View(j).status = "QUEUED" /\ u.status = "CANCELLED"
          \/ View(j).status = "RUNNING" /\ u.status = "CANCELLING"
      BY <1>3
    <2> HIDE DEF u
    <2> QED BY <1>1, <1>2, <2>1, <2>2, <2>3
  <1>4. CASE View(j).status \notin {"QUEUED", "RUNNING"}
    BY <1>1, <1>2, <1>4 DEF CancelJob
  <1> QED BY <1>3, <1>4

\* update_job as the workers call it.
LEMMA WorkerArguments ==
  ASSUME NEW s \in Status \cup {Keep}, NEW v \in Verification \cup {Keep}
  PROVE  Update(s, v) \in Arguments
  BY DEF Update, Arguments
-----------------------------------------------------------------------------
(* The invariant behind mutual exclusion *)

\* The part of ExclusionInv about the registry and the threads, and the part
\* that only types the other variables.
ThreadsInv ==
  /\ RegistryTypeOK
  /\ req \in [Jobs -> Requests \cup {NoRequest}]
  /\ pc \in [Jobs -> Control]
  /\ SubmittedHaveRequest
  /\ UnregisteredHaveNoRecord
  /\ LiveHaveRecord
  /\ RegisteringHoldsLock
  /\ ActiveHoldsLock
  /\ UserRuns

OthersOK ==
  /\ left \in [Jobs -> 0..MaxUnits]
  /\ readback \in [Jobs -> {"NONE", "PASS", "FAIL"}]
  /\ cert \in [Jobs -> BOOLEAN]
  /\ pool \in Seq(Jobs)
  /\ up \in BOOLEAN
  /\ crashes \in 0..MaxCrashes

\* The control points at which a worker has reported RUNNING and not left its
\* target yet, and those at which no record exists.
Started == {"writing", "progress", "report",
            "rec_token", "reading", "rec_scan", "rec_token2", "carving"}
Early == {"none", "checked", "locked", "rejected"}

\* A job with a record in memory is judged by it.
LEMMA ViewInMemory ==
  ASSUME RegistryTypeOK, NEW j \in Jobs, jobs[j] # NoRecord
  PROVE  View(j) = jobs[j] /\ View(j) \in Record
  BY DEF View, RegistryTypeOK

LEMMA NoRecordFacts ==
  /\ NoRecord \notin Record /\ Torn \notin Record
  /\ NoRecord.status \notin Status /\ Torn.status \notin Status
  BY DEF NoRecord, Torn, Record, Status, Active, Terminal

\* Only an active status has successors.
LEMMA SuccessorsOfActive ==
  ASSUME NEW s, Successors(s) # {}
  PROVE  s \in Active
  BY DEF Successors, Active

\* A worker's call of update_job keeps the invariant, wherever it goes next,
\* provided that it only goes on to its target when its job runs.
LEMMA UpdateKeeps ==
  ASSUME ThreadsInv, NEW j \in Jobs, Live(j), pc[j] \notin Early,
         NEW u \in Arguments, NEW ok \in BOOLEAN, UpdateJob(j, u, ok),
         UNCHANGED <<tokens, req>>,
         NEW to \in Worker \cup {"submitted", "broken"}, Goto(j, to),
         to \in Started => \/ ok /\ u.status = "RUNNING"
                           \/ /\ pc[j] \in Started
                              /\ u.status \in {"RUNNING", Keep}
  PROVE  ThreadsInv'
  <1>1. View(j) = jobs[j] /\ View(j) \in Record
    BY ViewInMemory DEF ThreadsInv, LiveHaveRecord, Early
  <1>2. /\ \A k \in Jobs : k # j => jobs'[k] = jobs[k] /\ disk'[k] = disk[k]
        /\ jobs'[j] \in Record
        /\ \/ jobs'[j].status = jobs[j].status
           \/ /\ jobs'[j].status = Requested(jobs[j].status, u.status)
              /\ jobs'[j].status \in Successors(jobs[j].status)
        /\ ok => jobs'[j].status = Requested(jobs[j].status, u.status)
        /\ \A t \in Targets : locks'[t] = locks[t]
                              \/ (locks[t] = j /\ locks'[t] = NoOwner)
        /\ jobs'[j].status \in Active => locks' = locks
    BY <1>1, UpdateEffect DEF ThreadsInv
  <1>3. RegistryTypeOK'
    BY <1>1, UpdateType DEF ThreadsInv, RegistryTypeOK
  <1>4. /\ \A k \in Jobs : k # j => pc'[k] = pc[k]
        /\ pc'[j] = to /\ to \notin Early
        /\ pc' \in [Jobs -> Control]
    BY DEF Goto, ThreadsInv, Control, Worker, SanWorker, RecWorker, Stopped,
           Endpoint, Early
  <1>5. SubmittedHaveRequest'
    BY <1>4 DEF ThreadsInv, SubmittedHaveRequest, Early
  <1>6. UnregisteredHaveNoRecord'
    BY <1>2, <1>4 DEF ThreadsInv, UnregisteredHaveNoRecord, Early
  <1>7. LiveHaveRecord'
    BY <1>2, <1>4, NoRecordFacts DEF ThreadsInv, LiveHaveRecord, Live
  <1>8. RegisteringHoldsLock'
    <2> SUFFICES ASSUME NEW k \in Jobs, pc'[k] = "locked"
                 PROVE  locks'[req[k].target] = k
      BY DEF RegisteringHoldsLock
    <2>1. k # j /\ locks[req[k].target] = k
      BY <1>4 DEF ThreadsInv, RegisteringHoldsLock, Early
    <2>2. req[k].target \in Targets
      BY <1>4, <2>1, RequestsAssumption DEF ThreadsInv, SubmittedHaveRequest
    <2> QED BY <1>2, <2>1, <2>2
  <1>9. ActiveHoldsLock'
    <2> SUFFICES ASSUME NEW k \in Jobs, Live(k)', jobs'[k].status \in Active
                 PROVE  locks'[req[k].target] = k
      BY DEF ActiveHoldsLock
    <2>1. CASE k = j
      <3>1. jobs[j].status \in Active
        BY <1>2, <2>1, SuccessorsOfActive
      <3> QED BY <1>2, <2>1, <3>1 DEF ThreadsInv, ActiveHoldsLock
    <2>2. CASE k # j
      <3>1. Live(k) /\ locks[req[k].target] = k
        BY <1>2, <1>4, <2>2 DEF ThreadsInv, ActiveHoldsLock, Live
      <3>2. req[k].target \in Targets
        BY <3>1, RequestsAssumption DEF ThreadsInv, SubmittedHaveRequest, Live
      <3> QED BY <1>2, <2>2, <3>1, <3>2
    <2> QED BY <2>1, <2>2
  <1>10. UserRuns'
    <2> SUFFICES ASSUME NEW k \in Jobs, pc'[k] \in Started
                 PROVE  jobs'[k].status \in {"RUNNING", "CANCELLING"}
      BY DEF UserRuns, Started
    <2>1. CASE k # j
      BY <1>2, <1>4, <2>1 DEF ThreadsInv, UserRuns, Started
    <2>2. CASE k = j /\ ok /\ u.status = "RUNNING"
      BY <1>2, <2>2 DEF Requested, Keep
    <2>3. CASE k = j /\ pc[j] \in Started /\ u.status \in {"RUNNING", Keep}
      BY <1>2, <2>3 DEF ThreadsInv, UserRuns, Started, Requested, Keep
    <2> QED BY <1>4, <2>1, <2>2, <2>3
  <1> QED BY <1>3, <1>4, <1>5, <1>6, <1>7, <1>8, <1>9, <1>10 DEF ThreadsInv

\* A step that moves a worker and leaves the registry alone keeps the
\* invariant, provided that it only goes on to the target when the job runs.
LEMMA MoveKeeps ==
  ASSUME ThreadsInv, NEW j \in Jobs, Live(j), pc[j] \notin Early,
         UNCHANGED <<registryVars, req>>, NEW to \in Worker, Goto(j, to),
         to \in Started => pc[j] \in Started
  PROVE  ThreadsInv'
  <1>1. /\ \A k \in Jobs : k # j => pc'[k] = pc[k]
        /\ pc'[j] = to /\ to \notin Early
        /\ pc' \in [Jobs -> Control]
    BY DEF Goto, ThreadsInv, Control, Worker, SanWorker, RecWorker, Stopped,
           Endpoint, Early
  <1>2. /\ RegistryTypeOK' /\ req' \in [Jobs -> Requests \cup {NoRequest}]
        /\ jobs' = jobs /\ disk' = disk /\ locks' = locks /\ req' = req
    BY DEF ThreadsInv, RegistryTypeOK, registryVars
  <1>3. \A k \in Jobs : Live(k)' => Live(k)
    BY <1>1 DEF Live
  <1>4. \A k \in Jobs : pc'[k] \in Early => pc'[k] = pc[k]
    BY <1>1
  <1>5. \A k \in Jobs : pc'[k] \in Started => pc[k] \in Started
    BY <1>1
  <1>6. SubmittedHaveRequest' /\ UnregisteredHaveNoRecord' /\ RegisteringHoldsLock'
    BY <1>1, <1>2, <1>4 DEF ThreadsInv, SubmittedHaveRequest,
       UnregisteredHaveNoRecord, RegisteringHoldsLock, Early
  <1>7. LiveHaveRecord'
    BY <1>1, <1>2, <1>3 DEF ThreadsInv, LiveHaveRecord, Early
  <1>8. ActiveHoldsLock'
    BY <1>2, <1>3 DEF ThreadsInv, ActiveHoldsLock
  <1>9. UserRuns'
    BY <1>2, <1>5 DEF ThreadsInv, UserRuns, Started
  <1> QED BY <1>1, <1>2, <1>6, <1>7, <1>8, <1>9 DEF ThreadsInv

LEMMA SubmitKeeps ==
  ASSUME ThreadsInv, NEW j \in Jobs, NEW r \in Requests, Submit(j, r)
  PROVE  ThreadsInv'
  <1>1. PICK to \in {"checked", "rejected"} : Goto(j, to)
    BY DEF Submit
  <1>2. /\ pc[j] = "none" /\ req' = [req EXCEPT ![j] = r]
        /\ UNCHANGED <<jobs, disk, locks, tokens>>
    BY DEF Submit, At, registryVars
  <1>3. /\ \A k \in Jobs : k # j => pc'[k] = pc[k] /\ req'[k] = req[k]
        /\ pc'[j] = to /\ req'[j] = r
        /\ pc' \in [Jobs -> Control]
        /\ req' \in [Jobs -> Requests \cup {NoRequest}]
    BY <1>1, <1>2 DEF Goto, ThreadsInv, Control, Endpoint, Stopped
  <1>4. jobs[j] = NoRecord /\ disk[j] = NoRecord
    BY <1>2 DEF ThreadsInv, UnregisteredHaveNoRecord
  <1>5. RegistryTypeOK'
    BY <1>2 DEF ThreadsInv, RegistryTypeOK
  <1>6. SubmittedHaveRequest' /\ UnregisteredHaveNoRecord'
    BY <1>2, <1>3, <1>4 DEF ThreadsInv, SubmittedHaveRequest, UnregisteredHaveNoRecord
  <1>7. LiveHaveRecord' /\ RegisteringHoldsLock' /\ UserRuns'
    BY <1>2, <1>3 DEF ThreadsInv, LiveHaveRecord, RegisteringHoldsLock, UserRuns, Live,
           Stopped
  <1>8. ActiveHoldsLock'
    BY <1>2, <1>3, <1>4, NoRecordFacts DEF ThreadsInv, ActiveHoldsLock, Live, Status
  <1> QED BY <1>3, <1>5, <1>6, <1>7, <1>8 DEF ThreadsInv

LEMMA TakeLockKeeps ==
  ASSUME ThreadsInv, NEW j \in Jobs, TakeLock(j)
  PROVE  ThreadsInv'
  <1>1. pc[j] = "checked" /\ req' = req /\ UNCHANGED <<jobs, disk, tokens>>
    BY DEF TakeLock, At, UnchangedButPc, AcquireTargetLock, registryVars
  <1>2. req[j] \in Requests /\ req[j].target \in Targets
    BY <1>1, RequestsAssumption DEF ThreadsInv, SubmittedHaveRequest
  <1> DEFINE t == req[j].target
  <1>3. \/ /\ Goto(j, "locked") /\ CanAcquire(t, j)
           /\ locks' = [locks EXCEPT ![t] = j]
        \/ Goto(j, "rejected") /\ locks' = locks
    BY DEF TakeLock, AcquireTargetLock, registryVars
  <1>4. /\ \A k \in Jobs : k # j => pc'[k] = pc[k]
        /\ pc'[j] \in {"locked", "rejected"} /\ pc' \in [Jobs -> Control]
        /\ pc'[j] = "locked" => locks'[t] = j
    BY <1>2, <1>3 DEF Goto, ThreadsInv, RegistryTypeOK, Control, Endpoint, Stopped
  <1>5. \A k \in Jobs, x \in Targets : (k # j /\ locks[x] = k) => locks'[x] = k
    BY <1>2, <1>3, NoOwnerAssumption DEF CanAcquire, ThreadsInv, RegistryTypeOK
  <1>6. jobs[j] = NoRecord /\ disk[j] = NoRecord
    BY <1>1 DEF ThreadsInv, UnregisteredHaveNoRecord
  <1>7. RegistryTypeOK'
    BY <1>1, <1>2, <1>3 DEF ThreadsInv, RegistryTypeOK
  <1>8. \A k \in Jobs : pc[k] # "none" => req[k].target \in Targets
    BY RequestsAssumption DEF ThreadsInv, SubmittedHaveRequest
  <1>9. SubmittedHaveRequest' /\ UnregisteredHaveNoRecord' /\ LiveHaveRecord' /\ UserRuns'
    BY <1>1, <1>2, <1>4, <1>6
    DEF ThreadsInv, SubmittedHaveRequest, UnregisteredHaveNoRecord, LiveHaveRecord,
        UserRuns, Live, Stopped
  <1>10. RegisteringHoldsLock'
    BY <1>1, <1>4, <1>5, <1>8 DEF ThreadsInv, RegisteringHoldsLock
  <1>11. ActiveHoldsLock'
    BY <1>1, <1>4, <1>5, <1>6, <1>8, NoRecordFacts
    DEF ThreadsInv, ActiveHoldsLock, Live, Status
  <1> QED BY <1>1, <1>4, <1>7, <1>9, <1>10, <1>11 DEF ThreadsInv

LEMMA RegisterKeeps ==
  ASSUME ThreadsInv, NEW j \in Jobs, Register(j)
  PROVE  ThreadsInv'
  <1>1. PICK ok \in BOOLEAN : CreateJob(j, ok)
    BY DEF Register
  <1>2. PICK to \in {"broken", "submitted", "registered", "san_token"} : Goto(j, to)
    BY DEF Register
  <1>3. pc[j] = "locked" /\ req' = req /\ locks' = locks
    BY <1>1 DEF Register, At, CreateJob
  <1>4. NewRecord \in Record /\ NewRecord # NoRecord /\ NewRecord.status = "QUEUED"
    BY DEF NewRecord, NoRecord, Record, Status, Active, Verification
  <1>5. /\ \A k \in Jobs : k # j => jobs'[k] = jobs[k] /\ disk'[k] = disk[k]
        /\ jobs'[j] = NewRecord
        /\ RegistryTypeOK'
    BY <1>1, CreateType DEF CreateJob, Persist, ThreadsInv, RegistryTypeOK
  <1>6. /\ \A k \in Jobs : k # j => pc'[k] = pc[k]
        /\ pc'[j] = to /\ pc' \in [Jobs -> Control]
    BY <1>2 DEF Goto, ThreadsInv, Control, Worker, SanWorker, Endpoint, Stopped
  <1>7. locks[req[j].target] = j
    BY <1>3 DEF ThreadsInv, RegisteringHoldsLock
  <1>8. SubmittedHaveRequest' /\ UnregisteredHaveNoRecord' /\ LiveHaveRecord' /\ UserRuns'
    BY <1>3, <1>4, <1>5, <1>6
    DEF ThreadsInv, SubmittedHaveRequest, UnregisteredHaveNoRecord, LiveHaveRecord,
        UserRuns, Live, Stopped
  <1>9. RegisteringHoldsLock' /\ ActiveHoldsLock'
    BY <1>3, <1>5, <1>6, <1>7 DEF ThreadsInv, RegisteringHoldsLock, ActiveHoldsLock, Live
  <1> QED BY <1>3, <1>5, <1>6, <1>8, <1>9 DEF ThreadsInv

LEMMA ReleaseKeeps ==
  ASSUME ThreadsInv, NEW j \in Jobs, Release(j)
  PROVE  ThreadsInv'
  <1>1. /\ pc[j] = "release" /\ Goto(j, "done") /\ req' = req
        /\ UNCHANGED <<jobs, disk, tokens>>
        /\ locks' = [locks EXCEPT ![req[j].target] = Freed(req[j].target, j)]
    BY DEF Release, At, ReleaseTargetLock, UnchangedButPc
  <1>2. \A k \in Jobs : pc[k] # "none" => req[k].target \in Targets
    BY RequestsAssumption DEF ThreadsInv, SubmittedHaveRequest
  <1>3. /\ \A k \in Jobs : k # j => pc'[k] = pc[k]
        /\ pc'[j] = "done" /\ pc' \in [Jobs -> Control]
    BY <1>1 DEF Goto, ThreadsInv, Control, Stopped
  <1>4. RegistryTypeOK'
    BY <1>1 DEF ThreadsInv, RegistryTypeOK, Freed
  <1>5. \A k \in Jobs, x \in Targets : (k # j /\ locks[x] = k) => locks'[x] = k
    BY <1>1 DEF Freed, ThreadsInv, RegistryTypeOK
  <1>6. SubmittedHaveRequest' /\ UnregisteredHaveNoRecord' /\ LiveHaveRecord' /\ UserRuns'
    BY <1>1, <1>3
    DEF ThreadsInv, SubmittedHaveRequest, UnregisteredHaveNoRecord, LiveHaveRecord,
        UserRuns, Live, Stopped
  <1>7. RegisteringHoldsLock'
    BY <1>1, <1>2, <1>3, <1>5 DEF ThreadsInv, RegisteringHoldsLock
  <1>8. ActiveHoldsLock'
    BY <1>1, <1>2, <1>3, <1>5 DEF ThreadsInv, ActiveHoldsLock, Live, Stopped
  <1> QED BY <1>1, <1>3, <1>4, <1>6, <1>7, <1>8 DEF ThreadsInv

LEMMA CancelKeeps ==
  ASSUME ThreadsInv, NEW j \in Jobs, Cancel(j)
  PROVE  ThreadsInv'
  <1>1. pc' = pc /\ req' = req /\ CancelJob(j)
    BY DEF Cancel
  <1>2. View(j) \in Record /\ tokens' \in [Jobs -> BOOLEAN]
    BY <1>1, CancelCases DEF ThreadsInv
  <1>3. View(j) = jobs[j] \/ (jobs[j] = NoRecord /\ View(j) = disk[j])
    BY DEF View
  \* What a cancellation does to the job and to the locks.
  <1>4. /\ \A k \in Jobs : k # j => jobs'[k] = jobs[k] /\ disk'[k] = disk[k]
        /\ jobs'[j] \in Record
        /\ jobs' \in [Jobs -> Record \cup {NoRecord}]
        /\ disk' \in [Jobs -> Record \cup {NoRecord, Torn}]
        /\ locks' \in [Targets -> Jobs \cup {NoOwner}]
        /\ \A t \in Targets : locks'[t] = locks[t]
                              \/ (locks[t] = j /\ locks'[t] = NoOwner)
        /\ jobs'[j].status \in Active => locks' = locks
        /\ jobs'[j].status \in Active => View(j).status \in Active
        /\ View(j).status \in {"RUNNING", "CANCELLING"} =>
             jobs'[j].status \in {"RUNNING", "CANCELLING"}
    <2>1. CASE \E u \in Arguments, ok \in BOOLEAN :
                 /\ \/ View(j).status = "QUEUED" /\ u.status = "CANCELLED"
                    \/ View(j).status = "RUNNING" /\ u.status = "CANCELLING"
                 /\ UpdateJob(j, u, ok)
      <3>1. PICK u \in Arguments, ok \in BOOLEAN :
                 /\ \/ View(j).status = "QUEUED" /\ u.status = "CANCELLED"
                    \/ View(j).status = "RUNNING" /\ u.status = "CANCELLING"
                 /\ UpdateJob(j, u, ok)
        BY <2>1
      <3>2. /\ jobs' \in [Jobs -> Record \cup {NoRecord}]
            /\ disk' \in [Jobs -> Record \cup {NoRecord, Torn}]
            /\ locks' \in [Targets -> Jobs \cup {NoOwner}]
        BY <1>2, <3>1, UpdateType DEF ThreadsInv
      <3>3. /\ \A k \in Jobs : k # j => jobs'[k] = jobs[k] /\ disk'[k] = disk[k]
            /\ jobs'[j] \in Record
            /\ \/ jobs'[j].status = View(j).status
               \/ /\ jobs'[j].status = Requested(View(j).status, u.status)
                  /\ jobs'[j].status \in Successors(View(j).status)
            /\ \A t \in Targets : locks'[t] = locks[t]
                                  \/ (locks[t] = j /\ locks'[t] = NoOwner)
            /\ jobs'[j].status \in Active => locks' = locks
        BY <1>2, <3>1, UpdateEffect DEF ThreadsInv
      <3>4. View(j).status = "RUNNING" => Requested(View(j).status, u.status) = "CANCELLING"
        BY <3>1 DEF Requested, Keep
      <3>5. View(j).status \in Active
        BY <3>1 DEF Active
      <3> QED BY <3>1, <3>2, <3>3, <3>4, <3>5
    <2>2. CASE jobs' = [jobs EXCEPT ![j] = View(j)] /\ UNCHANGED <<disk, locks>>
      BY <1>2, <2>2 DEF ThreadsInv, RegistryTypeOK
    <2> QED BY <1>1, <2>1, <2>2, CancelCases DEF ThreadsInv
  <1>5. jobs'[j] # NoRecord
    BY <1>4, NoRecordFacts
  <1>6. RegistryTypeOK'
    BY <1>2, <1>4 DEF RegistryTypeOK
  <1>7. pc[j] \notin Early
    BY <1>2, NoRecordFacts DEF ThreadsInv, UnregisteredHaveNoRecord, View, Early
  <1>8. \A k \in Jobs : pc[k] # "none" => req[k].target \in Targets
    BY RequestsAssumption DEF ThreadsInv, SubmittedHaveRequest
  <1>9. Live(j) => View(j) = jobs[j]
    BY <1>3, <1>7 DEF ThreadsInv, LiveHaveRecord, Early
  <1>10. SubmittedHaveRequest' /\ UnregisteredHaveNoRecord' /\ LiveHaveRecord'
    BY <1>1, <1>4, <1>5, <1>7
    DEF ThreadsInv, SubmittedHaveRequest, UnregisteredHaveNoRecord, LiveHaveRecord,
        Live, Early
  <1>11. RegisteringHoldsLock'
    BY <1>1, <1>4, <1>7, <1>8 DEF ThreadsInv, RegisteringHoldsLock, Early
  <1>12. ActiveHoldsLock'
    BY <1>1, <1>4, <1>8, <1>9 DEF ThreadsInv, ActiveHoldsLock, Live
  <1>13. UserRuns'
    <2>1. pc[j] \in Started => Live(j)
      BY DEF Started, Live, Stopped
    <2> QED BY <1>1, <1>4, <1>9, <2>1 DEF ThreadsInv, UserRuns, Started
  <1> QED BY <1>1, <1>6, <1>10, <1>11, <1>12, <1>13 DEF ThreadsInv

LEMMA CrashKeeps ==
  ASSUME ThreadsInv, Crash
  PROVE  ThreadsInv'
  <1>1. /\ req' = req /\ jobs' = [j \in Jobs |-> NoRecord]
        /\ locks' = [t \in Targets |-> NoOwner]
        /\ tokens' = [j \in Jobs |-> FALSE]
        /\ pc' = [j \in Jobs |-> IF Live(j) THEN "dead" ELSE pc[j]]
    BY DEF Crash
  <1>2. \/ disk' = disk
        \/ \E j \in Jobs : jobs[j].status \in Active /\ disk' = [disk EXCEPT ![j] = Torn]
    BY DEF Crash
  <1>3. RegistryTypeOK'
    BY <1>1, <1>2 DEF ThreadsInv, RegistryTypeOK
  <1>4. pc' \in [Jobs -> Control]
    BY <1>1 DEF ThreadsInv, Control, Stopped
  <1>5. \A j \in Jobs : pc'[j] \in Stopped \cup {"none"} /\ (pc'[j] = "dead" \/ pc'[j] = pc[j])
    BY <1>1 DEF Live, Stopped
  <1>6. \A j \in Jobs : pc[j] \in Early => jobs[j] = NoRecord /\ disk[j] = NoRecord
    BY DEF ThreadsInv, UnregisteredHaveNoRecord, Early
  <1>7. \A j \in Jobs : pc[j] \in Early => disk'[j] = NoRecord
    BY <1>2, <1>6, NoRecordFacts DEF Status, ThreadsInv, RegistryTypeOK
  <1>8. SubmittedHaveRequest' /\ UnregisteredHaveNoRecord'
    BY <1>1, <1>5, <1>7 DEF ThreadsInv, SubmittedHaveRequest,
       UnregisteredHaveNoRecord, Early, Live, Stopped
  <1>9. LiveHaveRecord' /\ RegisteringHoldsLock' /\ ActiveHoldsLock' /\ UserRuns'
    BY <1>5 DEF LiveHaveRecord, RegisteringHoldsLock, ActiveHoldsLock, UserRuns,
       Live, Stopped
  <1> QED BY <1>1, <1>3, <1>4, <1>8, <1>9 DEF ThreadsInv

LEMMA RestartKeeps ==
  ASSUME ThreadsInv, Restart
  PROVE  ThreadsInv'
  <1>1. UNCHANGED <<req, pc, jobs, locks, tokens>> /\ ReconcileStartup
    BY DEF Restart, ReconcileStartup
  <1>2. \A j \in Jobs : \/ disk'[j] = disk[j]
                        \/ /\ disk[j].status \in Active
                           /\ disk'[j] \in {Torn, Reconciled(disk[j])}
    BY <1>1 DEF ReconcileStartup, Reconciled
  <1>3. \A j \in Jobs : disk[j].status \in Active =>
          Reconciled(disk[j]) \in Record
    BY NoRecordFacts
    DEF Reconciled, ThreadsInv, RegistryTypeOK, Record, Status, Active, Terminal
  <1>4. \E f : disk' = [j \in Jobs |-> f[j]]
    BY <1>1 DEF ReconcileStartup
  <1>5. disk' \in [Jobs -> Record \cup {NoRecord, Torn}]
    BY <1>2, <1>3, <1>4 DEF ThreadsInv, RegistryTypeOK
  <1>6. RegistryTypeOK'
    BY <1>1, <1>5 DEF ThreadsInv, RegistryTypeOK
  <1>7. UnregisteredHaveNoRecord'
    BY <1>1, <1>2, NoRecordFacts DEF ThreadsInv, UnregisteredHaveNoRecord, Status
  <1>8. /\ SubmittedHaveRequest' /\ LiveHaveRecord' /\ RegisteringHoldsLock'
        /\ ActiveHoldsLock' /\ UserRuns'
    BY <1>1 DEF ThreadsInv, SubmittedHaveRequest, LiveHaveRecord,
       RegisteringHoldsLock, ActiveHoldsLock, UserRuns, Live
  <1> QED BY <1>1, <1>6, <1>7, <1>8 DEF ThreadsInv
-----------------------------------------------------------------------------
(* The workers keep it *)

LEMMA UpdateStepKeeps ==
  ASSUME ThreadsInv, NEW j \in Jobs, NEW from \in Worker,
         NEW s \in Status \cup {Keep}, NEW v \in Verification \cup {Keep},
         NEW to \in Worker, NEW raised \in Worker,
         UpdateStep(j, from, s, v, to, raised),
         to \in Started => \/ s = "RUNNING"
                           \/ from \in Started /\ s = Keep,
         raised \in Started => from \in Started /\ s = "RUNNING"
  PROVE  ThreadsInv'
  <1>1. PICK ok \in BOOLEAN :
          UpdateJob(j, Update(s, v), ok) /\ Goto(j, IF ok THEN to ELSE raised)
    BY DEF UpdateStep
  <1>2. pc[j] = from /\ UNCHANGED <<tokens, req>>
    BY DEF UpdateStep, At, UnchangedButPc
  <1>3. Live(j) /\ pc[j] \notin Early
    BY <1>2 DEF Live, Early, Worker, SanWorker, RecWorker, Stopped
  <1>4. Update(s, v) \in Arguments /\ Update(s, v).status = s
    BY WorkerArguments DEF Update
  <1>5. CASE ok
    BY <1>1, <1>2, <1>3, <1>4, <1>5, UpdateKeeps
  <1>6. CASE ~ok
    BY <1>1, <1>2, <1>3, <1>4, <1>6, UpdateKeeps
  <1> QED BY <1>5, <1>6

LEMMA MoveStepKeeps ==
  ASSUME ThreadsInv, NEW j \in Jobs, pc[j] \in Worker,
         UNCHANGED <<registryVars, req>>, NEW to \in Worker, Goto(j, to),
         to \in Started => pc[j] \in Started
  PROVE  ThreadsInv'
  <1>1. Live(j) /\ pc[j] \notin Early
    BY DEF Live, Early, Worker, SanWorker, RecWorker, Stopped
  <1> QED BY <1>1, MoveKeeps

LEMMA SanStepKeeps ==
  ASSUME ThreadsInv, NEW j \in Jobs, SanStep(j)
  PROVE  ThreadsInv'
  <1> USE DEF Worker, SanWorker, Started
  <1>1. CASE SanToken(j)
    BY <1>1, MoveStepKeeps DEF SanToken, TokenStep, At, UnchangedButPc
  <1>2. CASE SanStatus(j)
    BY <1>2, MoveStepKeeps DEF SanStatus, At, UnchangedButPc
  <1>3. CASE SanPrecancel(j)
    BY <1>3, UpdateStepKeeps
    DEF SanPrecancel, Status, Active, Terminal, Verification
  <1>4. CASE SanRun(j)
    <2>1. PICK ok \in BOOLEAN :
            /\ UpdateJob(j, Update("RUNNING", "PENDING"), ok)
            /\ Goto(j, IF ok THEN "writing" ELSE "failing")
      BY <1>4 DEF SanRun
    <2>2. Live(j) /\ pc[j] \notin Early /\ UNCHANGED <<tokens, req>>
      BY <1>4 DEF SanRun, At, Live, Early, Stopped
    <2>3. /\ Update("RUNNING", "PENDING") \in Arguments
          /\ Update("RUNNING", "PENDING").status = "RUNNING"
      BY WorkerArguments DEF Update, Status, Active, Verification
    <2>4. CASE ok
      BY <2>1, <2>2, <2>3, <2>4, UpdateKeeps
    <2>5. CASE ~ok
      BY <2>1, <2>2, <2>3, <2>5, UpdateKeeps
    <2> QED BY <2>4, <2>5
  <1>5. CASE Overwrite(j)
    BY <1>5, MoveStepKeeps DEF Overwrite, At
  <1>6. CASE CheckProgress(j)
    BY <1>6, MoveStepKeeps DEF CheckProgress, At, UnchangedButPc
  <1>7. CASE ReportProgress(j)
    <2>1. PICK v \in {"PENDING", "IN_PROGRESS"} :
            UpdateStep(j, "report", "RUNNING", v, "writing", "writing")
      BY <1>7 DEF ReportProgress
    <2>2. "RUNNING" \in Status \cup {Keep} /\ v \in Verification \cup {Keep}
      BY DEF Status, Active, Verification
    <2>3. "report" \in Worker \cap Started /\ "writing" \in Worker
      OBVIOUS
    <2> HIDE DEF Worker, SanWorker, Started
    <2> QED BY <2>1, <2>2, <2>3, UpdateStepKeeps
  <1>8. CASE Executed(j)
    BY <1>8, MoveStepKeeps DEF Executed, At
  <1>9. CASE ExecutionRaises(j)
    BY <1>9, MoveStepKeeps DEF ExecutionRaises, At, UnchangedButPc
  <1>10. CASE SanFinal(j)
    BY <1>10, MoveStepKeeps DEF SanFinal, At, UnchangedButPc
  <1>11. CASE SanVerify(j)
    BY <1>11, UpdateStepKeeps
    DEF SanVerify, Status, Active, Terminal, Verification
  <1>12. CASE SanAudit(j)
    BY <1>12, MoveStepKeeps DEF SanAudit, AuditStep, At, UnchangedButPc
  <1>13. CASE SanComplete(j)
    BY <1>13, UpdateStepKeeps
    DEF SanComplete, Status, Active, Terminal, Verification
  <1>14. CASE SanCancel(j)
    BY <1>14, UpdateStepKeeps
    DEF SanCancel, Status, Active, Terminal, Verification
  <1>15. CASE SanAuditCancel(j)
    BY <1>15, MoveStepKeeps DEF SanAuditCancel, AuditStep, At, UnchangedButPc
  <1> QED BY <1>1, <1>2, <1>3, <1>4, <1>5, <1>6, <1>7, <1>8, <1>9, <1>10,
             <1>11, <1>12, <1>13, <1>14, <1>15 DEF SanStep

LEMMA RecStepKeeps ==
  ASSUME ThreadsInv, NEW j \in Jobs, RecStep(j)
  PROVE  ThreadsInv'
  <1> USE DEF Worker, RecWorker, Started
  <1>1. CASE RecRun(j)
    <2>1. UpdateStep(j, "rec_run", "RUNNING", "IN_PROGRESS", "rec_token", "failing")
      BY <1>1 DEF RecRun
    <2>2. "RUNNING" \in Status \cup {Keep} /\ "IN_PROGRESS" \in Verification \cup {Keep}
      BY DEF Status, Active, Verification
    <2>3. "rec_run" \in Worker /\ "rec_token" \in Worker /\ "failing" \in Worker \ Started
      OBVIOUS
    <2> HIDE DEF Worker, RecWorker, Started
    <2> QED BY <2>1, <2>2, <2>3, UpdateStepKeeps
  <1>2. CASE RecToken(j)
    BY <1>2, MoveStepKeeps DEF RecToken, TokenStep, At, UnchangedButPc
  <1>3. CASE RecScan(j)
    BY <1>3, UpdateStepKeeps
    DEF RecScan, Status, Active, Terminal, Verification
  <1>4. CASE RecToken2(j)
    BY <1>4, MoveStepKeeps DEF RecToken2, TokenStep, At, UnchangedButPc
  <1>5. CASE Carve(j)
    BY <1>5, MoveStepKeeps DEF Carve, At
  <1>6. CASE RecValidate(j)
    BY <1>6, UpdateStepKeeps
    DEF RecValidate, Status, Active, Terminal, Verification
  <1>7. CASE RecCandidate(j)
    BY <1>7, MoveStepKeeps DEF RecCandidate, At
  <1>8. CASE RecSeal(j)
    BY <1>8, UpdateStepKeeps
    DEF RecSeal, Status, Active, Terminal, Verification
  <1>9. CASE RecAudit(j)
    BY <1>9, MoveStepKeeps DEF RecAudit, AuditStep, At, UnchangedButPc
  <1>10. CASE RecComplete(j)
    BY <1>10, UpdateStepKeeps
    DEF RecComplete, Status, Active, Terminal, Verification
  <1>11. CASE RecCancel(j)
    BY <1>11, UpdateStepKeeps
    DEF RecCancel, Status, Active, Terminal, Verification
  <1>12. CASE RecRead(j)
    BY <1>12, MoveStepKeeps DEF RecRead, At, UnchangedButPc
  <1> QED BY <1>1, <1>2, <1>3, <1>4, <1>5, <1>6, <1>7, <1>8, <1>9, <1>10,
             <1>11, <1>12 DEF RecStep

LEMMA ThreadStepKeeps ==
  ASSUME ThreadsInv, NEW j \in Jobs, ThreadStep(j)
  PROVE  ThreadsInv'
  <1>1. CASE TakeLock(j)
    BY <1>1, TakeLockKeeps
  <1>2. CASE Register(j)
    BY <1>2, RegisterKeeps
  <1>3. CASE QueueAsync(j)
    <2>1. PICK ok \in BOOLEAN :
            /\ UpdateJob(j, Update("QUEUED", Keep), ok)
            /\ Goto(j, IF ok THEN "submitted" ELSE "broken")
      BY <1>3 DEF QueueAsync
    <2>2. Live(j) /\ pc[j] \notin Early /\ UNCHANGED <<tokens, req>>
      BY <1>3 DEF QueueAsync, At, Live, Early, Stopped
    <2>3. Update("QUEUED", Keep) \in Arguments
      BY WorkerArguments DEF Status, Active
    <2>4. "submitted" \notin Started /\ "broken" \notin Started
      BY DEF Started
    <2> QED BY <2>1, <2>2, <2>3, <2>4, UpdateKeeps
  <1>4. CASE StartWorker(j)
    <2>1. PICK to \in {"rec_run", "san_token"} : Goto(j, to)
      BY <1>4 DEF StartWorker
    <2>2. /\ Live(j) /\ pc[j] \notin Early /\ UNCHANGED <<registryVars, req>>
          /\ to \in Worker /\ to \notin Started
      BY <1>4, <2>1 DEF StartWorker, At, Live, Early, Stopped, Worker, SanWorker,
         RecWorker, Started
    <2> QED BY <2>1, <2>2, MoveKeeps
  <1>5. CASE SanStep(j)
    BY <1>5, SanStepKeeps
  <1>6. CASE RecStep(j)
    BY <1>6, RecStepKeeps
  <1>7. CASE Fail(j)
    BY <1>7, UpdateStepKeeps
    DEF Fail, Worker, Started, Status, Terminal
  <1>8. CASE Release(j)
    BY <1>8, ReleaseKeeps
  <1> QED BY <1>1, <1>2, <1>3, <1>4, <1>5, <1>6, <1>7, <1>8
          DEF ThreadStep, EndpointStep
-----------------------------------------------------------------------------
(* The types of the other variables *)

LEMMA OthersKeep ==
  ASSUME OthersOK, Next
  PROVE  OthersOK'
  <1> USE DEF OthersOK
  <1>1. ASSUME NEW j \in Jobs, ThreadStep(j)
        PROVE  OthersOK'
    <2>1. CASE TakeLock(j) \/ Release(j) \/ Fail(j)
      BY <2>1 DEF TakeLock, Release, Fail, UpdateStep, UnchangedButPc, workVars
    <2>2. CASE Register(j) \/ QueueAsync(j)
      <3>1. pool' = pool \/ pool' = Append(pool, j)
        BY <2>2 DEF Register, QueueAsync
      <3>2. Append(pool, j) \in Seq(Jobs)
        OBVIOUS
      <3>4. pool' \in Seq(Jobs)
        BY <3>1, <3>2
      <3>3. UNCHANGED <<left, readback, cert, up, crashes>>
        BY <2>2 DEF Register, QueueAsync, workVars
      <3> QED BY <3>3, <3>4
    <2>3. CASE StartWorker(j)
      <3>1. pool' \in Seq(Jobs)
        BY <2>3 DEF StartWorker
      <3> QED BY <2>3, <3>1 DEF StartWorker, workVars
    <2>4. CASE SanStep(j)
      <3>1. CASE \/ SanToken(j) \/ SanStatus(j) \/ SanPrecancel(j) \/ CheckProgress(j)
                 \/ ReportProgress(j) \/ ExecutionRaises(j) \/ SanFinal(j)
                 \/ SanVerify(j) \/ SanComplete(j) \/ SanCancel(j)
        BY <3>1 DEF SanToken, SanStatus, SanPrecancel, CheckProgress, ReportProgress,
           ExecutionRaises, SanFinal, SanVerify, SanComplete, SanCancel,
           TokenStep, UpdateStep, UnchangedButPc, workVars
      <3>2. CASE SanRun(j)
        BY <3>2, BoundsAssumption DEF SanRun
      <3>3. CASE Executed(j)
        BY <3>3 DEF Executed
      <3>4. CASE SanAudit(j) \/ SanAuditCancel(j)
        BY <3>4 DEF SanAudit, SanAuditCancel, AuditStep, UnchangedButPc, workVars
      <3>5. CASE Overwrite(j)
        <4>1. left[j] - 1 \in 0..MaxUnits
          BY <3>5, BoundsAssumption DEF Overwrite
        <4> QED BY <3>5, <4>1 DEF Overwrite
      <3> QED BY <2>4, <3>1, <3>2, <3>3, <3>4, <3>5 DEF SanStep
    <2>5. CASE RecStep(j)
      <3>1. CASE \/ RecRun(j) \/ RecToken(j) \/ RecRead(j) \/ RecScan(j) \/ RecToken2(j)
                 \/ RecValidate(j) \/ RecSeal(j) \/ RecComplete(j) \/ RecCancel(j)
        BY <3>1 DEF RecRun, RecToken, RecRead, RecScan, RecToken2, RecValidate,
           RecSeal, RecComplete, RecCancel, TokenStep, UpdateStep, UnchangedButPc, workVars
      <3>2. CASE Carve(j)
        BY <3>2 DEF Carve
      <3>4. CASE RecCandidate(j)
        <4>1. left' = left \/ (left[j] # 0 /\ left' = [left EXCEPT ![j] = @ - 1])
          BY <3>4 DEF RecCandidate
        <4>2. left[j] \in 0..MaxUnits
          OBVIOUS
        <4>3. left' \in [Jobs -> 0..MaxUnits]
          <5>1. CASE left[j] # 0 /\ left' = [left EXCEPT ![j] = @ - 1]
            <6>1. left[j] - 1 \in 0..MaxUnits
              BY <4>2, <5>1, BoundsAssumption
            <6> QED BY <5>1, <6>1
          <5> QED BY <4>1, <5>1
        <4> QED BY <3>4, <4>3 DEF RecCandidate
      <3>3. CASE RecAudit(j)
        BY <3>3 DEF RecAudit, AuditStep, UnchangedButPc, workVars
      <3> QED BY <2>5, <3>1, <3>2, <3>3, <3>4 DEF RecStep
    <2> QED BY <1>1, <2>1, <2>2, <2>3, <2>4, <2>5 DEF ThreadStep, EndpointStep
  <1>2. ASSUME NEW j \in Jobs, NEW r \in Requests, Submit(j, r)
        PROVE  OthersOK'
    BY <1>2 DEF Submit, workVars
  <1>3. ASSUME NEW j \in Jobs, Cancel(j) \/ GenerateCertificate(j)
        PROVE  OthersOK'
    BY <1>3 DEF Cancel, GenerateCertificate, workVars
  <1>4. CASE Crash
    <2>1. left' \in [Jobs -> 0..MaxUnits] /\ crashes' \in 0..MaxCrashes
      BY <1>4, BoundsAssumption DEF Crash
    <2>2. pool' \in Seq(Jobs)
      BY <1>4 DEF Crash
    <2> QED BY <1>4, <2>1, <2>2 DEF Crash
  <1>5. CASE Restart
    BY <1>5 DEF Restart, workVars
  <1> QED BY <1>1, <1>2, <1>3, <1>4, <1>5 DEF Next

-----------------------------------------------------------------------------
(* The theorems *)

LEMMA InitExclusion == Init => ExclusionInv
  <1> SUFFICES ASSUME Init PROVE ExclusionInv
    OBVIOUS
  <1>1. TypeOK
    BY InitType
  <1>2. \A j \in Jobs : pc[j] = "none" /\ jobs[j] = NoRecord /\ disk[j] = NoRecord
    BY DEF Init, RegistryInit
  <1> QED BY <1>1, <1>2 DEF ExclusionInv, SubmittedHaveRequest,
          UnregisteredHaveNoRecord, LiveHaveRecord, RegisteringHoldsLock,
          ActiveHoldsLock, UserRuns, Live

LEMMA StepExclusion == ExclusionInv /\ [Next]_vars => ExclusionInv'
  <1> SUFFICES ASSUME ThreadsInv, OthersOK, [Next]_vars
               PROVE  ThreadsInv' /\ OthersOK'
    BY DEF ExclusionInv, TypeOK, ThreadsInv, OthersOK
  <1>1. ASSUME NEW j \in Jobs, ThreadStep(j) PROVE ThreadsInv'
    BY <1>1, ThreadStepKeeps
  <1>2. ASSUME NEW j \in Jobs, NEW r \in Requests, Submit(j, r) PROVE ThreadsInv'
    BY <1>2, SubmitKeeps
  <1>3. ASSUME NEW j \in Jobs, Cancel(j) PROVE ThreadsInv'
    BY <1>3, CancelKeeps
  <1>4. UNCHANGED <<registryVars, req, pc>> => ThreadsInv'
    BY DEF ThreadsInv, registryVars, RegistryTypeOK, SubmittedHaveRequest,
       UnregisteredHaveNoRecord, LiveHaveRecord, RegisteringHoldsLock,
       ActiveHoldsLock, UserRuns, Live
  <1>5. ASSUME NEW j \in Jobs, GenerateCertificate(j) PROVE ThreadsInv'
    BY <1>4, <1>5 DEF GenerateCertificate
  <1>6. CASE UNCHANGED vars
    <2>1. OthersOK'
      BY <1>6 DEF OthersOK, vars, workVars
    <2> QED BY <1>4, <1>6, <2>1 DEF vars
  <1>7. CASE Next
    <2>1. OthersOK'
      BY <1>7, OthersKeep
    <2>2. ThreadsInv'
      BY <1>1, <1>2, <1>3, <1>5, <1>7, CrashKeeps, RestartKeeps DEF Next
    <2> QED BY <2>1, <2>2
  <1> QED BY <1>6, <1>7

\* The inductive invariant: locks, records and threads agree in every
\* reachable state.
THEOREM ExclusionInvariant == Spec => []ExclusionInv
  BY InitExclusion, StepExclusion, PTL DEF Spec

\* Every variable has its type, whatever is submitted, cancelled or crashes.
THEOREM TypeCorrect == Spec => []TypeOK
  <1>1. ExclusionInv => TypeOK
    BY DEF ExclusionInv
  <1> QED BY <1>1, ExclusionInvariant, PTL

\* No two workers use one target at a time, for any number of jobs, targets
\* and pool threads, and although writes of job records may fail: both would
\* be active jobs with a thread, and each would own the target's one lock.
THEOREM TargetExclusionHolds == Spec => []TargetExclusion
  <1>1. ExclusionInv => TargetExclusion
    <2> SUFFICES ASSUME ExclusionInv, NEW i \in Jobs, NEW j \in Jobs, i # j,
                        UsesTarget(i), UsesTarget(j), req[i].target = req[j].target
                 PROVE  FALSE
      BY DEF TargetExclusion
    <2>1. ASSUME NEW k \in Jobs, UsesTarget(k)
          PROVE  locks[req[k].target] = k
      <3>1. jobs[k].status \in Active /\ Live(k)
        BY <2>1 DEF ExclusionInv, UserRuns, UsesTarget, Active, Live, Stopped
      <3> QED BY <3>1 DEF ExclusionInv, ActiveHoldsLock
    <2> QED BY <2>1
  <1> QED BY <1>1, ExclusionInvariant, PTL
-----------------------------------------------------------------------------
(* Locks and cancellations *)

\* What a step of a thread can be: one of the three that handle the target's
\* lock, or a step past registration that makes at most one call of
\* update_job, without asking for cancellation.
WorkStep(j) ==
  /\ pc[j] \notin Early
  /\ View(j) \in Record
  /\ UNCHANGED tokens
  /\ \E to : Goto(j, to)
  /\ \/ UNCHANGED <<jobs, disk, locks>>
     \/ \E u \in Arguments, ok \in BOOLEAN : u.cancel = FALSE /\ UpdateJob(j, u, ok)

LEMMA UpdateStepWorks ==
  ASSUME NEW j \in Jobs, NEW from \in Worker, NEW s \in Status \cup {Keep},
         NEW v \in Verification \cup {Keep}, NEW to, NEW raised,
         UpdateStep(j, from, s, v, to, raised), View(j) \in Record
  PROVE  WorkStep(j)
  <1>1. PICK ok \in BOOLEAN :
          UpdateJob(j, Update(s, v), ok) /\ Goto(j, IF ok THEN to ELSE raised)
    BY DEF UpdateStep
  <1>2. pc[j] \notin Early /\ UNCHANGED tokens
    BY DEF UpdateStep, At, Worker, SanWorker, RecWorker, Early
  <1>3. Update(s, v) \in Arguments /\ Update(s, v).cancel = FALSE
    BY WorkerArguments DEF Update
  <1> QED BY <1>1, <1>2, <1>3 DEF WorkStep

LEMMA ThreadStepKinds ==
  ASSUME ThreadsInv, NEW j \in Jobs, ThreadStep(j)
  PROVE  TakeLock(j) \/ Register(j) \/ Release(j) \/ WorkStep(j)
  <1> DEFINE past == pc[j] \in Worker \cup {"registered", "submitted"}
  <1>1. past => View(j) \in Record /\ pc[j] \notin Early
    <2>1. past => Live(j) /\ pc[j] \notin Early
      BY DEF Live, Early, Stopped, Worker, SanWorker, RecWorker
    <2> QED BY <2>1, ViewInMemory DEF ThreadsInv, LiveHaveRecord, Early
  <1>2. CASE QueueAsync(j)
    <2>1. PICK ok \in BOOLEAN :
            /\ UpdateJob(j, Update("QUEUED", Keep), ok)
            /\ Goto(j, IF ok THEN "submitted" ELSE "broken")
      BY <1>2 DEF QueueAsync
    <2>2. pc[j] = "registered" /\ UNCHANGED tokens
      BY <1>2 DEF QueueAsync, At
    <2>3. /\ Update("QUEUED", Keep) \in Arguments
          /\ Update("QUEUED", Keep).cancel = FALSE
      BY WorkerArguments DEF Status, Active, Update
    <2> QED BY <1>1, <2>1, <2>2, <2>3 DEF WorkStep
  <1>3. CASE StartWorker(j)
    BY <1>1, <1>3 DEF StartWorker, At, registryVars, WorkStep
  <1>4. CASE SanStep(j)
    <2> USE DEF Worker, SanWorker
    <2>1. CASE \/ SanPrecancel(j) \/ SanVerify(j) \/ SanComplete(j) \/ SanCancel(j)
      <3>1. View(j) \in Record
        BY <1>1, <2>1 DEF SanPrecancel, SanVerify, SanComplete, SanCancel,
           UpdateStep, At
      <3> QED BY <2>1, <3>1, UpdateStepWorks
              DEF SanPrecancel, SanVerify, SanComplete, SanCancel, Status, Active,
                  Terminal, Verification
    <2>2. CASE ReportProgress(j)
      <3>1. PICK v \in {"PENDING", "IN_PROGRESS"} :
              UpdateStep(j, "report", "RUNNING", v, "writing", "writing")
        BY <2>2 DEF ReportProgress
      <3>2. View(j) \in Record
        BY <1>1, <3>1 DEF UpdateStep, At
      <3> QED BY <3>1, <3>2, UpdateStepWorks DEF Status, Active, Verification
    <2>3. CASE SanRun(j)
      <3>1. PICK ok \in BOOLEAN :
              /\ UpdateJob(j, Update("RUNNING", "PENDING"), ok)
              /\ Goto(j, IF ok THEN "writing" ELSE "failing")
        BY <2>3 DEF SanRun
      <3>2. pc[j] = "san_run" /\ UNCHANGED tokens
        BY <2>3 DEF SanRun, At
      <3>3. /\ Update("RUNNING", "PENDING") \in Arguments
            /\ Update("RUNNING", "PENDING").cancel = FALSE
        BY WorkerArguments DEF Status, Active, Verification, Update
      <3> QED BY <1>1, <3>1, <3>2, <3>3 DEF WorkStep
    <2>4. CASE \/ SanToken(j) \/ SanStatus(j) \/ Overwrite(j) \/ CheckProgress(j)
               \/ Executed(j) \/ ExecutionRaises(j) \/ SanFinal(j)
               \/ SanAudit(j) \/ SanAuditCancel(j)
      BY <1>1, <2>4 DEF SanToken, SanStatus, Overwrite, CheckProgress, Executed,
         ExecutionRaises, SanFinal, SanAudit, SanAuditCancel, TokenStep,
         AuditStep, At, registryVars, WorkStep
    <2> QED BY <1>4, <2>1, <2>2, <2>3, <2>4 DEF SanStep
  <1>5. CASE RecStep(j)
    <2> USE DEF Worker, RecWorker
    <2>1. CASE \/ RecRun(j) \/ RecScan(j) \/ RecValidate(j) \/ RecSeal(j)
               \/ RecComplete(j) \/ RecCancel(j)
      <3>1. View(j) \in Record
        BY <1>1, <2>1 DEF RecRun, RecScan, RecValidate, RecSeal, RecComplete,
           RecCancel, UpdateStep, At
      <3> QED BY <2>1, <3>1, UpdateStepWorks
              DEF RecRun, RecScan, RecValidate, RecSeal, RecComplete, RecCancel,
                  Status, Active, Terminal, Verification
    <2>2. CASE \/ RecToken(j) \/ RecRead(j) \/ RecToken2(j) \/ Carve(j) \/ RecCandidate(j)
               \/ RecAudit(j)
      BY <1>1, <2>2 DEF RecToken, RecRead, RecToken2, Carve, RecCandidate, RecAudit,
         TokenStep, AuditStep, At, registryVars, WorkStep
    <2> QED BY <1>5, <2>1, <2>2 DEF RecStep
  <1>6. CASE Fail(j)
    <2>1. View(j) \in Record
      BY <1>1, <1>6 DEF Fail, UpdateStep, At, Worker
    <2> QED BY <1>6, <2>1, UpdateStepWorks DEF Fail, Worker, Status, Terminal
  <1> QED BY <1>2, <1>3, <1>4, <1>5, <1>6 DEF ThreadStep, EndpointStep

\* A call of update_job leaves no lock with a job that has ended.
LEMMA UpdateKeepsOwners ==
  ASSUME RegistryTypeOK, LockOwnerActive, NEW j \in Jobs, pc[j] # "locked",
         View(j) \in Record, NEW u \in Arguments, NEW ok \in BOOLEAN,
         UpdateJob(j, u, ok), \A k \in Jobs : k # j => pc'[k] = pc[k]
  PROVE  LockOwnerActive'
  <1> SUFFICES ASSUME NEW t \in Targets, locks'[t] # NoOwner
               PROVE  \/ pc'[locks'[t]] = "locked"
                      \/ jobs'[locks'[t]].status \in Active
    BY DEF LockOwnerActive
  <1>1. locks'[t] = locks[t] /\ locks[t] \in Jobs
    BY UpdateEffect DEF RegistryTypeOK
  <1>2. pc[locks[t]] = "locked" \/ jobs[locks[t]].status \in Active
    BY <1>1 DEF LockOwnerActive
  <1>3. CASE locks[t] # j
    <2>1. jobs'[locks[t]] = jobs[locks[t]]
      BY <1>1, <1>3, UpdateEffect
    <2> QED BY <1>1, <1>2, <1>3, <2>1
  <1>4. CASE locks[t] = j
    <2>1. jobs[j].status \in Active
      BY <1>2, <1>4
    <2>2. View(j) = jobs[j]
      BY <2>1, NoRecordFacts DEF View, Status
    <2>3. \/ jobs'[j].status \in Active
          \/ jobs'[j].status = View(j).status
          \/ \A x \in Targets : locks'[x] # j
      BY UpdateEffect
    <2> QED BY <1>1, <1>4, <2>1, <2>2, <2>3
  <1> QED BY <1>3, <1>4

LEMMA StepLockOwner ==
  ASSUME ExclusionInv, LockOwnerActive, [Next]_vars
  PROVE  LockOwnerActive'
  <1>1. ThreadsInv
    BY DEF ExclusionInv, TypeOK, ThreadsInv
  <1>2. RegistryTypeOK
    BY <1>1 DEF ThreadsInv
  <1>4. ASSUME NEW j \in Jobs, TakeLock(j)
        PROVE  LockOwnerActive'
    <2> DEFINE t == req[j].target
    <2>1. pc[j] = "checked" /\ UNCHANGED jobs
      BY <1>4 DEF TakeLock, At, AcquireTargetLock, registryVars
    <2>2. \/ /\ Goto(j, "locked") /\ locks' = [locks EXCEPT ![t] = j]
             /\ CanAcquire(t, j)
          \/ Goto(j, "rejected") /\ locks' = locks
      BY <1>4 DEF TakeLock, AcquireTargetLock, registryVars
    <2>3. jobs[j].status \notin Active
      BY <1>1, <2>1, NoRecordFacts DEF ThreadsInv, UnregisteredHaveNoRecord, Status
    <2>4. \A x \in Targets : locks[x] # NoOwner => locks[x] \in Jobs /\ locks[x] # j
      BY <1>2, <2>1, <2>3 DEF RegistryTypeOK, LockOwnerActive
    <2>5. \A k \in Jobs : k # j => pc'[k] = pc[k]
      BY <1>1, <2>2 DEF Goto, ThreadsInv
    <2>6. Goto(j, "locked") => pc'[j] = "locked"
      BY <1>1 DEF Goto, ThreadsInv
    <2> SUFFICES ASSUME NEW x \in Targets, locks'[x] # NoOwner
                 PROVE  \/ pc'[locks'[x]] = "locked"
                        \/ jobs'[locks'[x]].status \in Active
      BY DEF LockOwnerActive
    <2>7. CASE locks'[x] = locks[x]
      BY <2>1, <2>4, <2>5, <2>7 DEF LockOwnerActive
    <2>8. CASE locks'[x] # locks[x]
      BY <1>2, <2>2, <2>6, <2>8 DEF RegistryTypeOK
    <2> QED BY <2>7, <2>8
  <1>5. ASSUME NEW j \in Jobs, Register(j)
        PROVE  LockOwnerActive'
    <2>1. locks' = locks /\ jobs' = [jobs EXCEPT ![j] = NewRecord]
      BY <1>5 DEF Register, CreateJob
    <2>2. \A k \in Jobs : k # j => pc'[k] = pc[k]
      BY <1>1, <1>5 DEF Register, Goto, ThreadsInv
    <2>3. NewRecord.status \in Active
      BY DEF NewRecord, Active
    <2> QED BY <1>2, <2>1, <2>2, <2>3 DEF LockOwnerActive, RegistryTypeOK
  <1>6. ASSUME NEW j \in Jobs, Release(j)
        PROVE  LockOwnerActive'
    <2>1. /\ pc[j] = "release" /\ jobs' = jobs
          /\ locks' = [locks EXCEPT ![req[j].target] = Freed(req[j].target, j)]
      BY <1>6 DEF Release, At, ReleaseTargetLock
    <2>2. \A k \in Jobs : k # j => pc'[k] = pc[k]
      BY <1>1, <1>6 DEF Release, Goto, ThreadsInv
    <2>3. \A x \in Targets : locks'[x] = locks[x] \/ locks'[x] = NoOwner
      BY <1>2, <2>1 DEF Freed, RegistryTypeOK
    <2> QED BY <1>2, <2>1, <2>2, <2>3 DEF LockOwnerActive, RegistryTypeOK
  <1>7. ASSUME NEW j \in Jobs, WorkStep(j)
        PROVE  LockOwnerActive'
    <2>1. pc[j] # "locked" /\ \A k \in Jobs : k # j => pc'[k] = pc[k]
      BY <1>1, <1>7 DEF WorkStep, Goto, Early, ThreadsInv
    <2>2. CASE UNCHANGED <<jobs, disk, locks>>
      BY <1>2, <2>1, <2>2 DEF LockOwnerActive, RegistryTypeOK
    <2>3. CASE \E u \in Arguments, ok \in BOOLEAN : UpdateJob(j, u, ok)
      BY <1>2, <1>7, <2>1, <2>3, UpdateKeepsOwners DEF WorkStep
    <2> QED BY <1>7, <2>2, <2>3 DEF WorkStep
  <1>8. ASSUME NEW j \in Jobs, Cancel(j)
        PROVE  LockOwnerActive'
    <2>1. pc' = pc /\ CancelJob(j)
      BY <1>8 DEF Cancel
    <2>2. View(j) \in Record
      BY <1>2, <2>1, CancelCases
    <2>3. pc[j] # "locked"
      BY <1>1, <2>2, NoRecordFacts DEF ThreadsInv, UnregisteredHaveNoRecord, View
    <2>4. CASE \E u \in Arguments, ok \in BOOLEAN : UpdateJob(j, u, ok)
      BY <1>2, <2>1, <2>2, <2>3, <2>4, UpdateKeepsOwners
    <2>5. CASE jobs' = [jobs EXCEPT ![j] = View(j)] /\ UNCHANGED <<disk, locks>>
      <3>1. jobs[j].status \in Active => View(j) = jobs[j]
        BY NoRecordFacts DEF View, Status
      <3> QED BY <1>2, <2>1, <2>3, <2>5, <3>1 DEF LockOwnerActive, RegistryTypeOK
    <2> QED BY <1>2, <2>1, <2>4, <2>5, CancelCases
  <1>9. CASE Crash
    BY <1>9 DEF Crash, LockOwnerActive
  <1>10. UNCHANGED <<pc, jobs, locks>> => LockOwnerActive'
    BY DEF LockOwnerActive
  <1>11. ASSUME NEW j \in Jobs, NEW r \in Requests, Submit(j, r)
         PROVE  LockOwnerActive'
    <2>1. pc[j] = "none" /\ UNCHANGED <<jobs, locks>>
      BY <1>11 DEF Submit, At, registryVars
    <2>2. \A k \in Jobs : k # j => pc'[k] = pc[k]
      BY <1>1, <1>11 DEF Submit, Goto, ThreadsInv
    <2> QED BY <1>2, <2>1, <2>2 DEF LockOwnerActive, RegistryTypeOK
  <1>12. CASE Restart \/ UNCHANGED vars \/ \E j \in Jobs : GenerateCertificate(j)
    BY <1>10, <1>12 DEF Restart, ReconcileStartup, GenerateCertificate, vars,
       registryVars
  <1> QED BY <1>1, <1>4, <1>5, <1>6, <1>7, <1>8, <1>9, <1>11, <1>12, ThreadStepKinds
          DEF Next

\* No lock outlives the job it was taken for, on any path by which a worker
\* or an endpoint can end, write faults included.
THEOREM LockOwnerActiveHolds == Spec => []LockOwnerActive
  <1>1. Init => LockOwnerActive
    BY DEF Init, RegistryInit, LockOwnerActive
  <1>2. ExclusionInv /\ LockOwnerActive /\ [Next]_vars => LockOwnerActive'
    BY StepLockOwner
  <1> QED BY <1>1, <1>2, ExclusionInvariant, PTL DEF Spec

\* A record that says a cancellation was asked for is on its way to an end
\* other than completion.
Sealed(rec) ==
  rec.cancelReq => rec.status \in {"CANCELLING", "CANCELLED", "FAILED",
                                   "INTERRUPTED", "DEVICE_DISCONNECTED"}
CancelInv == \A j \in Jobs : Sealed(jobs[j]) /\ Sealed(disk[j])

LEMMA UpdateSeals ==
  ASSUME RegistryTypeOK, CancelInv, NEW j \in Jobs, View(j) \in Record,
         NEW u \in Arguments, NEW ok \in BOOLEAN, UpdateJob(j, u, ok),
         u.cancel => \/ View(j).status = "QUEUED" /\ u.status = "CANCELLED"
                     \/ View(j).status = "RUNNING" /\ u.status = "CANCELLING"
  PROVE  CancelInv'
  <1> DEFINE cur == View(j)
             new == [WithFields(cur, u) EXCEPT !.status = Requested(cur.status, u.status)]
  <1>1. Sealed(cur)
    BY DEF CancelInv, View
  <1>2. /\ WithFields(cur, u).status = cur.status
        /\ WithFields(cur, u).cancelReq = (cur.cancelReq \/ u.cancel)
    BY DEF WithFields, Record
  <1>3. /\ new.status = Requested(cur.status, u.status)
        /\ new.cancelReq = (cur.cancelReq \/ u.cancel)
    BY <1>2 DEF WithFields, Record
  <1>4. Sealed(Torn) /\ ~Torn.cancelReq
    BY DEF Sealed, Torn
  <1>5. CASE Illegal(cur.status, u.status)
    <2>1. jobs' = [jobs EXCEPT ![j] = WithFields(cur, u)] /\ disk' = disk
      BY <1>5 DEF UpdateJob
    <2>2. ~u.cancel
      BY <1>5 DEF Illegal, Requested, Successors, Keep
    <2>3. Sealed(WithFields(cur, u))
      BY <1>1, <1>2, <2>2 DEF Sealed
    <2> QED BY <2>1, <2>3 DEF CancelInv, RegistryTypeOK
  <1>6. CASE ~Illegal(cur.status, u.status)
    <2>1. jobs' = [jobs EXCEPT ![j] = new] /\ Persist(j, new, ok)
      BY <1>6 DEF UpdateJob
    <2>2. cur.cancelReq => Sealed(new)
      <3>1. new.status = cur.status \/ new.status \in Successors(cur.status)
        BY <1>3, <1>6 DEF Illegal
      <3> QED BY <1>1, <1>3, <3>1 DEF Sealed, Successors
    <2>3. u.cancel => Sealed(new)
      BY <1>3 DEF Sealed, Requested, Keep
    <2>4. Sealed(new)
      BY <1>3, <2>2, <2>3 DEF Sealed
    <2>5. \A k \in Jobs : disk'[k] \in {disk[k], new, Torn}
      BY <2>1 DEF Persist, RegistryTypeOK
    <2>6. \A k \in Jobs : jobs'[k] \in {jobs[k], new}
      BY <2>1 DEF RegistryTypeOK
    <2> HIDE DEF new
    <2> QED BY <1>4, <2>4, <2>5, <2>6 DEF CancelInv
  <1> QED BY <1>5, <1>6

LEMMA StepCancel ==
  ASSUME ExclusionInv, CancelInv, [Next]_vars
  PROVE  CancelInv'
  <1>1. ThreadsInv /\ RegistryTypeOK
    BY DEF ExclusionInv, TypeOK, ThreadsInv
  <1>2. Sealed(NoRecord) /\ Sealed(Torn) /\ Sealed(NewRecord)
    BY DEF Sealed, NoRecord, Torn, NewRecord
  <1>3. UNCHANGED <<jobs, disk>> => CancelInv'
    BY DEF CancelInv
  <1>4. ASSUME NEW j \in Jobs, Register(j)
        PROVE  CancelInv'
    <2>1. PICK ok \in BOOLEAN : CreateJob(j, ok)
      BY <1>4 DEF Register
    <2>2. \A k \in Jobs : /\ jobs'[k] \in {jobs[k], NewRecord}
                          /\ disk'[k] \in {disk[k], NewRecord, Torn}
      BY <1>1, <2>1 DEF CreateJob, Persist, RegistryTypeOK
    <2> QED BY <1>2, <2>2 DEF CancelInv
  <1>5. ASSUME NEW j \in Jobs, WorkStep(j)
        PROVE  CancelInv'
    <2>1. CASE \E u \in Arguments, ok \in BOOLEAN : u.cancel = FALSE /\ UpdateJob(j, u, ok)
      BY <1>1, <1>5, <2>1, UpdateSeals DEF WorkStep
    <2> QED BY <1>3, <1>5, <2>1 DEF WorkStep
  <1>6. ASSUME NEW j \in Jobs, Cancel(j)
        PROVE  CancelInv'
    <2>1. CancelJob(j)
      BY <1>6 DEF Cancel
    <2>2. View(j) \in Record
      BY <1>1, <2>1, CancelCases
    <2>3. CASE \E u \in Arguments, ok \in BOOLEAN :
                 /\ \/ View(j).status = "QUEUED" /\ u.status = "CANCELLED"
                    \/ View(j).status = "RUNNING" /\ u.status = "CANCELLING"
                 /\ UpdateJob(j, u, ok)
      BY <1>1, <2>2, <2>3, UpdateSeals
    <2>4. CASE jobs' = [jobs EXCEPT ![j] = View(j)] /\ UNCHANGED <<disk, locks>>
      <3>1. \A k \in Jobs : jobs'[k] \in {jobs[k], disk[k]} /\ disk'[k] = disk[k]
        BY <1>1, <2>4 DEF View, RegistryTypeOK
      <3> QED BY <3>1 DEF CancelInv
    <2> QED BY <1>1, <2>1, <2>3, <2>4, CancelCases
  <1>7. CASE Crash
    <2>1. \A k \in Jobs : jobs'[k] = NoRecord /\ disk'[k] \in {disk[k], Torn}
      BY <1>1, <1>7 DEF Crash, RegistryTypeOK
    <2> QED BY <1>2, <2>1 DEF CancelInv
  <1>8. CASE Restart
    <2>1. jobs' = jobs
      BY <1>8 DEF Restart, ReconcileStartup
    <2>2. \A k \in Jobs : \/ disk'[k] \in {disk[k], Torn}
                          \/ /\ disk[k].status \in Active
                             /\ disk'[k] = Reconciled(disk[k])
      BY <1>8 DEF Restart, ReconcileStartup, Reconciled
    <2>3. \A k \in Jobs : disk[k].status \in Active => Sealed(Reconciled(disk[k]))
      <3>1. \A k \in Jobs : disk[k].status \in Active => disk[k] \in Record
        BY <1>1, NoRecordFacts DEF RegistryTypeOK, Status
      <3> QED BY <3>1 DEF Reconciled, Sealed, Record
    <2> QED BY <1>2, <2>1, <2>2, <2>3 DEF CancelInv
  <1>9. ASSUME NEW j \in Jobs, TakeLock(j) \/ Release(j) \/ GenerateCertificate(j)
        PROVE  CancelInv'
    BY <1>3, <1>9 DEF TakeLock, Release, GenerateCertificate, AcquireTargetLock,
       ReleaseTargetLock, registryVars
  <1>10. ASSUME NEW j \in Jobs, NEW r \in Requests, Submit(j, r)
         PROVE  CancelInv'
    BY <1>3, <1>10 DEF Submit, registryVars
  <1>11. CASE UNCHANGED vars
    BY <1>3, <1>11 DEF vars, registryVars
  <1> QED BY <1>1, <1>4, <1>5, <1>6, <1>7, <1>8, <1>9, <1>10, <1>11, ThreadStepKinds
          DEF Next

\* A cancellation the registry has accepted is final: no progress report,
\* completion, write fault or restart puts the job back on the way to
\* completion.
THEOREM CancelHonouredHolds == Spec => []CancelHonoured
  <1>1. Init => CancelInv
    <2> SUFFICES ASSUME Init PROVE CancelInv
      OBVIOUS
    <2>1. \A j \in Jobs : jobs[j] = NoRecord /\ disk[j] = NoRecord
      BY DEF Init, RegistryInit
    <2>2. Sealed(NoRecord)
      BY DEF Sealed, NoRecord
    <2> QED BY <2>1, <2>2 DEF CancelInv
  <1>2. ExclusionInv /\ CancelInv /\ [Next]_vars => CancelInv'
    BY StepCancel
  <1>3. CancelInv => CancelHonoured
    BY DEF CancelInv, CancelHonoured, Sealed, View
  <1> QED BY <1>1, <1>2, <1>3, ExclusionInvariant, PTL DEF Spec
-----------------------------------------------------------------------------
(* The lifecycle, when every write of a job record succeeds *)

\* Memory and files show one status; an ended worker has an ended job; a job
\* whose endpoint is about to queue it is queued or cancelled; a job that is
\* cancelling has its token set; and a process that is down has no threads.
FilesMatch ==
  \A j \in Jobs : disk[j] # Torn /\ (jobs[j] # NoRecord => disk[j].status = jobs[j].status)
Ending == {"release", "san_auditcancel"}
EndedBeforeRelease ==
  \A j \in Jobs : pc[j] \in Ending => jobs[j].status \in Terminal
QueuedOrCancelled ==
  \A j \in Jobs : pc[j] = "registered" => jobs[j].status \in {"QUEUED", "CANCELLED"}
CancellingHasToken ==
  up => \A j \in Jobs : View(j).status = "CANCELLING" => tokens[j]
DownIsEmpty ==
  ~up => \A j \in Jobs : ~Live(j) /\ jobs[j] = NoRecord

LifeInv ==
  /\ FilesMatch /\ ActiveHasThread /\ EndedBeforeRelease
  /\ QueuedOrCancelled /\ CancellingHasToken /\ DownIsEmpty

\* A call of update_job raises exactly when the transition is illegal, and
\* otherwise memory and file take the status asked for.
LEMMA FaultFreeUpdate ==
  ASSUME ~DiskFaults, RegistryTypeOK, FilesMatch, NEW j \in Jobs, View(j) \in Record,
         NEW u \in Arguments, NEW ok \in BOOLEAN, UpdateJob(j, u, ok)
  PROVE  /\ FilesMatch'
         /\ \A k \in Jobs : k # j => jobs'[k] = jobs[k] /\ disk'[k] = disk[k]
         /\ jobs'[j] \in Record
         /\ View(j)' = jobs'[j]
         /\ \A k \in Jobs : k # j => View(k)' = View(k)
         /\ ok <=> ~Illegal(View(j).status, u.status)
         /\ jobs'[j].status = IF ok THEN Requested(View(j).status, u.status)
                              ELSE View(j).status
  <1> DEFINE cur == View(j)
             new == [WithFields(cur, u) EXCEPT !.status = Requested(cur.status, u.status)]
  <1>1. WithFields(cur, u) \in Record /\ WithFields(cur, u).status = cur.status
    BY DEF WithFields, Record, Arguments
  <1>2. Requested(cur.status, u.status) \in Status
    BY DEF Requested, Record, Arguments, Status, Active, Terminal, Keep
  <1>3. new \in Record /\ new.status = Requested(cur.status, u.status)
    BY <1>1, <1>2 DEF Record
  <1>4. disk[j].status = cur.status
    BY DEF View, FilesMatch
  <1>5. /\ \A k \in Jobs : k # j => jobs'[k] = jobs[k] /\ disk'[k] = disk[k]
        /\ jobs'[j] \in Record
        /\ disk'[j] # Torn /\ disk'[j].status = jobs'[j].status
        /\ ok <=> ~Illegal(cur.status, u.status)
        /\ jobs'[j].status = IF ok THEN Requested(cur.status, u.status) ELSE cur.status
    <2>1. CASE Illegal(cur.status, u.status)
      <3>1. /\ ~ok /\ disk' = disk
            /\ jobs' = [jobs EXCEPT ![j] = WithFields(cur, u)]
        BY <2>1 DEF UpdateJob
      <3>2. jobs'[j] = WithFields(cur, u) /\ disk'[j] # Torn
        BY <3>1 DEF RegistryTypeOK, FilesMatch
      <3> QED BY <1>1, <1>4, <2>1, <3>1, <3>2 DEF RegistryTypeOK
    <2>2. CASE ~Illegal(cur.status, u.status)
      <3>1. jobs' = [jobs EXCEPT ![j] = new] /\ Persist(j, new, ok)
        BY <2>2 DEF UpdateJob
      <3>2. ok /\ disk' = [disk EXCEPT ![j] = new]
        BY <3>1 DEF Persist
      <3>3. new # Torn
        BY <1>3, NoRecordFacts
      <3> HIDE DEF new
      <3> QED BY <1>3, <2>2, <3>1, <3>2, <3>3 DEF RegistryTypeOK
    <2> QED BY <2>1, <2>2
  <1>6. jobs'[j] # NoRecord
    BY <1>5, NoRecordFacts
  <1>7. FilesMatch'
    BY <1>5 DEF FilesMatch
  <1>8. View(j)' = jobs'[j] /\ \A k \in Jobs : k # j => View(k)' = View(k)
    BY <1>5, <1>6 DEF View
  <1> QED BY <1>5, <1>7, <1>8

\* The statuses a worker asks for.
Asked == {Keep, "QUEUED", "RUNNING", "COMPLETED", "FAILED", "CANCELLED"}

\* A worker's call of update_job keeps the invariant, provided that it only
\* goes on to the end of its thread when its job has ended.
LEMMA UpdateKeepsLife ==
  ASSUME ~DiskFaults, ThreadsInv, LifeInv, up, NEW j \in Jobs, View(j) \in Record,
         NEW u \in Arguments, u.status \in Asked, NEW ok \in BOOLEAN, UpdateJob(j, u, ok),
         UNCHANGED <<tokens, up>>, NEW to, Goto(j, to), to # "registered",
         to \in Ending \cup Stopped \cup {"none"} => jobs'[j].status \in Terminal
  PROVE  LifeInv'
  <1>1. /\ FilesMatch'
        /\ \A k \in Jobs : k # j => jobs'[k] = jobs[k]
        /\ View(j)' = jobs'[j]
        /\ \A k \in Jobs : k # j => View(k)' = View(k)
        /\ jobs'[j].status = IF ok THEN Requested(View(j).status, u.status)
                             ELSE View(j).status
    BY FaultFreeUpdate DEF ThreadsInv, LifeInv
  <1>2. pc'[j] = to /\ \A k \in Jobs : k # j => pc'[k] = pc[k]
    BY DEF Goto, ThreadsInv
  <1>3. ActiveHasThread'
    BY <1>1, <1>2 DEF LifeInv, ActiveHasThread, Live, Active, Terminal
  <1>4. EndedBeforeRelease' /\ QueuedOrCancelled'
    BY <1>1, <1>2 DEF LifeInv, EndedBeforeRelease, QueuedOrCancelled
  <1>5. CancellingHasToken'
    <2>1. jobs'[j].status = "CANCELLING" => View(j).status = "CANCELLING"
      BY <1>1 DEF Requested, Asked, Keep
    <2> QED BY <1>1, <2>1 DEF LifeInv, CancellingHasToken
  <1>6. DownIsEmpty'
    BY DEF DownIsEmpty
  <1> QED BY <1>1, <1>3, <1>4, <1>5, <1>6 DEF LifeInv

\* A step that leaves records and tokens alone keeps it on the same terms.
LEMMA MoveKeepsLife ==
  ASSUME ThreadsInv, LifeInv, up, NEW j \in Jobs, UNCHANGED <<jobs, disk, tokens, up>>,
         NEW to, Goto(j, to), to # "registered",
         to \in Ending => jobs[j].status \in Terminal,
         to \in Stopped \cup {"none"} => View(j).status \notin Active
  PROVE  LifeInv'
  <1>1. pc'[j] = to /\ \A k \in Jobs : k # j => pc'[k] = pc[k]
    BY DEF Goto, ThreadsInv
  <1>2. \A k \in Jobs : View(k)' = View(k)
    BY DEF View
  <1>3. ActiveHasThread'
    BY <1>1, <1>2 DEF LifeInv, ActiveHasThread, Live
  <1>4. FilesMatch' /\ EndedBeforeRelease' /\ QueuedOrCancelled'
    BY <1>1 DEF LifeInv, FilesMatch, EndedBeforeRelease, QueuedOrCancelled
  <1>5. CancellingHasToken' /\ DownIsEmpty'
    BY <1>2 DEF LifeInv, CancellingHasToken, DownIsEmpty
  <1> QED BY <1>3, <1>4, <1>5 DEF LifeInv

-----------------------------------------------------------------------------
(* Steps of the lifecycle *)

Maps == [Lifecycle!Next]_(Lifecycle!vars)

\* The jobs whose request decides where they are active keep it.
SameAim == \A k \in Jobs : View(k)'.status \in Active => req'[k] = req[k]
SameStatus == \A k \in Jobs : View(k)'.status = View(k).status
OnlyStatusOf(j) == \A k \in Jobs : k # j => View(k)'.status = View(k).status
SameUse == \A k \in Jobs : UsesTarget(k)' <=> UsesTarget(k)
OnlyUseOf(j) == \A k \in Jobs : k # j => (UsesTarget(k)' <=> UsesTarget(k))

statusBar == [j \in Jobs |-> View(j).status]
activeBar == [t \in Targets |-> {j \in Jobs : View(j).status \in Active /\ req[j].target = t}]
usingBar == {j \in Jobs : UsesTarget(j)}

\* The abstract statuses and active jobs depend on what clients see, and on the
\* requests of the active jobs.
LEMMA SameStatusBar ==
  ASSUME SameStatus, SameAim
  PROVE  statusBar' = statusBar /\ activeBar' = activeBar
  BY DEF SameStatus, SameAim, statusBar, activeBar

\* A step that shows in none of the three stutters.
LEMMA MapStutter ==
  ASSUME SameStatus, SameAim, SameUse
  PROVE  Maps
  <1>1. usingBar' = usingBar
    BY DEF SameUse, usingBar
  <1>2. UNCHANGED Lifecycle!vars
    BY <1>1, SameStatusBar DEF Lifecycle!vars, statusBar, activeBar, usingBar
  <1> QED BY <1>2 DEF Maps

\* A worker goes to its target only while its job runs, and may leave it any time.
LEMMA MapMove ==
  ASSUME SameStatus, SameAim, NEW j \in Jobs, OnlyUseOf(j),
         UsesTarget(j)' => UsesTarget(j) \/ View(j).status = "RUNNING"
  PROVE  Maps
  <1>1. statusBar' = statusBar /\ activeBar' = activeBar
    BY SameStatusBar
  <1>2. CASE UsesTarget(j)' <=> UsesTarget(j)
    <2>1. SameUse
      BY <1>2 DEF SameUse, OnlyUseOf
    <2> QED BY <2>1, MapStutter
  <1>3. CASE UsesTarget(j)' /\ ~UsesTarget(j)
    <2>1. usingBar' = usingBar \cup {j} /\ statusBar[j] = "RUNNING"
      BY <1>3 DEF OnlyUseOf, usingBar, statusBar
    <2>2. Lifecycle!Enter(j)
      BY <1>1, <2>1 DEF Lifecycle!Enter, statusBar, activeBar, usingBar
    <2> QED BY <2>2 DEF Maps, Lifecycle!Next
  <1>4. CASE ~UsesTarget(j)' /\ UsesTarget(j)
    <2>1. usingBar' = usingBar \ {j} /\ j \in usingBar
      BY <1>4 DEF OnlyUseOf, usingBar
    <2>2. Lifecycle!Leave(j)
      BY <1>1, <2>1 DEF Lifecycle!Leave, statusBar, activeBar, usingBar
    <2> QED BY <2>2 DEF Maps, Lifecycle!Next
  <1> QED BY <1>2, <1>3, <1>4

\* A change of one job's status along the lifecycle.
LEMMA MapStatus ==
  ASSUME NEW j \in Jobs, OnlyStatusOf(j), req' = req, OnlyUseOf(j),
         View(j).status # View(j)'.status,
         \/ View(j).status = "QUEUED" /\ View(j)'.status = "RUNNING"
         \/ /\ ~UsesTarget(j)
            /\ \/ View(j).status = "RUNNING" /\ View(j)'.status = "COMPLETED"
               \/ View(j).status \in Active /\ View(j)'.status \in {"FAILED", "CANCELLED"}
         \/ View(j).status = "RUNNING" /\ View(j)'.status = "CANCELLING",
         (UsesTarget(j)' <=> UsesTarget(j)) \/ (UsesTarget(j)' /\ View(j)'.status = "RUNNING")
  PROVE  Maps
  <1>0. PICK s : s = View(j)'.status
    OBVIOUS
  <1>1. statusBar' = [statusBar EXCEPT ![j] = s] /\ statusBar[j] = View(j).status
    BY <1>0 DEF OnlyStatusOf, statusBar
  <1>2. usingBar' \in {usingBar, usingBar \cup {j}}
        /\ (s # "RUNNING" => usingBar' = usingBar)
    BY <1>0 DEF OnlyUseOf, usingBar
  <1>3. j \in usingBar <=> UsesTarget(j)
    BY DEF usingBar
  <1>4. CASE View(j).status \in Active /\ s \in Active
    <2>1. activeBar' = activeBar
      BY <1>0, <1>4 DEF OnlyStatusOf, activeBar
    <2>2. CASE View(j).status = "QUEUED" /\ s = "RUNNING"
      <3>1. Lifecycle!Start(j)
        BY <1>1, <1>2, <2>1, <2>2 DEF Lifecycle!Start, statusBar, activeBar, usingBar
      <3> QED BY <3>1 DEF Maps, Lifecycle!Next
    <2>3. CASE View(j).status = "RUNNING" /\ s = "CANCELLING"
      <3>1. Lifecycle!AskCancel(j)
        BY <1>1, <1>2, <2>1, <2>3 DEF Lifecycle!AskCancel, statusBar, activeBar, usingBar
      <3> QED BY <3>1 DEF Maps, Lifecycle!Next
    <2> QED BY <1>0, <1>4, <2>2, <2>3 DEF Active
  <1>5. CASE View(j).status \in Active /\ s \in {"COMPLETED", "FAILED", "CANCELLED"}
    <2>1. activeBar' = [t \in Targets |-> activeBar[t] \ {j}]
      BY <1>0, <1>5 DEF OnlyStatusOf, activeBar, Active
    <2>2. j \notin usingBar
      BY <1>0, <1>3, <1>5
    <2>3. \/ s = "COMPLETED" /\ statusBar[j] = "RUNNING"
          \/ s \in {"FAILED", "CANCELLED"} /\ statusBar[j] \in {"QUEUED", "RUNNING", "CANCELLING"}
      BY <1>0, <1>1, <1>5 DEF Active
    <2>4. s \in Lifecycle!Ended
      BY <1>5 DEF Lifecycle!Ended
    <2>5. usingBar' = usingBar
      BY <1>2, <1>5
    <2>6. Lifecycle!End(j, s)
      BY <1>1, <2>1, <2>2, <2>3, <2>5 DEF Lifecycle!End, statusBar, activeBar, usingBar
    <2> QED BY <2>4, <2>6 DEF Maps, Lifecycle!Next
  <1> QED BY <1>0, <1>4, <1>5 DEF Active

\* A worker's call of update_job is a step of the lifecycle, provided that it
\* ends its job away from the target, and goes to the target only with RUNNING.
LEMMA UpdateMaps ==
  ASSUME ~DiskFaults, ThreadsInv, LifeInv, NEW j \in Jobs, View(j) \in Record,
         NEW u \in Arguments, u.status \in Asked, NEW ok \in BOOLEAN, UpdateJob(j, u, ok),
         req' = req, NEW to, Goto(j, to),
         u.status \in {"COMPLETED", "FAILED", "CANCELLED"} => ~UsesTarget(j),
         u.status = "QUEUED" => View(j).status \in {"QUEUED", "CANCELLED"},
         \/ UsesTarget(j)' <=> UsesTarget(j)
         \/ UsesTarget(j)' /\ u.status = "RUNNING" /\ ok
  PROVE  Maps
  <1>1. /\ View(j)' = jobs'[j]
        /\ \A k \in Jobs : k # j => View(k)' = View(k)
        /\ ok <=> ~Illegal(View(j).status, u.status)
        /\ jobs'[j].status = IF ok THEN Requested(View(j).status, u.status)
                             ELSE View(j).status
    BY FaultFreeUpdate DEF ThreadsInv, LifeInv
  <1>2. \A k \in Jobs : k # j => pc'[k] = pc[k]
    BY DEF Goto, ThreadsInv
  <1>3. OnlyStatusOf(j) /\ OnlyUseOf(j)
    BY <1>1, <1>2 DEF OnlyStatusOf, OnlyUseOf, UsesTarget
  <1>4. ok /\ u.status = "RUNNING" => View(j)'.status = "RUNNING"
    BY <1>1 DEF Requested, Keep
  <1>5. CASE View(j)'.status = View(j).status
    <2>1. SameStatus /\ SameAim
      BY <1>1, <1>5 DEF SameStatus, SameAim
    <2>2. UsesTarget(j)' => UsesTarget(j) \/ View(j).status = "RUNNING"
      BY <1>4, <1>5
    <2> QED BY <1>3, <2>1, <2>2, MapMove
  <1>6. CASE View(j)'.status # View(j).status
    <2>1. /\ ok /\ View(j)'.status = Requested(View(j).status, u.status)
          /\ View(j)'.status \in Successors(View(j).status)
      BY <1>1, <1>6 DEF Illegal
    <2>2. View(j).status \in Active
      BY <2>1, SuccessorsOfActive
    <2>3. \/ View(j)'.status = u.status /\ u.status # Keep
          \/ u.status = "COMPLETED" /\ View(j).status = "CANCELLING" /\ View(j)'.status = "CANCELLED"
      BY <1>6, <2>1 DEF Requested
    <2>4. \/ View(j).status = "QUEUED" /\ View(j)'.status = "RUNNING"
          \/ /\ ~UsesTarget(j)
             /\ \/ View(j).status = "RUNNING" /\ View(j)'.status = "COMPLETED"
                \/ View(j).status \in Active /\ View(j)'.status \in {"FAILED", "CANCELLED"}
      <3>1. CASE View(j)'.status = "RUNNING"
        BY <2>1, <2>2, <3>1 DEF Successors, Active
      <3>2. CASE View(j)'.status = "QUEUED"
        BY <2>1, <2>2, <3>2 DEF Successors, Active
      <3>3. CASE View(j)'.status \in {"COMPLETED", "FAILED", "CANCELLED"}
        <4>1. ~UsesTarget(j)
          BY <2>3, <3>3
        <4>2. View(j)'.status = "COMPLETED" => View(j).status = "RUNNING"
          BY <2>1, <2>2 DEF Successors, Active
        <4> QED BY <2>2, <3>3, <4>1, <4>2
      <3> QED BY <2>3, <3>1, <3>2, <3>3 DEF Asked
    <2>5. (UsesTarget(j)' <=> UsesTarget(j)) \/ (UsesTarget(j)' /\ View(j)'.status = "RUNNING")
      BY <1>4
    <2> QED BY <1>3, <1>6, <2>4, <2>5, MapStatus
  <1> QED BY <1>5, <1>6
-----------------------------------------------------------------------------
(* The workers take steps of the lifecycle *)

\* The control points of UsesTarget, and the statuses a worker ends with.
Using == {"writing", "progress", "report", "reading", "carving"}
Final == {"COMPLETED", "FAILED", "CANCELLED"}

\* A worker's call of update_job, wherever it goes next.
LEMMA UpdateLife ==
  ASSUME ~DiskFaults, ThreadsInv, LifeInv, up, NEW j \in Jobs, pc[j] \in Worker,
         NEW s \in Asked \ {"QUEUED"}, NEW v \in Verification \cup {Keep}, NEW ok \in BOOLEAN,
         UpdateJob(j, Update(s, v), ok), UNCHANGED <<tokens, up, req>>,
         NEW to \in Worker, Goto(j, to),
         s \in Final => pc[j] \notin Using,
         to \in Ending => s \in Final /\ (ok \/ s = "FAILED"),
         \/ to \in Using <=> pc[j] \in Using
         \/ to \in Using /\ s = "RUNNING" /\ ok
  PROVE  LifeInv' /\ Maps
  <1> DEFINE u == Update(s, v)
  <1>1. u \in Arguments /\ u.status = s
    BY WorkerArguments DEF Update, Asked, Status, Active, Terminal
  <1>2. View(j) = jobs[j] /\ View(j) \in Record
    BY ViewInMemory DEF ThreadsInv, LiveHaveRecord, Live, Worker, SanWorker, RecWorker, Stopped
  <1>3. pc'[j] = to
    BY DEF Goto, ThreadsInv
  <1>4. (UsesTarget(j) <=> pc[j] \in Using) /\ (UsesTarget(j)' <=> to \in Using)
    BY <1>3 DEF UsesTarget, Using
  <1>5. to \in Ending => jobs'[j].status \in Terminal
    <2> SUFFICES ASSUME s \in Final, ok \/ s = "FAILED"
                 PROVE  jobs'[j].status \in Terminal
      OBVIOUS
    <2>1. /\ ok <=> ~Illegal(View(j).status, s)
          /\ jobs'[j].status = IF ok THEN Requested(View(j).status, s) ELSE View(j).status
      BY <1>1, <1>2, FaultFreeUpdate DEF ThreadsInv, LifeInv
    <2>2. CASE ok
      BY <2>1, <2>2 DEF Requested, Final, Terminal, Keep
    <2>3. CASE ~ok
      <3>1. "FAILED" \notin Successors(View(j).status)
        BY <2>1, <2>3 DEF Illegal, Requested, Keep
      <3>2. View(j).status \notin Active
        BY <3>1 DEF Successors, Active
      <3> QED BY <1>2, <2>1, <2>3, <3>2 DEF Record, Status
    <2> QED BY <2>2, <2>3
  <1>6. to \notin Stopped \cup {"none", "registered"}
    BY DEF Worker, SanWorker, RecWorker, Stopped
  <1> HIDE DEF u
  <1>7. LifeInv'
    BY <1>1, <1>2, <1>5, <1>6, UpdateKeepsLife DEF u
  <1>8. Maps
    BY <1>1, <1>2, <1>4, UpdateMaps DEF u, Final
  <1> QED BY <1>7, <1>8

LEMMA UpdateStepLife ==
  ASSUME ~DiskFaults, ThreadsInv, LifeInv, NEW j \in Jobs, NEW from \in Worker,
         NEW s \in Asked \ {"QUEUED"}, NEW v \in Verification \cup {Keep},
         NEW to \in Worker, NEW raised \in Worker,
         UpdateStep(j, from, s, v, to, raised),
         s \in Final => from \notin Using,
         to \in Ending => s \in Final, raised \in Ending => s = "FAILED",
         to \in Using <=> from \in Using, raised \in Using <=> from \in Using
  PROVE  LifeInv' /\ Maps
  <1>1. PICK ok \in BOOLEAN :
          UpdateJob(j, Update(s, v), ok) /\ Goto(j, IF ok THEN to ELSE raised)
    BY DEF UpdateStep
  <1>2. pc[j] = from /\ up /\ UNCHANGED <<tokens, up, req>>
    BY DEF UpdateStep, At, UnchangedButPc
  <1>3. CASE ok
    BY <1>1, <1>2, <1>3, UpdateLife
  <1>4. CASE ~ok
    BY <1>1, <1>2, <1>4, UpdateLife DEF Final
  <1> QED BY <1>3, <1>4

\* A step that leaves records and tokens alone.
LEMMA MoveLife ==
  ASSUME ThreadsInv, LifeInv, up, NEW j \in Jobs,
         UNCHANGED <<jobs, disk, tokens, up, req>>, NEW to \in Control, Goto(j, to),
         to # "registered", to \in Ending => pc[j] \in Ending,
         to \in Stopped \cup {"none"} => View(j).status \notin Active,
         to \in Using => pc[j] \in Using \/ View(j).status = "RUNNING"
  PROVE  LifeInv' /\ Maps
  <1>1. pc'[j] = to /\ \A k \in Jobs : k # j => pc'[k] = pc[k]
    BY DEF Goto, ThreadsInv
  <1>2. OnlyUseOf(j) /\ (UsesTarget(j)' => UsesTarget(j) \/ View(j).status = "RUNNING")
    BY <1>1 DEF OnlyUseOf, UsesTarget, Using
  <1>3. SameStatus /\ SameAim
    BY DEF SameStatus, SameAim, View
  <1>4. to \in Ending => jobs[j].status \in Terminal
    BY DEF LifeInv, EndedBeforeRelease
  <1>5. LifeInv'
    BY <1>4, MoveKeepsLife
  <1> QED BY <1>2, <1>3, <1>5, MapMove

\* A worker's step without update_job.  It goes on to the target when it was
\* there, or when it has found the token of its running job unset.
LEMMA WorkerMoveLife ==
  ASSUME ThreadsInv, LifeInv, up, NEW j \in Jobs, pc[j] \in Worker,
         UNCHANGED <<registryVars, up, req>>, NEW to \in Worker, Goto(j, to),
         to \in Ending => pc[j] \in Ending,
         to \in Using => pc[j] \in Using \/ (pc[j] \in Started /\ ~tokens[j])
  PROVE  LifeInv' /\ Maps
  <1>1. View(j) = jobs[j]
    BY ViewInMemory DEF ThreadsInv, LiveHaveRecord, Live, Worker, SanWorker, RecWorker, Stopped
  <1>2. pc[j] \in Started /\ ~tokens[j] => View(j).status = "RUNNING"
    BY <1>1 DEF ThreadsInv, UserRuns, Started, LifeInv, CancellingHasToken
  <1>3. to \in Control /\ to \notin Stopped \cup {"none", "registered"}
    BY DEF Control, Worker, SanWorker, RecWorker, Stopped
  <1> QED BY <1>2, <1>3, MoveLife DEF registryVars

\* The workers of both operations, step by step.
LEMMA SanStepLife ==
  ASSUME ~DiskFaults, ThreadsInv, LifeInv, NEW j \in Jobs, SanStep(j)
  PROVE  LifeInv' /\ Maps
  <1> USE DEF Worker, SanWorker, Using, Ending
  <1>1. CASE SanToken(j)
    BY <1>1, WorkerMoveLife DEF SanToken, TokenStep, At, UnchangedButPc
  <1>2. CASE SanStatus(j)
    BY <1>2, WorkerMoveLife DEF SanStatus, At, UnchangedButPc
  <1>3. CASE SanPrecancel(j)
    BY <1>3, UpdateStepLife DEF SanPrecancel, Asked, Final, Verification
  <1>4. CASE SanRun(j)
    <2>1. PICK ok \in BOOLEAN :
            /\ UpdateJob(j, Update("RUNNING", "PENDING"), ok)
            /\ Goto(j, IF ok THEN "writing" ELSE "failing")
      BY <1>4 DEF SanRun
    <2>2. pc[j] = "san_run" /\ up /\ UNCHANGED <<tokens, up, req>>
      BY <1>4 DEF SanRun, At
    <2>3. "RUNNING" \in Asked \ {"QUEUED"} /\ "PENDING" \in Verification \cup {Keep} /\ "RUNNING" \notin Final
      BY DEF Asked, Verification, Final
    <2>4. "san_run" \in Worker /\ "writing" \in Worker \cap Using /\ "failing" \in Worker \ Using
          /\ "writing" \notin Ending /\ "failing" \notin Ending /\ "san_run" \notin Using
      OBVIOUS
    <2> HIDE DEF Worker, SanWorker, Using, Ending
    <2>5. CASE ok
      BY <2>1, <2>2, <2>3, <2>4, <2>5, UpdateLife
    <2>6. CASE ~ok
      BY <2>1, <2>2, <2>3, <2>4, <2>6, UpdateLife
    <2> QED BY <2>5, <2>6
  <1>5. CASE Overwrite(j)
    BY <1>5, WorkerMoveLife DEF Overwrite, At
  <1>6. CASE CheckProgress(j)
    BY <1>6, WorkerMoveLife DEF CheckProgress, At, UnchangedButPc
  <1>7. CASE ReportProgress(j)
    <2>1. PICK v \in {"PENDING", "IN_PROGRESS"} :
            UpdateStep(j, "report", "RUNNING", v, "writing", "writing")
      BY <1>7 DEF ReportProgress
    <2>2. "RUNNING" \in Asked \ {"QUEUED"} /\ v \in Verification \cup {Keep} /\ "RUNNING" \notin Final
      BY DEF Asked, Verification, Final
    <2>3. "report" \in Worker \cap Using /\ "writing" \in Worker \cap Using /\ "writing" \notin Ending
      OBVIOUS
    <2> HIDE DEF Worker, SanWorker, Using, Ending
    <2> QED BY <2>1, <2>2, <2>3, UpdateStepLife
  <1>8. CASE Executed(j)
    BY <1>8, WorkerMoveLife DEF Executed, At
  <1>9. CASE ExecutionRaises(j)
    BY <1>9, WorkerMoveLife DEF ExecutionRaises, At, UnchangedButPc
  <1>10. CASE SanFinal(j)
    BY <1>10, WorkerMoveLife DEF SanFinal, At, UnchangedButPc
  <1>11. CASE SanVerify(j)
    BY <1>11, UpdateStepLife DEF SanVerify, Asked, Final, Verification, Keep
  <1>12. CASE SanAudit(j)
    BY <1>12, WorkerMoveLife DEF SanAudit, AuditStep, At, UnchangedButPc
  <1>13. CASE SanComplete(j)
    BY <1>13, UpdateStepLife DEF SanComplete, Asked, Final, Verification
  <1>14. CASE SanCancel(j)
    BY <1>14, UpdateStepLife DEF SanCancel, Asked, Final, Verification
  <1>15. CASE SanAuditCancel(j)
    BY <1>15, WorkerMoveLife DEF SanAuditCancel, AuditStep, At, UnchangedButPc
  <1> QED BY <1>1, <1>2, <1>3, <1>4, <1>5, <1>6, <1>7, <1>8, <1>9, <1>10,
             <1>11, <1>12, <1>13, <1>14, <1>15 DEF SanStep

LEMMA RecStepLife ==
  ASSUME ~DiskFaults, ThreadsInv, LifeInv, NEW j \in Jobs, RecStep(j)
  PROVE  LifeInv' /\ Maps
  <1> USE DEF Worker, RecWorker, Using, Ending, Started
  <1>1. CASE RecRun(j)
    BY <1>1, UpdateStepLife DEF RecRun, Asked, Final, Verification, Keep
  <1>2. CASE RecToken(j)
    BY <1>2, WorkerMoveLife DEF RecToken, TokenStep, At, UnchangedButPc
  <1>3. CASE RecScan(j)
    BY <1>3, UpdateStepLife DEF RecScan, Asked, Final, Verification, Keep
  <1>4. CASE RecToken2(j)
    BY <1>4, WorkerMoveLife DEF RecToken2, TokenStep, At, UnchangedButPc
  <1>5. CASE Carve(j)
    BY <1>5, WorkerMoveLife DEF Carve, At
  <1>6. CASE RecValidate(j)
    BY <1>6, UpdateStepLife DEF RecValidate, Asked, Final, Verification, Keep
  <1>7. CASE RecCandidate(j)
    BY <1>7, WorkerMoveLife DEF RecCandidate, At
  <1>8. CASE RecSeal(j)
    BY <1>8, UpdateStepLife DEF RecSeal, Asked, Final, Verification, Keep
  <1>9. CASE RecAudit(j)
    BY <1>9, WorkerMoveLife DEF RecAudit, AuditStep, At, UnchangedButPc
  <1>10. CASE RecComplete(j)
    BY <1>10, UpdateStepLife DEF RecComplete, Asked, Final, Verification
  <1>11. CASE RecCancel(j)
    BY <1>11, UpdateStepLife DEF RecCancel, Asked, Final, Verification
  <1>12. CASE RecRead(j)
    BY <1>12, WorkerMoveLife DEF RecRead, At, UnchangedButPc
  <1> QED BY <1>1, <1>2, <1>3, <1>4, <1>5, <1>6, <1>7, <1>8, <1>9, <1>10,
             <1>11, <1>12 DEF RecStep
-----------------------------------------------------------------------------
(* So do the endpoints and the other clients *)

\* A job is admitted when the endpoint that owns the target's lock registers
\* it: any other active job on the target would own that lock.
LEMMA RegisterLife ==
  ASSUME ~DiskFaults, ThreadsInv, LifeInv, NEW j \in Jobs, Register(j)
  PROVE  LifeInv' /\ Maps
  <1>0. PICK t \in Targets : t = req[j].target
    BY RequestsAssumption DEF Register, At, ThreadsInv, SubmittedHaveRequest
  <1>1. PICK ok \in BOOLEAN : CreateJob(j, ok) /\ (ok => \E to \in {"submitted", "registered", "san_token"} : Goto(j, to))
    BY DEF Register
  <1>2. ok /\ jobs' = [jobs EXCEPT ![j] = NewRecord] /\ disk' = [disk EXCEPT ![j] = NewRecord]
        /\ UNCHANGED <<locks, tokens>>
    BY <1>1 DEF CreateJob, Persist
  <1>3. PICK to \in {"submitted", "registered", "san_token"} : Goto(j, to)
    BY <1>1, <1>2
  <1>4. up /\ pc[j] = "locked" /\ UNCHANGED <<req, up>>
    BY DEF Register, At
  <1>5. /\ jobs'[j] = NewRecord /\ disk'[j] = NewRecord /\ pc'[j] = to
        /\ \A k \in Jobs : k # j => jobs'[k] = jobs[k] /\ disk'[k] = disk[k] /\ pc'[k] = pc[k]
    BY <1>2, <1>3 DEF Goto, ThreadsInv, RegistryTypeOK
  <1>6. NewRecord # NoRecord /\ NewRecord # Torn /\ NewRecord.status = "QUEUED"
    BY DEF NewRecord, NoRecord, Torn
  <1>7. View(j)' = NewRecord /\ \A k \in Jobs : k # j => View(k)' = View(k)
    BY <1>5, <1>6 DEF View
  <1>8. View(j).status = "NONE"
    BY <1>4 DEF ThreadsInv, UnregisteredHaveNoRecord, View, NoRecord
  <1>9. LifeInv'
    <2>1. FilesMatch' /\ EndedBeforeRelease' /\ QueuedOrCancelled'
      BY <1>5, <1>6 DEF LifeInv, FilesMatch, EndedBeforeRelease, QueuedOrCancelled, Ending
    <2>2. Live(j)' /\ \A k \in Jobs : k # j => Live(k)' = Live(k)
      BY <1>5 DEF Live, Stopped
    <2>3. ActiveHasThread' /\ CancellingHasToken' /\ DownIsEmpty'
      BY <1>2, <1>4, <1>6, <1>7, <2>2 DEF LifeInv, ActiveHasThread, CancellingHasToken, DownIsEmpty
    <2> QED BY <2>1, <2>3 DEF LifeInv
  <1>10. t \in Targets /\ locks[t] = j
    BY <1>0, <1>4 DEF ThreadsInv, RegisteringHoldsLock
  <1>11. activeBar[t] = {}
    <2> SUFFICES ASSUME NEW k \in Jobs, View(k).status \in Active, req[k].target = t
                 PROVE  FALSE
      BY <1>10 DEF activeBar
    <2>1. k # j /\ Live(k)
      BY <1>4, <1>8 DEF LifeInv, ActiveHasThread, Active
    <2>2. pc[k] \notin {"checked", "locked"}
      BY NoRecordFacts DEF ThreadsInv, UnregisteredHaveNoRecord, View, Status
    <2>3. View(k) = jobs[k]
      BY <2>1, <2>2 DEF ThreadsInv, LiveHaveRecord, View
    <2> QED BY <1>10, <2>1, <2>3 DEF ThreadsInv, ActiveHoldsLock
  <1>12. /\ statusBar' = [statusBar EXCEPT ![j] = "QUEUED"]
         /\ statusBar[j] = "NONE"
    BY <1>6, <1>7, <1>8 DEF statusBar
  <1>13. activeBar' = [activeBar EXCEPT ![t] = {j}]
    <2>1. activeBar' = [x \in Targets |-> IF x = t THEN activeBar[x] \cup {j} ELSE activeBar[x]]
      BY <1>0, <1>4, <1>6, <1>7, <1>8 DEF activeBar, Active
    <2> QED BY <1>10, <1>11, <2>1 DEF activeBar
  <1>14. usingBar' = usingBar
    BY <1>4, <1>5 DEF usingBar, UsesTarget
  <1>15. Lifecycle!Admit(j, t)
    BY <1>11, <1>12, <1>13, <1>14 DEF Lifecycle!Admit, statusBar, activeBar, usingBar
  <1>16. Lifecycle!Next
    BY <1>10, <1>15 DEF Lifecycle!Next
  <1> QED BY <1>9, <1>16 DEF Maps

\* An asynchronous job that was cancelled before it was queued stays cancelled
\* and gets no worker.
LEMMA QueueAsyncLife ==
  ASSUME ~DiskFaults, ThreadsInv, LifeInv, NEW j \in Jobs, QueueAsync(j)
  PROVE  LifeInv' /\ Maps
  <1> DEFINE u == Update("QUEUED", Keep)
  <1>1. PICK ok \in BOOLEAN : UpdateJob(j, u, ok) /\ Goto(j, IF ok THEN "submitted" ELSE "broken")
    BY DEF QueueAsync
  <1>2. pc[j] = "registered" /\ up /\ UNCHANGED <<tokens, up, req>>
    BY DEF QueueAsync, At
  <1>3. u \in Arguments /\ u.status = "QUEUED" /\ u.status \in Asked
    BY WorkerArguments DEF Update, Status, Active, Asked
  <1>4. jobs[j] # NoRecord /\ View(j) = jobs[j] /\ View(j) \in Record
    BY <1>2, ViewInMemory DEF ThreadsInv, LiveHaveRecord, Live, Stopped
  <1>5. View(j).status \in {"QUEUED", "CANCELLED"}
    BY <1>2, <1>4 DEF LifeInv, QueuedOrCancelled
  <1> HIDE DEF u
  <1>6. /\ ok <=> ~Illegal(View(j).status, "QUEUED")
        /\ jobs'[j].status = IF ok THEN Requested(View(j).status, "QUEUED") ELSE View(j).status
    BY <1>1, <1>3, <1>4, FaultFreeUpdate DEF ThreadsInv, LifeInv
  <1>7. ~ok => jobs'[j].status = "CANCELLED"
    BY <1>5, <1>6 DEF Illegal, Requested, Keep
  <1>8. PICK to \in {"submitted", "broken"} : Goto(j, to) /\ (to = "broken" <=> ~ok)
    BY <1>1
  <1>9. to \in Ending \cup Stopped \cup {"none"} => jobs'[j].status \in Terminal
    BY <1>7, <1>8 DEF Ending, Stopped, Terminal
  <1>10. LifeInv'
    BY <1>1, <1>2, <1>3, <1>4, <1>8, <1>9, UpdateKeepsLife
  <1>11. pc'[j] = to
    BY <1>8 DEF Goto, ThreadsInv
  <1>12. ~UsesTarget(j) /\ ~UsesTarget(j)'
    BY <1>2, <1>11 DEF UsesTarget
  <1>13. Maps
    BY <1>1, <1>2, <1>3, <1>4, <1>5, <1>8, <1>12, UpdateMaps
  <1> QED BY <1>10, <1>13

LEMMA ThreadStepLife ==
  ASSUME ~DiskFaults, ThreadsInv, LifeInv, NEW j \in Jobs, ThreadStep(j)
  PROVE  LifeInv' /\ Maps
  <1>1. CASE TakeLock(j)
    <2>1. PICK to \in {"locked", "rejected"} : Goto(j, to)
      BY <1>1 DEF TakeLock
    <2>2. pc[j] = "checked" /\ up /\ UNCHANGED <<jobs, disk, tokens, up, req>>
      BY <1>1 DEF TakeLock, At, UnchangedButPc, AcquireTargetLock, registryVars
    <2>3. View(j).status \notin Active
      BY <2>2, NoRecordFacts DEF ThreadsInv, UnregisteredHaveNoRecord, View, Status
    <2>4. to \in Control /\ to \notin Ending \cup Using
      BY DEF Control, Endpoint, Stopped, Ending, Using
    <2> QED BY <2>1, <2>2, <2>3, <2>4, MoveLife
  <1>2. CASE Register(j)
    BY <1>2, RegisterLife
  <1>3. CASE QueueAsync(j)
    BY <1>3, QueueAsyncLife
  <1>4. CASE StartWorker(j)
    <2>1. PICK to \in {"rec_run", "san_token"} : Goto(j, to)
      BY <1>4 DEF StartWorker
    <2>2. up /\ UNCHANGED <<jobs, disk, tokens, up, req>>
      BY <1>4 DEF StartWorker, At, registryVars
    <2>3. to \in Control /\ to \notin Ending \cup Using \cup Stopped \cup {"none"}
      BY DEF Control, Worker, SanWorker, RecWorker, Ending, Using, Stopped
    <2> QED BY <2>1, <2>2, <2>3, MoveLife
  <1>5. CASE SanStep(j)
    BY <1>5, SanStepLife
  <1>6. CASE RecStep(j)
    BY <1>6, RecStepLife
  <1>7. CASE Fail(j)
    BY <1>7, UpdateStepLife DEF Fail, Worker, Using, Ending, Asked, Final
  <1>8. CASE Release(j)
    <2>1. /\ pc[j] = "release" /\ up /\ Goto(j, "done")
          /\ UNCHANGED <<jobs, disk, tokens, up, req>>
      BY <1>8 DEF Release, At, ReleaseTargetLock, UnchangedButPc
    <2>2. jobs[j] # NoRecord
      BY <2>1 DEF ThreadsInv, LiveHaveRecord, Live, Stopped
    <2>3. View(j).status \notin Active
      BY <2>1, <2>2 DEF LifeInv, EndedBeforeRelease, Ending, View, Active, Terminal
    <2>4. "done" \in Control /\ "done" \notin Ending \cup Using
      BY DEF Control, Stopped, Ending, Using
    <2> QED BY <2>1, <2>3, <2>4, MoveLife
  <1> QED BY <1>1, <1>2, <1>3, <1>4, <1>5, <1>6, <1>7, <1>8 DEF ThreadStep, EndpointStep

\* A cancellation ends a queued job, which is not at its target, and asks a
\* running one to stop.
LEMMA CancelLife ==
  ASSUME ~DiskFaults, ThreadsInv, LifeInv, NEW j \in Jobs, Cancel(j)
  PROVE  LifeInv' /\ Maps
  <1>1. up /\ UNCHANGED <<req, pc, up>> /\ CancelJob(j)
    BY DEF Cancel
  <1>2. View(j) \in Record /\ tokens' = [tokens EXCEPT ![j] = TRUE]
    BY <1>1, CancelCases DEF ThreadsInv, CancelJob
  <1>3. tokens'[j] = TRUE /\ \A k \in Jobs : k # j => tokens'[k] = tokens[k]
    BY <1>2 DEF ThreadsInv, RegistryTypeOK
  \* What a cancellation does to the record.
  <1>4. /\ FilesMatch' /\ jobs'[j] \in Record
        /\ \A k \in Jobs : k # j => jobs'[k] = jobs[k] /\ View(k)' = View(k)
        /\ View(j)' = jobs'[j]
        /\ \/ jobs'[j].status = View(j).status
           \/ View(j).status = "QUEUED" /\ jobs'[j].status = "CANCELLED"
           \/ View(j).status = "RUNNING" /\ jobs'[j].status = "CANCELLING"
    <2>1. CASE \E u \in Arguments, ok \in BOOLEAN :
                 /\ \/ View(j).status = "QUEUED" /\ u.status = "CANCELLED"
                    \/ View(j).status = "RUNNING" /\ u.status = "CANCELLING"
                 /\ UpdateJob(j, u, ok)
      <3>1. PICK u \in Arguments, ok \in BOOLEAN :
                 /\ \/ View(j).status = "QUEUED" /\ u.status = "CANCELLED"
                    \/ View(j).status = "RUNNING" /\ u.status = "CANCELLING"
                 /\ UpdateJob(j, u, ok)
        BY <2>1
      <3>2. /\ FilesMatch' /\ jobs'[j] \in Record
            /\ \A k \in Jobs : k # j => jobs'[k] = jobs[k] /\ View(k)' = View(k)
            /\ View(j)' = jobs'[j]
            /\ jobs'[j].status = IF ok THEN Requested(View(j).status, u.status)
                                 ELSE View(j).status
        BY <1>2, <3>1, FaultFreeUpdate DEF ThreadsInv, LifeInv
      <3>3. \/ View(j).status = "QUEUED" /\ Requested(View(j).status, u.status) = "CANCELLED"
            \/ View(j).status = "RUNNING" /\ Requested(View(j).status, u.status) = "CANCELLING"
        BY <3>1 DEF Requested, Keep
      <3> QED BY <3>2, <3>3
    <2>2. CASE jobs' = [jobs EXCEPT ![j] = View(j)] /\ UNCHANGED <<disk, locks>>
      <3>1. jobs'[j] = View(j) /\ \A k \in Jobs : k # j => jobs'[k] = jobs[k]
        BY <2>2 DEF ThreadsInv, RegistryTypeOK
      <3>2. FilesMatch'
        BY <2>2, <3>1 DEF LifeInv, FilesMatch, View
      <3>3. View(j)' = jobs'[j] /\ \A k \in Jobs : k # j => View(k)' = View(k)
        BY <1>2, <2>2, <3>1, NoRecordFacts DEF View
      <3> QED BY <1>2, <3>1, <3>2, <3>3
    <2> QED BY <1>1, <2>1, <2>2, CancelCases DEF ThreadsInv
  <1>5. View(j).status \in Active => Live(j) /\ View(j) = jobs[j]
    <2> SUFFICES ASSUME View(j).status \in Active PROVE Live(j) /\ View(j) = jobs[j]
      OBVIOUS
    <2>1. Live(j)
      BY <1>1 DEF LifeInv, ActiveHasThread
    <2>2. pc[j] \notin {"checked", "locked"}
      BY NoRecordFacts DEF ThreadsInv, UnregisteredHaveNoRecord, View, Status
    <2> QED BY <2>1, <2>2 DEF ThreadsInv, LiveHaveRecord, View
  <1>6. LifeInv'
    <2>1. ActiveHasThread'
      BY <1>1, <1>4 DEF LifeInv, ActiveHasThread, Live, Active
    <2>2. CancellingHasToken' /\ DownIsEmpty'
      BY <1>1, <1>3, <1>4 DEF LifeInv, CancellingHasToken, DownIsEmpty
    <2>3. pc[j] \in Ending => jobs'[j].status \in Terminal
      <3>1. pc[j] \in Ending => jobs[j] # NoRecord
        BY DEF Ending, ThreadsInv, LiveHaveRecord, Live, Stopped
      <3>2. pc[j] \in Ending => View(j).status \in Terminal
        BY <3>1 DEF LifeInv, EndedBeforeRelease, View
      <3> QED BY <1>4, <3>2 DEF Terminal
    <2>4. pc[j] = "registered" => jobs'[j].status \in {"QUEUED", "CANCELLED"}
      <3>1. pc[j] = "registered" => jobs[j] # NoRecord
        BY DEF ThreadsInv, LiveHaveRecord, Live, Stopped
      <3>2. pc[j] = "registered" => View(j).status \in {"QUEUED", "CANCELLED"}
        BY <3>1 DEF LifeInv, QueuedOrCancelled, View
      <3> QED BY <1>4, <3>2
    <2>5. EndedBeforeRelease' /\ QueuedOrCancelled'
      BY <1>1, <1>4, <2>3, <2>4 DEF LifeInv, EndedBeforeRelease, QueuedOrCancelled
    <2> QED BY <1>4, <2>1, <2>2, <2>5 DEF LifeInv
  <1>7. SameUse /\ OnlyUseOf(j) /\ OnlyStatusOf(j)
    BY <1>1, <1>4 DEF SameUse, OnlyUseOf, OnlyStatusOf, UsesTarget
  <1>8. Maps
    <2>1. CASE View(j)'.status = View(j).status
      <3>1. SameStatus /\ SameAim
        BY <1>1, <1>7, <2>1 DEF SameStatus, OnlyStatusOf, SameAim
      <3> QED BY <1>7, <3>1, MapStutter
    <2>2. CASE View(j)'.status # View(j).status
      <3>1. \/ View(j).status = "QUEUED" /\ View(j)'.status = "CANCELLED"
            \/ View(j).status = "RUNNING" /\ View(j)'.status = "CANCELLING"
        BY <1>4, <2>2
      <3>2. View(j).status = "QUEUED" => ~UsesTarget(j)
        BY <1>5 DEF Active, UsesTarget, ThreadsInv, UserRuns
      <3>3. UsesTarget(j)' <=> UsesTarget(j)
        BY <1>7 DEF SameUse
      <3>4. View(j).status \in Active
        BY <3>1 DEF Active
      <3> QED BY <1>1, <1>7, <2>2, <3>1, <3>2, <3>3, <3>4, MapStatus
    <2> QED BY <2>1, <2>2
  <1> QED BY <1>6, <1>8

\* A submission has no record yet.
LEMMA SubmitLife ==
  ASSUME ThreadsInv, LifeInv, NEW j \in Jobs, NEW r \in Requests, Submit(j, r)
  PROVE  LifeInv' /\ Maps
  <1>1. PICK to \in {"checked", "rejected"} : Goto(j, to)
    BY DEF Submit
  <1>2. /\ up /\ pc[j] = "none" /\ req' = [req EXCEPT ![j] = r]
        /\ UNCHANGED <<jobs, disk, tokens, up>>
    BY DEF Submit, At, registryVars
  <1>3. View(j).status \notin Active
    BY <1>2, NoRecordFacts DEF ThreadsInv, UnregisteredHaveNoRecord, View, Status
  <1>4. LifeInv'
    BY <1>1, <1>2, <1>3, MoveKeepsLife DEF Ending
  <1>5. pc'[j] = to /\ \A k \in Jobs : k # j => pc'[k] = pc[k] /\ req'[k] = req[k]
    BY <1>1, <1>2 DEF Goto, ThreadsInv
  <1>6. SameStatus /\ SameAim /\ SameUse
    BY <1>2, <1>3, <1>5 DEF SameStatus, SameAim, SameUse, View, UsesTarget
  <1> QED BY <1>4, <1>6, MapStutter

\* A crash stops every thread; the files show the statuses the table showed.
LEMMA CrashLife ==
  ASSUME ~DiskFaults, ThreadsInv, LifeInv, Crash
  PROVE  LifeInv' /\ Maps
  <1>1. /\ up /\ up' = FALSE /\ UNCHANGED <<disk, req>>
        /\ jobs' = [j \in Jobs |-> NoRecord]
        /\ pc' = [j \in Jobs |-> IF Live(j) THEN "dead" ELSE pc[j]]
    BY DEF Crash
  <1>2. \A j \in Jobs : ~Live(j)' /\ (pc'[j] = "dead" \/ (pc'[j] = pc[j] /\ ~Live(j)))
    BY <1>1 DEF Live, Stopped
  <1>3. SameStatus /\ SameAim
    BY <1>1 DEF SameStatus, SameAim, View, LifeInv, FilesMatch
  <1>4. LifeInv'
    BY <1>1, <1>2 DEF LifeInv, FilesMatch, ActiveHasThread, EndedBeforeRelease,
       QueuedOrCancelled, CancellingHasToken, DownIsEmpty, Live, Ending, Stopped
  <1>5. usingBar' = {}
    BY <1>2 DEF usingBar, UsesTarget, Live, Stopped
  <1>6. Lifecycle!Stop
    BY <1>3, <1>5, SameStatusBar DEF Lifecycle!Stop, statusBar, activeBar, usingBar
  <1> QED BY <1>4, <1>6 DEF Maps, Lifecycle!Next

\* The restart interrupts every job that was active.
LEMMA RestartLife ==
  ASSUME ~DiskFaults, ThreadsInv, LifeInv, Restart
  PROVE  LifeInv' /\ Maps
  <1>1. /\ ~up /\ up' = TRUE /\ UNCHANGED <<req, pc, jobs, tokens>>
        /\ disk' = [j \in Jobs |-> Reconciled(disk[j])]
    BY DEF Restart, ReconcileStartup
  <1>2. \A j \in Jobs : ~Live(j) /\ jobs[j] = NoRecord
    BY <1>1 DEF LifeInv, DownIsEmpty
  <1>3. \A j \in Jobs : disk[j].status \in Active => disk[j] \in Record
    BY NoRecordFacts DEF ThreadsInv, RegistryTypeOK, Status
  <1>4. \A j \in Jobs :
          /\ disk'[j] # Torn
          /\ disk'[j].status = IF disk[j].status \in Active THEN "INTERRUPTED"
                               ELSE disk[j].status
    BY <1>1, <1>3 DEF Reconciled, LifeInv, FilesMatch, Record, Torn
  <1>5. \A j \in Jobs : View(j) = disk[j] /\ View(j)' = disk'[j]
    BY <1>1, <1>2 DEF View
  <1>6. LifeInv'
    BY <1>1, <1>2, <1>4, <1>5 DEF LifeInv, FilesMatch, ActiveHasThread, EndedBeforeRelease,
       QueuedOrCancelled, CancellingHasToken, DownIsEmpty, Live, Ending, Stopped, Active
  <1>7. usingBar = {} /\ usingBar' = {}
    BY <1>1, <1>2 DEF usingBar, UsesTarget, Live, Stopped
  <1>8. /\ statusBar' = [j \in Jobs |-> IF statusBar[j] \in {"QUEUED", "RUNNING", "CANCELLING"}
                                        THEN "INTERRUPTED" ELSE statusBar[j]]
        /\ activeBar' = [t \in Targets |-> {}]
    BY <1>4, <1>5 DEF statusBar, activeBar, Active
  <1>9. Lifecycle!Interrupt
    BY <1>7, <1>8 DEF Lifecycle!Interrupt, statusBar, activeBar, usingBar
  <1> QED BY <1>6, <1>9 DEF Maps, Lifecycle!Next

LEMMA StepLife ==
  ASSUME ~DiskFaults, ThreadsInv, LifeInv, [Next]_vars
  PROVE  LifeInv' /\ Maps
  <1>1. CASE UNCHANGED <<jobs, disk, tokens, req, pc, up>>
    <2>1. LifeInv'
      BY <1>1 DEF LifeInv, FilesMatch, ActiveHasThread, EndedBeforeRelease,
         QueuedOrCancelled, CancellingHasToken, DownIsEmpty, Live, View
    <2>2. SameStatus /\ SameAim /\ SameUse
      BY <1>1 DEF SameStatus, SameAim, SameUse, View, UsesTarget
    <2> QED BY <2>1, <2>2, MapStutter
  <1>2. ASSUME NEW j \in Jobs, GenerateCertificate(j)
        PROVE  LifeInv' /\ Maps
    BY <1>1, <1>2 DEF GenerateCertificate, registryVars
  <1>3. CASE UNCHANGED vars
    BY <1>1, <1>3 DEF vars, registryVars
  <1> QED BY <1>2, <1>3, ThreadStepLife, SubmitLife, CancelLife, CrashLife, RestartLife DEF Next

LEMMA InitLife == Init => LifeInv /\ Lifecycle!Init
  <1> SUFFICES ASSUME Init PROVE LifeInv /\ Lifecycle!Init
    OBVIOUS
  <1>1. \A j \in Jobs : pc[j] = "none" /\ jobs[j] = NoRecord /\ disk[j] = NoRecord
    BY DEF Init, RegistryInit
  <1>2. \A j \in Jobs : View(j).status = "NONE" /\ ~UsesTarget(j)
    <2>1. \A j \in Jobs : View(j) = NoRecord
      BY <1>1 DEF View
    <2>2. NoRecord.status = "NONE"
      BY DEF NoRecord
    <2>3. \A j \in Jobs : ~UsesTarget(j)
      BY <1>1 DEF UsesTarget
    <2> QED BY <2>1, <2>2, <2>3
  <1>3. NoRecord # Torn /\ up
    BY DEF NoRecord, Torn, Init
  <1>4. LifeInv
    BY <1>1, <1>2, <1>3 DEF LifeInv, FilesMatch, ActiveHasThread, EndedBeforeRelease,
       QueuedOrCancelled, CancellingHasToken, DownIsEmpty, Ending, Active
  <1>5. Lifecycle!Init
    BY <1>2 DEF Lifecycle!Init, Active
  <1> QED BY <1>4, <1>5

\* When job records can be written, memory and files agree, and the threads
\* with the records they still have to end.
THEOREM LifeInvariant ==
  ASSUME ~DiskFaults
  PROVE  Spec => []LifeInv
  <1>1. Init => LifeInv
    BY InitLife
  <1>2. ExclusionInv /\ LifeInv /\ [Next]_vars => LifeInv'
    BY StepLife DEF ExclusionInv, TypeOK, ThreadsInv
  <1> QED BY <1>1, <1>2, ExclusionInvariant, PTL DEF Spec

\* While records can be written, no job is shown as active without a thread
\* that will end it: not after a restart, not when an endpoint gave up.
THEOREM ActiveHasThreadHolds ==
  ASSUME ~DiskFaults
  PROVE  Spec => []ActiveHasThread
  <1>1. LifeInv => ActiveHasThread
    BY DEF LifeInv
  <1> QED BY <1>1, LifeInvariant, PTL

\* While records can be written, the server implements the lifecycle: every
\* critical section, step of a worker, crash and restart is one step of the
\* documented lifecycle or none.  One job at a time is admitted to a target,
\* a job completes only when nobody asked it to cancel, and it ends only when
\* it has left its target.
THEOREM ImplementsLifecycleHolds ==
  ASSUME ~DiskFaults
  PROVE  Spec => ImplementsLifecycle
  <1>1. Init => Lifecycle!Init
    BY InitLife
  <1>2. ExclusionInv /\ LifeInv /\ [Next]_vars => [Lifecycle!Next]_(Lifecycle!vars)
    BY StepLife DEF ExclusionInv, TypeOK, ThreadsInv, Maps
  <1> QED BY <1>1, <1>2, LifeInvariant, ExclusionInvariant, PTL
          DEF Spec, ImplementsLifecycle, Lifecycle!Spec

\* No step of the lifecycle takes a job out of a terminal status.
LEMMA LifecycleEnds ==
  ASSUME Maps, NEW j \in Jobs, View(j).status \in Terminal
  PROVE  View(j)'.status = View(j).status
  <1>1. statusBar[j] = View(j).status /\ statusBar'[j] = View(j)'.status
    BY DEF statusBar
  <1>2. statusBar[j] \notin {"NONE", "QUEUED", "RUNNING", "CANCELLING"}
    BY <1>1 DEF Terminal
  <1>3. CASE statusBar' = statusBar
    BY <1>1, <1>3
  <1>4. CASE \E k \in Jobs : \E s :
               /\ statusBar[k] \in {"NONE", "QUEUED", "RUNNING", "CANCELLING"}
               /\ statusBar' = [statusBar EXCEPT ![k] = s]
    BY <1>1, <1>2, <1>4
  <1>5. CASE statusBar' = [k \in Jobs |-> IF statusBar[k] \in {"QUEUED", "RUNNING", "CANCELLING"}
                                          THEN "INTERRUPTED" ELSE statusBar[k]]
    BY <1>1, <1>2, <1>5
  <1>6. CASE UNCHANGED Lifecycle!vars
    BY <1>3, <1>6 DEF Lifecycle!vars, statusBar
  <1>7. CASE Lifecycle!Stop \/ Lifecycle!Interrupt
    BY <1>3, <1>5, <1>7 DEF Lifecycle!Stop, Lifecycle!Interrupt, statusBar
  <1>8. ASSUME NEW k \in Jobs, NEW t \in Targets, Lifecycle!Admit(k, t)
        PROVE  View(j)'.status = View(j).status
    BY <1>4, <1>8 DEF Lifecycle!Admit, statusBar
  <1>9. ASSUME NEW k \in Jobs, Lifecycle!Start(k) \/ Lifecycle!AskCancel(k)
        PROVE  View(j)'.status = View(j).status
    BY <1>4, <1>9 DEF Lifecycle!Start, Lifecycle!AskCancel, statusBar
  <1>10. ASSUME NEW k \in Jobs, Lifecycle!Enter(k) \/ Lifecycle!Leave(k)
         PROVE  View(j)'.status = View(j).status
    BY <1>3, <1>10 DEF Lifecycle!Enter, Lifecycle!Leave, statusBar
  <1>11. ASSUME NEW k \in Jobs, NEW s \in Lifecycle!Ended, Lifecycle!End(k, s)
         PROVE  View(j)'.status = View(j).status
    <2>1. /\ statusBar[k] \in {"RUNNING", "QUEUED", "CANCELLING"}
          /\ statusBar' = [statusBar EXCEPT ![k] = s]
      BY <1>11 DEF Lifecycle!End, statusBar
    <2> QED BY <1>1, <1>2, <2>1
  <1> QED BY <1>6, <1>7, <1>8, <1>9, <1>10, <1>11 DEF Maps, Lifecycle!Next

\* While records can be written, what clients see of an ended job never
\* changes, restarts included.
THEOREM TerminalImmutableHolds ==
  ASSUME ~DiskFaults
  PROVE  Spec => TerminalImmutable
  <1>1. ExclusionInv /\ LifeInv /\ [Next]_vars
        => [\A j \in Jobs : View(j).status \in Terminal => View(j)'.status = View(j).status]_vars
    BY StepLife, LifecycleEnds DEF ExclusionInv, TypeOK, ThreadsInv
  <1> QED BY <1>1, LifeInvariant, ExclusionInvariant, PTL DEF Spec, TerminalImmutable

\* Only generate_certificate issues a certificate.
LEMMA CertKept ==
  ASSUME [Next]_vars
  PROVE  cert' = cert \/ \E j \in Jobs : GenerateCertificate(j)
  <1>1. ASSUME NEW j \in Jobs, EndpointStep(j)
        PROVE  cert' = cert
    BY <1>1 DEF EndpointStep, TakeLock, Register, QueueAsync, StartWorker, UnchangedButPc
  <1>2. ASSUME NEW j \in Jobs, SanStep(j)
        PROVE  cert' = cert
    BY <1>2 DEF SanStep, SanToken, SanStatus, SanPrecancel, SanRun, Overwrite, CheckProgress,
       ReportProgress, Executed, ExecutionRaises, SanFinal, SanVerify, SanAudit, SanComplete,
       SanCancel, SanAuditCancel, UpdateStep, TokenStep, AuditStep, UnchangedButPc
  <1>3. ASSUME NEW j \in Jobs, RecStep(j)
        PROVE  cert' = cert
    BY <1>3 DEF RecStep, RecRun, RecToken, RecRead, RecScan, RecToken2, Carve, RecValidate,
       RecCandidate, RecSeal, RecAudit, RecComplete, RecCancel, UpdateStep, TokenStep, AuditStep, UnchangedButPc
  <1>4. ASSUME NEW j \in Jobs, Fail(j) \/ Release(j) \/ Cancel(j)
        PROVE  cert' = cert
    BY <1>4 DEF Fail, Release, Cancel, UpdateStep, UnchangedButPc
  <1>5. ASSUME NEW j \in Jobs, NEW r \in Requests, Submit(j, r)
        PROVE  cert' = cert
    BY <1>5 DEF Submit
  <1>6. CASE Crash \/ Restart \/ UNCHANGED vars
    BY <1>6 DEF Crash, Restart, vars
  <1> QED BY <1>1, <1>2, <1>3, <1>4, <1>5, <1>6 DEF Next, ThreadStep

\* While records can be written, a job that was certified as completed is a
\* completed job ever after.
THEOREM CertificateStandsHolds ==
  ASSUME ~DiskFaults
  PROVE  Spec => []CertificateStands
  <1>1. Init => CertificateStands
    BY DEF Init, CertificateStands
  <1>2. ASSUME ExclusionInv, LifeInv, CertificateStands, [Next]_vars
        PROVE  CertificateStands'
    <2>1. \A j \in Jobs : View(j).status = "COMPLETED" => View(j)'.status = "COMPLETED"
      BY <1>2, StepLife, LifecycleEnds DEF ExclusionInv, TypeOK, ThreadsInv, Terminal
    <2>2. \A j \in Jobs : cert'[j] => cert[j] \/ View(j).status = "COMPLETED"
      <3>1. cert' = cert \/ \E j \in Jobs : GenerateCertificate(j)
        BY <1>2, CertKept
      <3> QED BY <1>2, <3>1 DEF GenerateCertificate, ExclusionInv, TypeOK
    <2> QED BY <1>2, <2>1, <2>2 DEF CertificateStands
  <1> QED BY <1>1, <1>2, LifeInvariant, ExclusionInvariant, PTL DEF Spec
=============================================================================
