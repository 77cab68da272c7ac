----------------------------- MODULE CaseLedger -----------------------------
(***************************************************************************)
(* The files of one case that ForensicCaseManager (forensic_vault.py)      *)
(* appends to: the hash-linked audit chain, the timeline, the custody      *)
(* records, the evidence list, and case.json.  Every append reads the      *)
(* whole file, adds one entry and replaces the file atomically             *)
(* (safe_atomic_write).  The public operations hold the manager's lock     *)
(* across all their appends; the workers of drex_server.py call            *)
(* _record_timeline_event and _append_audit_event directly, without it.    *)
(*                                                                         *)
(* A hash is abstracted by what it hashes: event identifiers are unique,   *)
(* so two events have the same hash only if they are the same event.       *)
(***************************************************************************)
EXTENDS Naturals, Sequences

CONSTANTS
  Writers,      \* threads: each performs one operation
  NoOne,        \* the lock is free
  Operations,   \* the operations the writers may perform
  ReadFaults,   \* may the read of a file fail?
  WriteFaults,  \* may the replacement of a file fail?
  MaxCrashes    \* bound: crashes of the process

Files == {"case", "evidence", "custody", "timeline", "audit"}

\* An append: the file, and the type of the entry that is added to it.  A type
\* stands for what happened; some operations that are not listed below call it
\* by one name in the timeline and by another in the chain (a promoted file is
\* RECOVERY_COMPLETED there and EVIDENCE_ACQUIRED here).
To(f, t) == [file |-> f, type |-> t]

\* The appends of the operations that only leave a trace.
Recorded(t) == <<To("timeline", t), To("audit", t)>>

\* Mutant: the custody event is logged before its record is written.
CustodyLoggedFirst ==
  <<To("timeline", "CUSTODY_CHANGE"), To("audit", "CUSTODY_CHANGE"),
    To("custody", "CUSTODY_CHANGE")>>

\* record_custody_event, which register_evidence calls too.
Custody ==
  <<To("custody", "CUSTODY_CHANGE"), To("timeline", "CUSTODY_CHANGE"),
    To("audit", "CUSTODY_CHANGE")>>

\* What each operation appends to, in order.  update_case_status,
\* record_custody_event, register_evidence, record_recovery_event and
\* record_performance_benchmark hold the lock; the recovery and sanitization
\* workers and run_scan_job do not.
Appends ==
  [STATUS    |-> <<To("case", "CASE_STATUS_UPDATED"), To("timeline", "CASE_STATUS_UPDATED"),
                  To("audit", "CASE_STATUS_UPDATED")>>,
   CUSTODY   |-> Custody,
   EVIDENCE  |-> <<To("evidence", "EVIDENCE_REGISTERED"), Custody[1], Custody[2], Custody[3],
                  To("timeline", "EVIDENCE_REGISTERED"), To("audit", "EVIDENCE_REGISTERED")>>,
   RECOVERY  |-> Recorded("RECOVERY_COMPLETED"),
   BENCHMARK |-> <<To("audit", "PERFORMANCE_BENCHMARK_COMPLETED")>>,
   SCAN      |-> Recorded("RECOVERY_SCAN"),
   SANITIZE  |-> <<To("audit", "SANITIZATION_EXECUTION")>>]

LockedOperations == {"STATUS", "CUSTODY", "EVIDENCE", "RECOVERY", "BENCHMARK"}

\* The types of event that are entered in the timeline as well.
TimelineTypes == {"CASE_CREATED", "CASE_STATUS_UPDATED", "CUSTODY_CHANGE",
                  "EVIDENCE_REGISTERED", "RECOVERY_COMPLETED", "RECOVERY_SCAN"}

Types == (TimelineTypes \ {"CASE_CREATED"})
           \cup {"PERFORMANCE_BENCHMARK_COMPLETED", "SANITIZATION_EXECUTION"}

ASSUME OperationsAssumption == Operations \subseteq DOMAIN Appends
ASSUME LedgerAssumption ==
  /\ NoOne \notin Writers
  /\ ReadFaults \in BOOLEAN /\ WriteFaults \in BOOLEAN
  /\ MaxCrashes \in Nat

VARIABLES
  file,     \* the entries of each file but the audit chain
  chain,    \* audit/audit_chain.json
  op,       \* the operation of each writer, or "none"
  step,     \* the append it is at
  phase,    \* what it does next
  rows,     \* the entries it has read, when the file is not the audit chain
  events,   \* the events it has read, when it is
  lock,     \* ForensicCaseManager._lock
  crashes   \* crashes so far

vars == <<file, chain, op, step, phase, rows, events, lock, crashes>>

Entry(w, t) == [by |-> w, type |-> t]

\* What create_case leaves in case.json, the timeline and the chain.
Created == [by |-> NoOne, type |-> "CASE_CREATED"]
Entries == [by : Writers, type : Types] \cup {Created}
Genesis == [by |-> NoOne, type |-> "GENESIS"]
Event == [entry : Entries, seq : Nat, prev : Entries \cup {Genesis}]

Now(w) == Appends[op[w]][step[w]]
Locked(o) == o \in LockedOperations

-----------------------------------------------------------------------------

\* Mutant: the sequence number is the last index, not the next one.
StaleSequence(w, evts) ==
  [entry |-> Entry(w, Now(w).type),
   seq   |-> Len(evts) - 1,
   prev  |-> IF evts = <<>> THEN Genesis ELSE evts[Len(evts)].entry]

\* AuditEvent.create on the events that were read.
NextEvent(w, evts) ==
  [entry |-> Entry(w, Now(w).type),
   seq   |-> Len(evts),
   prev  |-> IF evts = <<>> THEN Genesis ELSE evts[Len(evts)].entry]

\* Mutant: no operation takes the lock.
BeginUnlocked(w, o) ==
  /\ op[w] = "none"
  /\ op' = [op EXCEPT ![w] = o]
  /\ step' = [step EXCEPT ![w] = 1]
  /\ phase' = [phase EXCEPT ![w] = "read"]
  /\ UNCHANGED <<file, chain, rows, events, lock, crashes>>

Begin(w, o) ==
  /\ op[w] = "none"
  /\ IF Locked(o) THEN lock = NoOne /\ lock' = w ELSE lock' = lock
  /\ op' = [op EXCEPT ![w] = o]
  /\ step' = [step EXCEPT ![w] = 1]
  /\ phase' = [phase EXCEPT ![w] = "read"]
  /\ UNCHANGED <<file, chain, rows, events, crashes>>

Read(w) ==
  /\ phase[w] = "read"
  /\ phase' = [phase EXCEPT ![w] = "write"]
  /\ IF Now(w).file = "audit"
     THEN events' = [events EXCEPT ![w] = chain] /\ rows' = rows
     ELSE rows' = [rows EXCEPT ![w] = file[Now(w).file]] /\ events' = events
  /\ UNCHANGED <<file, chain, op, step, lock, crashes>>

\* Mutant: an operation that fails halfway keeps the lock.
LeaveHolding(w, how) ==
  /\ phase' = [phase EXCEPT ![w] = how]
  /\ lock' = IF how = "done" /\ lock = w THEN NoOne ELSE lock

\* The end of an operation, however it ends.
Leave(w, how) ==
  /\ phase' = [phase EXCEPT ![w] = how]
  /\ lock' = IF lock = w THEN NoOne ELSE lock

\* The file cannot be read or parsed.  There is no case without case.json;
\* every other file counts as an empty one.
ReadFails(w) ==
  /\ ReadFaults
  /\ phase[w] = "read"
  /\ IF Now(w).file = "case"
     THEN Leave(w, "failed") /\ rows' = rows /\ events' = events
     ELSE /\ phase' = [phase EXCEPT ![w] = "write"]
          /\ rows' = [rows EXCEPT ![w] = <<>>]
          /\ events' = [events EXCEPT ![w] = <<>>]
          /\ lock' = lock
  /\ UNCHANGED <<file, chain, op, step, crashes>>

\* The file is replaced; the operation goes on to its next append or ends.
Write(w) ==
  /\ phase[w] = "write"
  /\ IF Now(w).file = "audit"
     THEN /\ chain' = Append(events[w], NextEvent(w, events[w]))
          /\ file' = file
     ELSE /\ file' = [file EXCEPT ![Now(w).file] =
                        Append(IF Now(w).file = "case" THEN <<>> ELSE rows[w],
                               Entry(w, Now(w).type))]
          /\ chain' = chain
  /\ \/ /\ step[w] < Len(Appends[op[w]])
        /\ step' = [step EXCEPT ![w] = @ + 1]
        /\ phase' = [phase EXCEPT ![w] = "read"]
        /\ lock' = lock
     \/ /\ step[w] = Len(Appends[op[w]])
        /\ Leave(w, "done")
        /\ step' = step
  /\ UNCHANGED <<op, rows, events, crashes>>

\* os.replace raises: the operation stops, and what it has appended stays.
WriteFails(w) ==
  /\ WriteFaults
  /\ phase[w] = "write"
  /\ Leave(w, "failed")
  /\ UNCHANGED <<file, chain, op, step, rows, events, crashes>>

\* The process dies between two system calls and is started again.
Crash ==
  /\ crashes < MaxCrashes
  /\ crashes' = crashes + 1
  /\ phase' = [w \in Writers |-> IF phase[w] \in {"read", "write"} THEN "dead" ELSE phase[w]]
  /\ lock' = NoOne
  /\ UNCHANGED <<file, chain, op, step, rows, events>>

-----------------------------------------------------------------------------

Init ==
  /\ file = [f \in Files \ {"audit"} |-> IF f \in {"case", "timeline"} THEN <<Created>> ELSE <<>>]
  /\ chain = <<[entry |-> Created, seq |-> 0, prev |-> Genesis]>>
  /\ op = [w \in Writers |-> "none"]
  /\ step = [w \in Writers |-> 1]
  /\ phase = [w \in Writers |-> "idle"]
  /\ rows = [w \in Writers |-> <<>>]
  /\ events = [w \in Writers |-> <<>>]
  /\ lock = NoOne
  /\ crashes = 0

Append1(w) == Read(w) \/ ReadFails(w) \/ Write(w) \/ WriteFails(w)

Next ==
  \/ \E w \in Writers, o \in Operations : Begin(w, o)
  \/ \E w \in Writers : Append1(w)
  \/ Crash

Spec == Init /\ [][Next]_vars

\* A thread that is inside an operation is scheduled.
FairSpec == Spec /\ \A w \in Writers : WF_vars(Append1(w))
-----------------------------------------------------------------------------
(* Verifiers *)

\* IndependentAuditVerifier.verify_chain returns VALID.
Verifies(evts) ==
  \A i \in DOMAIN evts :
    /\ evts[i].seq = i - 1
    /\ evts[i].prev = IF i = 1 THEN Genesis ELSE evts[i - 1].entry

Logged(evts) == [i \in DOMAIN evts |-> evts[i].entry]

\* The entries of the given types, in order.
OfType(entries, types) ==
  LET F[i \in 0..Len(entries)] ==
        IF i = 0 THEN <<>>
        ELSE IF entries[i].type \in types THEN Append(F[i - 1], entries[i]) ELSE F[i - 1]
  IN  F[Len(entries)]

\* verify_custody_records returns VALID: no records, or those of the events.
CustodyValid ==
  file["custody"] \in {<<>>, OfType(Logged(chain), {"CUSTODY_CHANGE"})}

-----------------------------------------------------------------------------
(* Properties *)

\* Every variable has its type.
TypeOK ==
  /\ file \in [Files \ {"audit"} -> Seq(Entries)]
  /\ chain \in Seq(Event)
  /\ op \in [Writers -> Operations \cup {"none"}]
  /\ step \in [Writers -> 1..6]
  /\ phase \in [Writers -> {"idle", "read", "write", "done", "failed", "dead"}]
  /\ rows \in [Writers -> Seq(Entries)]
  /\ events \in [Writers -> Seq(Event)]
  /\ lock \in Writers \cup {NoOne}
  /\ crashes \in 0..MaxCrashes

\* The audit chain on disk verifies at every instant: whatever is lost to
\* unlocked writers, unreadable files and crashes, the verifier sees a chain
\* that starts at genesis, with consecutive numbers and matching links.
ChainVerifies == Verifies(chain)

\* The custody record is written before the custody event: no crash and no
\* failed write leaves an event without its record.
CustodyFirst ==
  \A i \in DOMAIN chain : chain[i].entry.type = "CUSTODY_CHANGE" =>
    \E k \in DOMAIN file["custody"] : file["custody"][k] = chain[i].entry

\* No operation was cut short.
Undisturbed == crashes = 0 /\ \A w \in Writers : phase[w] # "failed"

\* Unless an operation was cut short, whoever takes the lock next finds
\* custody records and custody events that verify against each other.
CustodyVerifies == lock = NoOne /\ Undisturbed => CustodyValid

\* Unless an operation was cut short, whoever takes the lock next finds the
\* timeline and the chain telling the same story, but for the events that are
\* logged in the chain alone, and case.json showing the status the chain
\* recorded last.
FilesAgree ==
  lock = NoOne /\ Undisturbed =>
    /\ file["timeline"] = OfType(Logged(chain), TimelineTypes)
    /\ LET changes == OfType(Logged(chain), {"CASE_CREATED", "CASE_STATUS_UPDATED"})
       IN file["case"] = <<changes[Len(changes)]>>

\* The audit chain is append-only: an event that is in the file stays there,
\* at its place.
AuditAppendOnly ==
  [][/\ Len(chain') = Len(chain) + 1
     /\ SubSeq(chain', 1, Len(chain)) = chain]_chain

\* The lock does not stay with one writer: no operation keeps it when it
\* fails halfway.
LockComesFree == \A w \in Writers : (lock = w) ~> (lock # w)
=============================================================================
