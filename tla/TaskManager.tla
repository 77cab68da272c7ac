---------------------------- MODULE TaskManager ----------------------------
(***************************************************************************)
(* DrexTaskManager (drex_app.py): one task at a time on a pool of threads, *)
(* with a cancellation event and a stopwatch that all tasks share.  The    *)
(* body of a task is one of the application's operations: it polls the     *)
(* cancellation event, settles its outcome at its last poll, and announces *)
(* it on the event bus before it returns to the wrapper of submit_task.    *)
(***************************************************************************)
EXTENDS EventBus, Naturals

CONSTANT MaxTasks   \* bound: the submissions that are accepted

ASSUME TaskAssumption == MaxTasks \in Nat

Tasks == 1..MaxTasks

\* drive: start_operation's _drive_op_thread;  file: _run_file_operation;
\* scan: _run_recovery_scan;  recover: _run_candidate_recovery.
Kinds == {"drive", "file", "scan", "recover"}
Ends == {"SUCCESS", "FAILED", "CANCELLED"}

VARIABLES
  state,         \* DrexTaskManager.state
  cancelEvent,   \* DrexTaskManager.cancel_event is set
  timer,         \* DrexTimer is running
  thread,        \* where the thread of each task is
  kind,          \* the operation each task performs, until it is done
  outcome        \* how that operation ended, until the task is done

taskVars == <<state, cancelEvent, timer, thread, kind, outcome>>

Places == {"none", "queued", "body", "closing", "returned", "stopped", "done", "dropped"}

\* Mutant: a task that waits for a thread does not count.
ActiveWhenRunning == state = "RUNNING"

\* is_active.  The code also lists VALIDATING, VERIFYING and FINALIZING, which
\* it never sets.
Active == state \in {"QUEUED", "RUNNING"}

\* The check of submit_task.
Accepts == ~Active

TaskInit ==
  /\ state = "IDLE"
  /\ cancelEvent = FALSE
  /\ timer = FALSE
  /\ thread = [t \in Tasks |-> "none"]
  /\ kind = [t \in Tasks |-> "none"]
  /\ outcome = [t \in Tasks |-> "none"]

At(t, from, to) == thread[t] = from /\ thread' = [thread EXCEPT ![t] = to]

-----------------------------------------------------------------------------
(* Calls of the Tk thread *)

\* submit_task when no task is active: t, the next task, goes to the pool.
Submit(t, k) ==
  /\ Accepts
  /\ At(t, "none", "queued")
  /\ \A s \in 1..t-1 : thread[s] # "none"
  /\ kind' = [kind EXCEPT ![t] = k]
  /\ state' = "QUEUED"
  /\ cancelEvent' = FALSE
  /\ timer' = FALSE
  /\ Put(<<TaskState("QUEUED")>>)
  /\ UNCHANGED outcome

\* submit_task when a task is active returns False; no caller looks.
Refuse ==
  /\ ~Accepts
  /\ UNCHANGED <<taskVars, events>>

-----------------------------------------------------------------------------
(* The thread of a task: the wrapper of submit_task around an operation *)

\* Mutant: the thread clears the event, as submit_task did.
ThreadStartClears(t) ==
  /\ At(t, "queued", "body")
  /\ timer' = TRUE
  /\ state' = "RUNNING"
  /\ cancelEvent' = FALSE
  /\ Put(<<TaskState("RUNNING")>>)
  /\ UNCHANGED <<kind, outcome>>

\* timer.start() and set_state(RUNNING).
ThreadStart(t) ==
  /\ At(t, "queued", "body")
  /\ timer' = TRUE
  /\ state' = "RUNNING"
  /\ Put(<<TaskState("RUNNING")>>)
  /\ UNCHANGED <<cancelEvent, kind, outcome>>

\* The operation polls the cancellation event, finds it set and gives up.  An
\* except clause that reads the event again is its last poll.
BodySeesCancel(t) ==
  /\ At(t, "body", "closing")
  /\ cancelEvent
  /\ outcome' = [outcome EXCEPT ![t] = "CANCELLED"]
  /\ UNCHANGED <<state, cancelEvent, timer, kind, events>>

\* The operation's last poll finds the event clear: it has succeeded or failed.
\* A drive operation that is blocked, or whose write fails, does not poll.
BodyEnds(t) ==
  /\ At(t, "body", "closing")
  /\ \E o \in {"SUCCESS", "FAILED"} :
       /\ ~cancelEvent \/ (kind[t] = "drive" /\ o = "FAILED")
       /\ outcome' = [outcome EXCEPT ![t] = o]
  /\ UNCHANGED <<state, cancelEvent, timer, kind, events>>

\* What an operation puts on the bus before it returns: its result, the
\* candidates of a scan, and "finished", which the drive operation leaves out.
Announcements(k, o) ==
     (IF k = "scan" /\ o = "SUCCESS" THEN <<RecoveryScan>> ELSE <<>>)
  \o <<IF k \in {"drive", "file"} THEN OpCompleted(o) ELSE Result(o)>>
  \o (IF k = "drive" THEN <<>> ELSE <<Finished>>)

BodyReturns(t) ==
  /\ At(t, "closing", "returned")
  /\ Put(Announcements(kind[t], outcome[t]))
  /\ UNCHANGED <<state, cancelEvent, timer, kind, outcome>>

\* What is left of that when the target cannot be hashed or the history cannot
\* be written, which is outside what an operation handles.
Interrupted(k, o) ==
  CASE k = "file"    -> {<<>>, <<Finished>>}
    [] k = "scan"    -> {(IF o = "SUCCESS" THEN <<RecoveryScan>> ELSE <<>>) \o <<Result(o)>>}
    [] k = "recover" -> {<<>>}
    [] k = "drive"   -> {}

BodyBreaks(t) ==
  /\ At(t, "closing", "returned")
  /\ \E announced \in Interrupted(kind[t], outcome[t]) : Put(announced)
  /\ outcome' = [outcome EXCEPT ![t] = "RAISED"]
  /\ UNCHANGED <<state, cancelEvent, timer, kind>>

\* finally: timer.stop().
ThreadStops(t) ==
  /\ At(t, "returned", "stopped")
  /\ timer' = FALSE
  /\ UNCHANGED <<state, cancelEvent, kind, outcome, events>>

\* Does the operation leave with an exception?  A scan raises whatever is not
\* a success; a drive operation returns a result when it was blocked or found
\* the event set, and passes an exception on; file operations and recoveries
\* report every failure they handle as a result.
MayRaise(k, o) ==
  IF o = "RAISED" THEN {TRUE} ELSE
  CASE k = "scan"  -> {o # "SUCCESS"}
    [] k = "drive" -> IF o = "SUCCESS" THEN {FALSE} ELSE BOOLEAN
    [] OTHER       -> {FALSE}

\* The locals of the wrapper go with it.
Forgotten(t) ==
  /\ kind' = [kind EXCEPT ![t] = "none"]
  /\ outcome' = [outcome EXCEPT ![t] = "none"]

\* Mutant: the end is announced without a word to the state.
EndUnstated(t, raised) ==
  /\ At(t, "stopped", "done")
  /\ state' = state
  /\ Put(<<TaskFinished(raised)>>)
  /\ Forgotten(t)
  /\ UNCHANGED <<cancelEvent, timer>>

\* finally, under the lock: the manager's own verdict on the task.
End(t, raised) ==
  /\ At(t, "stopped", "done")
  /\ state' = CASE cancelEvent -> "CANCELLED"
                [] ~cancelEvent /\ raised -> "FAILED"
                [] OTHER -> "SUCCESS"
  /\ Put(<<TaskState(state'), TaskFinished(raised)>>)
  /\ Forgotten(t)
  /\ UNCHANGED <<cancelEvent, timer>>

ThreadStep(t) ==
  \/ ThreadStart(t)
  \/ BodySeesCancel(t) \/ BodyEnds(t) \/ BodyReturns(t) \/ BodyBreaks(t)
  \/ ThreadStops(t)
  \/ \E r \in MayRaise(kind[t], outcome[t]) : End(t, r)
=============================================================================
