---------------------------- MODULE JobLifecycle ----------------------------
(***************************************************************************)
(* What the registry and its workers promise, without locks, files,        *)
(* tokens or threads: a job moves along the documented lifecycle, a target *)
(* is admitted to one active job at a time, and only a running job touches *)
(* its target.  JobServer is shown to implement this specification.        *)
(***************************************************************************)
CONSTANTS Jobs, Targets

VARIABLES
  status,   \* the status clients are shown, or "NONE"
  active,   \* the active jobs aimed at each target
  using     \* the jobs that are touching their target

vars == <<status, active, using>>

Ended == {"COMPLETED", "FAILED", "CANCELLED", "INTERRUPTED"}

Init ==
  /\ status = [j \in Jobs |-> "NONE"]
  /\ active = [t \in Targets |-> {}]
  /\ using = {}

\* A new job is admitted to a target no active job is aimed at.
Admit(j, t) ==
  /\ status[j] = "NONE"
  /\ active[t] = {}
  /\ status' = [status EXCEPT ![j] = "QUEUED"]
  /\ active' = [active EXCEPT ![t] = {j}]
  /\ UNCHANGED using

\* A job starts, and may touch its target at once.
Start(j) ==
  /\ status[j] = "QUEUED"
  /\ status' = [status EXCEPT ![j] = "RUNNING"]
  /\ using' \in {using, using \cup {j}}
  /\ UNCHANGED active

Enter(j) ==
  /\ status[j] = "RUNNING"
  /\ using' = using \cup {j}
  /\ UNCHANGED <<status, active>>

Leave(j) ==
  /\ j \in using
  /\ using' = using \ {j}
  /\ UNCHANGED <<status, active>>

AskCancel(j) ==
  /\ status[j] = "RUNNING"
  /\ status' = [status EXCEPT ![j] = "CANCELLING"]
  /\ UNCHANGED <<active, using>>

\* A job ends when it no longer touches its target, which is then free again.
\* It completes only if it was running and nobody asked it to cancel.
End(j, s) ==
  /\ j \notin using
  /\ \/ s = "COMPLETED" /\ status[j] = "RUNNING"
     \/ s \in {"FAILED", "CANCELLED"} /\ status[j] \in {"QUEUED", "RUNNING", "CANCELLING"}
  /\ status' = [status EXCEPT ![j] = s]
  /\ active' = [t \in Targets |-> active[t] \ {j}]
  /\ UNCHANGED using

\* The process stops: nothing touches a target any more.
Stop ==
  /\ using' = {}
  /\ UNCHANGED <<status, active>>

\* Every job that was active when the process stopped is interrupted.
Interrupt ==
  /\ using = {}
  /\ status' = [j \in Jobs |-> IF status[j] \in {"QUEUED", "RUNNING", "CANCELLING"}
                               THEN "INTERRUPTED" ELSE status[j]]
  /\ active' = [t \in Targets |-> {}]
  /\ UNCHANGED using

Next ==
  \/ \E j \in Jobs, t \in Targets : Admit(j, t)
  \/ \E j \in Jobs : Start(j) \/ Enter(j) \/ Leave(j) \/ AskCancel(j)
  \/ \E j \in Jobs, s \in Ended : End(j, s)
  \/ Stop
  \/ Interrupt

Spec == Init /\ [][Next]_vars
=============================================================================
