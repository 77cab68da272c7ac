------------------------------ MODULE EventBus ------------------------------
(***************************************************************************)
(* The queue of the desktop application (drex_app.py): worker threads and  *)
(* the Tk thread put events, and only the Tk thread takes them             *)
(* (_poll_events).  An event is the part of it that _poll_events acts on;  *)
(* log lines and progress are left out.                                    *)
(***************************************************************************)
EXTENDS Sequences

VARIABLE events   \* DrexApp.events, oldest first

\* set_state announces every state of the task manager.
TaskState(s) == [kind |-> "task_state", value |-> s]

\* How the operation itself judges its run: EV_OP_COMPLETED of drive and file
\* operations, "result" of scans and recoveries.
OpCompleted(outcome) == [kind |-> "op_completed", value |-> outcome]
Result(outcome) == [kind |-> "result", value |-> outcome]

RecoveryScan == [kind |-> "recovery_scan", value |-> "none"]
Finished == [kind |-> "finished", value |-> "none"]
TaskFinished(raised) == [kind |-> "task_finished", value |-> IF raised THEN "raised" ELSE "none"]
Devices == [kind |-> "devices", value |-> "none"]

\* queue.put of several events by one thread, in order.
Put(es) == events' = events \o es
=============================================================================
