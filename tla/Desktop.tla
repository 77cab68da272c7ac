------------------------------ MODULE Desktop ------------------------------
(***************************************************************************)
(* The desktop application (DrexApp of drex_app.py): the Tk thread starts  *)
(* and cancels operations through the task manager, refreshes the devices  *)
(* through the device manager, and learns of the ends of both from the     *)
(* event bus.  A click runs as one handler on the Tk thread, but           *)
(* start_operation and recover_selected_candidates clear the cancellation  *)
(* event before they call submit_task, and the worker may run in between.  *)
(* When a task is still under way, that erases its cancellation.           *)
(***************************************************************************)
EXTENDS TaskManager, DeviceManager, FiniteSets

CONSTANT Offered   \* the operations the pages offer a Start button for

ASSUME DesktopAssumption == Offered \subseteq Kinds \ {"recover"}

VARIABLES
  startButton,    \* start_button is enabled
  cancelButton,   \* cancel_button is enabled
  detectButton,   \* detect_button is enabled
  label,          \* the text of status_label
  alert,          \* the inline alert, with its Retry button, is shown
  scanned,        \* the results of a scan are listed
  pending,        \* the operation a handler is about to submit
  closed,         \* the window is closed
  refreshes,      \* calls of refresh_devices so far
  asked           \* history: tasks under way that were cancelled before their last
                  \* poll, and no click has cleared the event since

uiVars == <<startButton, cancelButton, detectButton, label, alert, scanned, pending,
            closed, refreshes>>
vars == <<events, taskVars, deviceVars, uiVars, asked>>

Idle == pending = "none" /\ ~closed

\* Bound: accepted submissions and refreshes are at most MaxTasks together.
Room == refreshes + Cardinality({t \in Tasks : thread[t] # "none"}) < MaxTasks

Init ==
  /\ events = <<>>
  /\ TaskInit
  /\ DeviceInit
  /\ startButton = TRUE /\ cancelButton = FALSE /\ detectButton = TRUE
  /\ label = "READY" /\ alert = FALSE /\ scanned = FALSE
  /\ pending = "none" /\ closed = FALSE /\ refreshes = 0
  /\ asked = {}

-----------------------------------------------------------------------------
(* Clicks *)

\* start_operation, from the Start button or from Retry, up to submit_task.
StartOperation(k) ==
  /\ Idle /\ Room
  /\ startButton \/ alert
  /\ cancelEvent' = FALSE
  /\ startButton' = FALSE /\ cancelButton' = TRUE
  /\ label' = "RUNNING" /\ alert' = FALSE
  /\ pending' = k
  /\ asked' = {}
  /\ UNCHANGED <<events, state, timer, thread, kind, outcome, deviceVars,
                 detectButton, scanned, closed, refreshes>>

\* start_operation lacks a method or a target, or the user does not confirm.
StartDeclined ==
  /\ Idle
  /\ startButton \/ alert
  /\ alert' = FALSE
  /\ UNCHANGED <<events, taskVars, deviceVars, startButton, cancelButton, detectButton, label,
                 scanned, pending, closed, refreshes, asked>>

\* recover_selected_candidates up to submit_task.  It needs the results of a
\* scan, and looks neither at the Start button nor at the task manager.
RecoverSelected ==
  /\ Idle /\ Room
  /\ scanned
  /\ cancelEvent' = FALSE
  /\ cancelButton' = TRUE
  /\ alert' = FALSE
  /\ pending' = "recover"
  /\ asked' = {}
  /\ UNCHANGED <<events, state, timer, thread, kind, outcome, deviceVars,
                 startButton, detectButton, label, scanned, closed, refreshes>>

\* The handler calls submit_task and returns.
SubmitPending ==
  /\ pending # "none"
  /\ pending' = "none"
  /\ Refuse \/ \E t \in Tasks : Submit(t, pending)
  /\ UNCHANGED <<deviceVars, startButton, cancelButton, detectButton, label, alert,
                 scanned, closed, refreshes, asked>>

\* The task that is under way and has not polled the event for the last time.
Cancellable == {t \in Tasks : thread[t] \in {"queued", "body"}}

\* cancel_operation.
CancelOperation ==
  /\ Idle
  /\ cancelButton
  /\ Active \/ label = "RUNNING"
  /\ cancelEvent' = TRUE
  /\ cancelButton' = FALSE
  /\ asked' = asked \cup Cancellable
  /\ UNCHANGED <<events, state, timer, thread, kind, outcome, deviceVars,
                 startButton, detectButton, label, alert, scanned, pending, closed, refreshes>>

\* _drive_selected on the page "Wipe Drive", for a drive other than the
\* protected system disk.
DriveSelected ==
  /\ Idle
  /\ startButton' = TRUE
  /\ UNCHANGED <<events, taskVars, deviceVars, cancelButton, detectButton, label, alert,
                 scanned, pending, closed, refreshes, asked>>

\* show_page builds the page of another operation, unless the label says that
\* one is running; the page that is shown is built anew in any case.
ShowPage ==
  /\ Idle
  /\ startButton' = TRUE /\ cancelButton' = FALSE /\ detectButton' = TRUE
  /\ label' = "READY" /\ alert' = FALSE
  /\ scanned' = FALSE
  /\ UNCHANGED <<events, taskVars, deviceVars, pending, closed, refreshes, asked>>

\* refresh_devices: forced by the Detect button, not forced by the start of the
\* application and by the page "Destroy Drive".
RefreshDevices(force) ==
  /\ Idle /\ Room
  /\ force => detectButton
  /\ refreshes' = refreshes + 1
  /\ detectButton' = FALSE
  /\ StartAsyncDiscovery(force)
  /\ UNCHANGED <<taskVars, startButton, cancelButton, label, alert, scanned, pending,
                 closed, asked>>

\* on_closing: cancel, drop what waits for a thread, and destroy the window.
OnClosing ==
  /\ Idle
  /\ closed' = TRUE
  /\ cancelEvent' = (cancelEvent \/ Active)
  /\ thread' = [t \in Tasks |-> IF thread[t] = "queued" THEN "dropped" ELSE thread[t]]
  /\ asked' = asked \cup Cancellable
  /\ UNCHANGED <<events, state, timer, kind, outcome, deviceVars, startButton, cancelButton,
                 detectButton, label, alert, scanned, pending, refreshes>>

-----------------------------------------------------------------------------
(* _poll_events: one event *)

Shown(e) ==
  IF e.kind \in {"task_state", "op_completed", "result"} THEN label' = e.value ELSE label' = label

\* A result that failed shows the alert, except when the hardware does not
\* support the method; so does an exception.
Alerted(e) ==
  CASE e = OpCompleted("FAILED") -> alert' \in {alert, TRUE}
    [] e = TaskFinished(TRUE) -> alert' = TRUE
    [] OTHER -> alert' = alert

Teardown(e) == e.kind \in {"finished", "task_finished"}

\* Mutant: the end of a task leaves the Start button alone.
ReleasedWithoutStart(e) ==
  IF Teardown(e)
  THEN timer' = FALSE /\ cancelButton' = FALSE /\ UNCHANGED startButton
  ELSE UNCHANGED <<timer, startButton, cancelButton>>

\* Task teardown: release the buttons, stop the timer.  A discovery selects the
\* first drive when none is selected, as DriveSelected does.
Released(e) ==
  /\ IF Teardown(e) THEN timer' = FALSE /\ cancelButton' = FALSE ELSE UNCHANGED <<timer, cancelButton>>
  /\ CASE Teardown(e) -> startButton' = TRUE
       [] e = Devices -> startButton' \in {startButton, TRUE}
       [] OTHER       -> UNCHANGED startButton

PollEvents ==
  /\ Idle
  /\ events # <<>>
  /\ events' = Tail(events)
  /\ LET e == Head(events) IN
     /\ Shown(e)
     /\ Released(e)
     /\ Alerted(e)
     /\ scanned' = (scanned \/ e = RecoveryScan)
     /\ detectButton' = (detectButton \/ e = Devices)
  /\ UNCHANGED <<state, cancelEvent, thread, kind, outcome, deviceVars, pending, closed,
                 refreshes, asked>>

-----------------------------------------------------------------------------

Click ==
  \/ \E k \in Offered : StartOperation(k)
  \/ StartDeclined \/ RecoverSelected \/ CancelOperation \/ DriveSelected \/ ShowPage \/ OnClosing
  \/ \E force \in BOOLEAN : RefreshDevices(force)

Worker(t) ==
  /\ ThreadStep(t)
  /\ asked' = IF thread'[t] = "done" THEN asked \ {t} ELSE asked
  /\ UNCHANGED <<deviceVars, uiVars>>
Discovery == (Discovered \/ CallBack) /\ UNCHANGED <<taskVars, uiVars, asked>>
Age == Expire /\ UNCHANGED <<taskVars, uiVars, asked>>

Next ==
  \/ Click
  \/ SubmitPending
  \/ PollEvents
  \/ \E t \in Tasks : Worker(t)
  \/ Discovery
  \/ Age

Spec == Init /\ [][Next]_vars

\* A handler that runs returns, the poll timer fires, and threads are scheduled.
\* Nobody has to click.
FairSpec ==
  /\ Spec
  /\ WF_vars(SubmitPending)
  /\ WF_vars(PollEvents)
  /\ \A t \in Tasks : WF_vars(Worker(t))
  /\ WF_vars(Discovery)

-----------------------------------------------------------------------------
(* Properties *)

\* Every variable has its type.
TypeOK ==
  /\ events \in Seq([kind : {"task_state", "op_completed", "result", "recovery_scan", "finished",
                             "task_finished", "devices"},
                     value : Ends \cup {"none", "raised", "QUEUED", "RUNNING"}])
  /\ state \in Ends \cup {"IDLE", "QUEUED", "RUNNING"}
  /\ cancelEvent \in BOOLEAN /\ timer \in BOOLEAN
  /\ thread \in [Tasks -> Places]
  /\ kind \in [Tasks -> Kinds \cup {"none"}]
  /\ outcome \in [Tasks -> Ends \cup {"none", "RAISED"}]
  /\ fresh \in BOOLEAN /\ discovering \in BOOLEAN /\ callbacks \in Nat
  /\ startButton \in BOOLEAN /\ cancelButton \in BOOLEAN /\ detectButton \in BOOLEAN
  /\ label \in Ends \cup {"READY", "QUEUED", "RUNNING"}
  /\ alert \in BOOLEAN /\ scanned \in BOOLEAN /\ closed \in BOOLEAN
  /\ pending \in Kinds \cup {"none"}
  /\ refreshes \in 0..MaxTasks
  /\ asked \subseteq Tasks

\* The threads between their first and their last step in the wrapper.
Busy == {t \in Tasks : thread[t] \in {"queued", "body", "closing", "returned", "stopped"}}

\* No two operations run together, although the pool has four threads and the
\* Start button is re-enabled before a task has ended: a submission gets
\* through only when no thread is left inside the wrapper.
OneOperation == \A s, t \in Busy : s = t

\* Nobody has anything left to do.
Quiet == Idle /\ events = <<>> /\ Busy = {}

\* When everything has ended, the window offers exactly what it should: Start
\* and not Cancel, even if submissions were refused on the way.
QuietOffersStart == Quiet => startButton /\ ~cancelButton

\* A disabled Start button comes back, also when the submission behind it was
\* refused because the previous task had not quite ended.
StartComesBack == (~startButton) ~> (startButton \/ closed)

\* The Detect button comes back, also when the request was left to a discovery
\* that another request had started.
DetectComesBack == (~detectButton) ~> (detectButton \/ closed)

\* "Worker will exit at next safe boundary": a task that was cancelled while it
\* waited for a thread or worked does not end as a success, unless a click that
\* was made meanwhile to start another operation has cleared the event.
CancelStopsTask == \A t \in asked : outcome[t] # "SUCCESS"
=============================================================================
