--------------------------- MODULE Desktop_proofs ---------------------------
(***************************************************************************)
(* What the task manager, its threads and the window agree on, however     *)
(* many tasks are submitted and in whatever order clicks, events and       *)
(* threads come.                                                           *)
(***************************************************************************)
EXTENDS Desktop, FiniteSetTheorems, TLAPS

\* What the bus carries: the first three kinds are texts for the label.
Event == [kind : {"task_state", "op_completed", "result"}, value : Ends \cup {"QUEUED", "RUNNING"}]
         \cup [kind : {"recovery_scan", "finished", "task_finished", "devices"},
               value : {"none", "raised"}]

\* The locals of the wrapper: an operation is known while the task is under
\* way, and its outcome from its last poll to its end; it breaks off only when
\* it has one.
Settled == {"closing", "returned", "stopped"}
Fits(o, place) == (o # "none" <=> place \in Settled) /\ (o = "RAISED" => place # "closing")
Locals ==
  /\ events \in Seq(Event)
  /\ \A t \in Tasks : Fits(outcome[t], thread[t])
  /\ \A t \in Busy : kind[t] \in Kinds

\* The state of the manager is active exactly while a thread is inside the
\* wrapper, except that closing the window drops a task that waits for a
\* thread; the stopwatch runs only between that thread's start and its stop.
Timed == {"body", "closing", "returned"}
StateTellsThread ==
  /\ Busy # {} => Active
  /\ Active /\ ~closed => Busy # {}
  /\ timer => \E t \in Tasks : thread[t] \in Timed

\* The event stays set for a task that was cancelled until it has polled it
\* for the last time.
CancelledSeesEvent ==
  \A t \in asked :
    /\ thread[t] # "none"
    /\ thread[t] \in {"queued", "body"} => cancelEvent

\* While the window does not offer what it should, a task is under way, or the
\* event that releases the buttons is on the bus.
Announced(es) == \E i \in 1..Len(es) : Teardown(es[i])
ReleaseIsComing ==
  Idle /\ (~startButton \/ cancelButton) => Busy # {} \/ Announced(events)

DesktopInv ==
  /\ TypeOK /\ Locals /\ OneOperation /\ StateTellsThread
  /\ CancelledSeesEvent /\ CancelStopsTask /\ ReleaseIsComing

-----------------------------------------------------------------------------
(* The bus *)

LEMMA PutKeeps ==
  ASSUME NEW es \in Seq(Event), NEW new \in Seq(Event)
  PROVE  /\ es \o new \in Seq(Event)
         /\ Announced(es) \/ Announced(new) => Announced(es \o new)
  <1>1. PICK m \in Nat, n \in Nat : Len(es) = m /\ Len(new) = n
    OBVIOUS
  <1>2. Len(es \o new) = m + n /\ es \o new \in Seq(Event)
    BY <1>1
  <1>3. \A i \in 1..m : (es \o new)[i] = es[i]
    BY <1>1
  <1>4. \A i \in 1..n : (es \o new)[m + i] = new[i]
    BY <1>1
  <1>5. \A i \in 1..m : i \in 1..(m + n)
    OBVIOUS
  <1>6. \A i \in 1..n : m + i \in 1..(m + n)
    OBVIOUS
  <1>7. Announced(es) => Announced(es \o new)
    BY <1>1, <1>2, <1>3, <1>5 DEF Announced
  <1>8. Announced(new) => Announced(es \o new)
    BY <1>1, <1>2, <1>4, <1>6 DEF Announced
  <1> QED BY <1>2, <1>7, <1>8

LEMMA TakeKeeps ==
  ASSUME NEW es \in Seq(Event), es # <<>>
  PROVE  /\ Tail(es) \in Seq(Event) /\ Head(es) \in Event
         /\ Announced(es) /\ ~Teardown(Head(es)) => Announced(Tail(es))
  <1>1. PICK n \in Nat : Len(es) = n + 1
    <2>1. Len(es) \in Nat /\ Len(es) # 0
      OBVIOUS
    <2>2. Len(es) - 1 \in Nat /\ Len(es) = (Len(es) - 1) + 1
      BY <2>1
    <2> QED BY <2>2
  <1>2. Tail(es) \in Seq(Event) /\ Len(Tail(es)) = n /\ Head(es) = es[1] /\ Head(es) \in Event
    BY <1>1
  <1>3. \A i \in 1..n : Tail(es)[i] = es[i + 1]
    BY <1>1
  <1>4. ASSUME NEW i \in 1..(n + 1), Teardown(es[i]), ~Teardown(es[1])
        PROVE  \E j \in 1..n : Teardown(Tail(es)[j])
    <2>1. i # 1
      BY <1>4
    <2>2. i - 1 \in 1..n /\ (i - 1) + 1 = i
      BY <2>1
    <2>3. Tail(es)[i - 1] = es[i]
      BY <2>2, <1>3
    <2> QED BY <2>2, <2>3, <1>4
  <1> QED BY <1>1, <1>2, <1>4 DEF Announced

\* Everything the threads put on the bus is an event.
LEMMA EventsAreEvents ==
  /\ \A s \in Ends \cup {"QUEUED", "RUNNING"} : TaskState(s) \in Event
  /\ \A o \in Ends : OpCompleted(o) \in Event /\ Result(o) \in Event
  /\ RecoveryScan \in Event /\ Finished \in Event /\ Devices \in Event
  /\ \A r \in BOOLEAN : TaskFinished(r) \in Event /\ Teardown(TaskFinished(r))
  BY DEF TaskState, OpCompleted, Result, RecoveryScan, Finished, Devices, TaskFinished, Event,
         Teardown

LEMMA AnnouncementsAreEvents ==
  ASSUME NEW k \in Kinds, NEW o \in Ends
  PROVE  Announcements(k, o) \in Seq(Event)
  <1> DEFINE a == IF k = "scan" /\ o = "SUCCESS" THEN <<RecoveryScan>> ELSE <<>>
             b == <<IF k \in {"drive", "file"} THEN OpCompleted(o) ELSE Result(o)>>
             c == IF k = "drive" THEN <<>> ELSE <<Finished>>
  <1>1. a \in Seq(Event) /\ b \in Seq(Event) /\ c \in Seq(Event)
    BY EventsAreEvents
  <1>2. Announcements(k, o) = a \o b \o c
    BY DEF Announcements
  <1> HIDE DEF a, b, c
  <1> QED BY <1>1, <1>2

LEMMA InterruptedAreEvents ==
  ASSUME NEW k \in Kinds, NEW o \in Ends, NEW a \in Interrupted(k, o)
  PROVE  a \in Seq(Event)
  <1> DEFINE c == IF o = "SUCCESS" THEN <<RecoveryScan>> ELSE <<>>
             d == <<Result(o)>>
  <1>1. /\ <<>> \in Seq(Event) /\ <<Finished>> \in Seq(Event)
        /\ c \in Seq(Event) /\ d \in Seq(Event)
    BY EventsAreEvents
  <1>2. a \in {<<>>, <<Finished>>, c \o d}
    BY DEF Interrupted, Kinds
  <1> HIDE DEF c, d
  <1>3. c \o d \in Seq(Event)
    BY <1>1
  <1> QED BY <1>1, <1>2, <1>3

\* An event has the wider type that TypeOK gives it, and its text is a label.
WideEvent ==
  [kind : {"task_state", "op_completed", "result", "recovery_scan", "finished",
           "task_finished", "devices"},
   value : Ends \cup {"none", "raised", "QUEUED", "RUNNING"}]

LEMMA EventIsWide ==
  ASSUME NEW es \in Seq(Event)
  PROVE  es \in Seq(WideEvent)
  <1>1. Event \subseteq WideEvent
    BY DEF Event, WideEvent
  <1> QED BY <1>1

LEMMA LabelOfEvent ==
  ASSUME NEW e \in Event, e.kind \in {"task_state", "op_completed", "result"}
  PROVE  e.value \in Ends \cup {"QUEUED", "RUNNING"}
  BY DEF Event

\* TypeOK in parts: the tasks, the devices, the window.
TaskTypes ==
  /\ state \in Ends \cup {"IDLE", "QUEUED", "RUNNING"}
  /\ cancelEvent \in BOOLEAN /\ timer \in BOOLEAN
  /\ thread \in [Tasks -> Places]
  /\ kind \in [Tasks -> Kinds \cup {"none"}]
  /\ outcome \in [Tasks -> Ends \cup {"none", "RAISED"}]
DeviceTypes == fresh \in BOOLEAN /\ discovering \in BOOLEAN /\ callbacks \in Nat
WindowTypes ==
  /\ startButton \in BOOLEAN /\ cancelButton \in BOOLEAN /\ detectButton \in BOOLEAN
  /\ label \in Ends \cup {"READY", "QUEUED", "RUNNING"}
  /\ alert \in BOOLEAN /\ scanned \in BOOLEAN /\ closed \in BOOLEAN
  /\ pending \in Kinds \cup {"none"}
  /\ refreshes \in 0..MaxTasks

LEMMA TypeParts ==
  /\ TypeOK <=> events \in Seq(WideEvent) /\ TaskTypes /\ DeviceTypes /\ WindowTypes
                /\ asked \subseteq Tasks
  /\ TypeOK' <=> events' \in Seq(WideEvent) /\ TaskTypes' /\ DeviceTypes' /\ WindowTypes'
                 /\ asked' \subseteq Tasks
  <1>1. TypeOK <=> events \in Seq(WideEvent) /\ TaskTypes /\ DeviceTypes /\ WindowTypes
                   /\ asked \subseteq Tasks
    BY Zenon DEF TypeOK, WideEvent, TaskTypes, DeviceTypes, WindowTypes
  <1>2. TypeOK' <=> events' \in Seq(WideEvent) /\ TaskTypes' /\ DeviceTypes' /\ WindowTypes'
                    /\ asked' \subseteq Tasks
    BY Zenon DEF TypeOK, WideEvent, TaskTypes, DeviceTypes, WindowTypes
  <1> QED BY <1>1, <1>2

LEMMA TaskTypesKept == TaskTypes /\ UNCHANGED taskVars => TaskTypes'
  BY DEF TaskTypes, taskVars

LEMMA DeviceTypesKept == DeviceTypes /\ UNCHANGED deviceVars => DeviceTypes'
  BY DEF DeviceTypes, deviceVars

LEMMA WindowTypesKept == WindowTypes /\ UNCHANGED uiVars => WindowTypes'
  BY DEF WindowTypes, uiVars

\* The bound leaves room for one more refresh.
LEMMA RoomForOne ==
  ASSUME TypeOK, Room
  PROVE  refreshes + 1 \in 0..MaxTasks
  <1> DEFINE S == {t \in Tasks : thread[t] # "none"}
  <1>1. IsFiniteSet(Tasks)
    BY TaskAssumption, FS_Interval DEF Tasks
  <1>2. IsFiniteSet(S)
    BY <1>1, FS_Subset
  <1>3. Cardinality(S) \in Nat
    BY <1>2, FS_CardinalityType
  <1>4. refreshes + Cardinality(S) < MaxTasks
    BY DEF Room
  <1>5. refreshes \in Nat
    BY TaskAssumption DEF TypeOK
  <1> HIDE DEF S
  <1> QED BY <1>3, <1>4, <1>5, TaskAssumption

-----------------------------------------------------------------------------
(* The invariant *)

LEMMA DesktopInitially == Init => DesktopInv
  <1> SUFFICES ASSUME Init PROVE DesktopInv
    OBVIOUS
  <1>1. events = <<>> /\ events \in Seq(Event) /\ events \in Seq(WideEvent)
    BY DEF Init
  <1>2. TypeOK
    <2>1. TaskTypes /\ DeviceTypes
      BY DEF Init, TaskInit, DeviceInit, TaskTypes, DeviceTypes, Places
    <2>2. /\ startButton \in BOOLEAN /\ cancelButton \in BOOLEAN /\ detectButton \in BOOLEAN
          /\ alert \in BOOLEAN /\ scanned \in BOOLEAN /\ closed \in BOOLEAN
      BY DEF Init
    <2>3. label = "READY" /\ pending = "none" /\ refreshes \in 0..MaxTasks /\ asked = {}
      BY TaskAssumption DEF Init
    <2>4. WindowTypes
      BY <2>2, <2>3 DEF WindowTypes
    <2> QED BY <1>1, <2>1, <2>3, <2>4, TypeParts
  <1>3. \A t \in Tasks : thread[t] = "none" /\ outcome[t] = "none"
    BY DEF Init, TaskInit
  <1>4. Busy = {}
    BY <1>3 DEF Busy
  <1>5. Locals
    BY <1>1, <1>3, <1>4 DEF Locals, Fits, Settled
  <1>6. OneOperation /\ StateTellsThread
    BY <1>4 DEF OneOperation, StateTellsThread, Init, TaskInit, Active
  <1>7. CancelledSeesEvent /\ CancelStopsTask /\ ReleaseIsComing
    BY DEF CancelledSeesEvent, CancelStopsTask, ReleaseIsComing, Init, Idle
  <1> QED BY <1>2, <1>5, <1>6, <1>7 DEF DesktopInv

\* A step that leaves the tasks and the bus alone keeps what is said of them.
LEMMA TasksKept ==
  ASSUME DesktopInv,
         UNCHANGED <<events, state, timer, thread, kind, outcome, closed>>
  PROVE  Locals' /\ OneOperation' /\ StateTellsThread' /\ Busy' = Busy
  <1>1. Busy' = Busy
    BY DEF Busy
  <1> QED BY <1>1 DEF DesktopInv, Locals, OneOperation, StateTellsThread, Active

\* A click on Start or on Recover clears the event, and with it what was asked.
LEMMA StartsKeep ==
  ASSUME DesktopInv, (\E k \in Offered : StartOperation(k)) \/ RecoverSelected
  PROVE  DesktopInv'
  <1>1. /\ UNCHANGED <<events, state, timer, thread, kind, outcome, closed>>
        /\ asked' = {} /\ pending' \in Kinds /\ pending' # "none"
    BY DesktopAssumption DEF StartOperation, RecoverSelected, Kinds
  <1>2. TypeOK'
    <2>1. TaskTypes'
      BY TypeParts, <1>1 DEF DesktopInv, TaskTypes, StartOperation, RecoverSelected
    <2>3. WindowTypes'
      BY TypeParts, <1>1 DEF DesktopInv, WindowTypes, StartOperation, RecoverSelected
    <2>2. UNCHANGED <<events, deviceVars>>
      BY DEF StartOperation, RecoverSelected
    <2> QED BY <1>1, <2>1, <2>2, <2>3, TypeParts, DeviceTypesKept DEF DesktopInv
  <1>3. CancelledSeesEvent' /\ CancelStopsTask' /\ ReleaseIsComing'
    BY <1>1 DEF CancelledSeesEvent, CancelStopsTask, ReleaseIsComing, Idle
  <1> QED BY <1>1, <1>2, <1>3, TasksKept DEF DesktopInv

LEMMA PagesKeep ==
  ASSUME DesktopInv, StartDeclined \/ DriveSelected \/ ShowPage
  PROVE  DesktopInv'
  <1>1. /\ UNCHANGED <<events, state, timer, thread, kind, outcome, closed>>
        /\ UNCHANGED <<cancelEvent, asked, pending>>
    BY DEF StartDeclined, DriveSelected, ShowPage, taskVars
  <1>2. TypeOK'
    <2>1. UNCHANGED <<events, taskVars, deviceVars, asked>>
      BY DEF StartDeclined, DriveSelected, ShowPage
    <2>2. WindowTypes'
      BY TypeParts DEF DesktopInv, WindowTypes, StartDeclined, DriveSelected, ShowPage
    <2> QED BY <2>1, <2>2, TypeParts, TaskTypesKept, DeviceTypesKept DEF DesktopInv
  <1>3. CancelledSeesEvent' /\ CancelStopsTask'
    BY <1>1 DEF DesktopInv, CancelledSeesEvent, CancelStopsTask
  <1>4. (~startButton \/ cancelButton)' => ~startButton \/ cancelButton
    BY DEF StartDeclined, DriveSelected, ShowPage, DesktopInv, TypeOK
  <1>5. ReleaseIsComing'
    BY <1>1, <1>4, TasksKept DEF DesktopInv, ReleaseIsComing, Idle
  <1> QED BY <1>1, <1>2, <1>3, <1>5, TasksKept DEF DesktopInv

LEMMA CancelKeeps ==
  ASSUME DesktopInv, CancelOperation
  PROVE  DesktopInv'
  <1>1. /\ UNCHANGED <<events, state, timer, thread, kind, outcome, closed>>
        /\ UNCHANGED <<startButton, pending>>
        /\ cancelEvent' /\ ~cancelButton' /\ asked' = asked \cup Cancellable
    BY DEF CancelOperation
  <1>2. TypeOK'
    <2>1. TaskTypes' /\ WindowTypes' /\ asked' \subseteq Tasks
      BY TypeParts, ZenonT(60) DEF DesktopInv, TaskTypes, WindowTypes, CancelOperation, Cancellable
    <2>2. UNCHANGED <<events, deviceVars>>
      BY DEF CancelOperation
    <2> QED BY <2>1, <2>2, TypeParts, DeviceTypesKept DEF DesktopInv
  <1>3. CancelledSeesEvent'
    BY <1>1 DEF DesktopInv, CancelledSeesEvent, Cancellable
  <1>4. \A t \in Cancellable : outcome[t] = "none"
    BY DEF DesktopInv, Locals, Cancellable, Fits, Settled
  <1>5. CancelStopsTask'
    BY <1>1, <1>4 DEF DesktopInv, CancelStopsTask
  <1>6. ReleaseIsComing'
    BY <1>1, TasksKept DEF DesktopInv, ReleaseIsComing, Idle
  <1> QED BY <1>1, <1>2, <1>3, <1>5, <1>6, TasksKept DEF DesktopInv

LEMMA RefreshKeeps ==
  ASSUME DesktopInv, NEW force \in BOOLEAN, RefreshDevices(force)
  PROVE  DesktopInv'
  <1>1. /\ UNCHANGED <<state, timer, thread, kind, outcome, closed, cancelEvent>>
        /\ UNCHANGED <<startButton, cancelButton, asked, pending>>
    BY DEF RefreshDevices, taskVars
  <1>2. events' \in Seq(Event) /\ (Announced(events) => Announced(events'))
    <2>1. CASE UNCHANGED events
      BY <2>1 DEF DesktopInv, Locals
    <2>2. CASE Put(<<Devices>>)
      <3>1. <<Devices>> \in Seq(Event) /\ events \in Seq(Event)
        BY EventsAreEvents DEF DesktopInv, Locals
      <3> QED BY <3>1, <2>2, PutKeeps DEF Put
    <2> QED BY <2>1, <2>2 DEF RefreshDevices, StartAsyncDiscovery
  <1>3. TypeOK'
    <2>1. refreshes' \in 0..MaxTasks
      BY RoomForOne DEF RefreshDevices, DesktopInv
    <2>2. events' \in Seq(WideEvent)
      BY <1>2, EventIsWide
    <2>3. WindowTypes' /\ UNCHANGED taskVars /\ UNCHANGED asked
      BY <2>1, TypeParts DEF DesktopInv, WindowTypes, RefreshDevices
    <2>4. DeviceTypes'
      BY TypeParts DEF DesktopInv, DeviceTypes, RefreshDevices, StartAsyncDiscovery, deviceVars
    <2> QED BY <2>2, <2>3, <2>4, TypeParts, TaskTypesKept DEF DesktopInv
  <1>4. Busy' = Busy
    BY <1>1 DEF Busy
  <1>5. Locals' /\ OneOperation' /\ StateTellsThread'
    BY <1>1, <1>2, <1>4 DEF DesktopInv, Locals, OneOperation, StateTellsThread, Active
  <1>6. CancelledSeesEvent' /\ CancelStopsTask'
    BY <1>1 DEF DesktopInv, CancelledSeesEvent, CancelStopsTask
  <1>7. ReleaseIsComing'
    BY <1>1, <1>2, <1>4 DEF DesktopInv, ReleaseIsComing, Idle
  <1> QED BY <1>3, <1>5, <1>6, <1>7 DEF DesktopInv

\* Closing the window drops a task that waits for a thread.
LEMMA ClosingKeeps ==
  ASSUME DesktopInv, OnClosing
  PROVE  DesktopInv'
  <1>1. /\ UNCHANGED <<events, state, timer, kind, outcome>>
        /\ closed' /\ cancelEvent' = (cancelEvent \/ Active) /\ asked' = asked \cup Cancellable
        /\ thread' \in [Tasks -> Places]
        /\ \A t \in Tasks : thread'[t] = IF thread[t] = "queued" THEN "dropped" ELSE thread[t]
    BY DEF OnClosing, DesktopInv, TypeOK, Places
  <1>2. TypeOK'
    <2>1. TaskTypes' /\ WindowTypes' /\ asked' \subseteq Tasks
      BY <1>1, TypeParts
         DEF DesktopInv, TaskTypes, WindowTypes, OnClosing, Cancellable, Active
    <2>2. UNCHANGED deviceVars
      BY DEF OnClosing
    <2> QED BY <1>1, <2>1, <2>2, TypeParts, DeviceTypesKept DEF DesktopInv
  <1>3. Busy' \subseteq Busy
    BY <1>1 DEF Busy
  <1>4. Locals'
    BY <1>1, <1>3 DEF DesktopInv, Locals, Fits, Settled
  <1>5. OneOperation' /\ StateTellsThread'
    BY <1>1, <1>3 DEF DesktopInv, OneOperation, StateTellsThread, Active, Timed
  <1>6. CancelledSeesEvent'
    <2>1. \A t \in asked' : t \in Tasks /\ thread[t] # "none"
      BY <1>1 DEF DesktopInv, TypeOK, CancelledSeesEvent, Cancellable
    <2>2. ASSUME NEW t \in Tasks, thread'[t] \in {"queued", "body"}
          PROVE  Active
      BY <1>1, <2>2 DEF DesktopInv, StateTellsThread, Busy
    <2> QED BY <1>1, <2>1, <2>2 DEF CancelledSeesEvent
  <1>7. CancelStopsTask'
    BY <1>1 DEF DesktopInv, CancelStopsTask, Locals, Cancellable, Fits, Settled
  <1>8. ReleaseIsComing'
    BY <1>1 DEF ReleaseIsComing, Idle
  <1> QED BY <1>2, <1>4, <1>5, <1>6, <1>7, <1>8 DEF DesktopInv

\* The handler submits: refused while a task is active, which is then under
\* way; accepted only when no thread is inside the wrapper.
LEMMA SubmitKeeps ==
  ASSUME DesktopInv, SubmitPending
  PROVE  DesktopInv'
  <1>1. /\ UNCHANGED <<deviceVars, startButton, cancelButton, detectButton, label, alert,
                       scanned, closed, refreshes, asked>>
        /\ pending' = "none" /\ pending \in Kinds
    BY TypeParts DEF SubmitPending, DesktopInv, WindowTypes
  <1>2. DeviceTypes' /\ WindowTypes' /\ asked' \subseteq Tasks
    BY <1>1, TypeParts, DeviceTypesKept DEF DesktopInv, WindowTypes
  <1>3. CASE Refuse
    <2>1. UNCHANGED <<events, state, timer, thread, kind, outcome, closed, cancelEvent>>
      BY <1>3, <1>1 DEF Refuse, taskVars
    <2>2. TypeOK'
      BY <1>2, <2>1, TypeParts DEF DesktopInv, TaskTypes
    <2>3. CancelledSeesEvent' /\ CancelStopsTask'
      BY <1>1, <2>1 DEF DesktopInv, CancelledSeesEvent, CancelStopsTask
    <2>4. ~closed => Busy # {}
      BY <1>3 DEF Refuse, Accepts, DesktopInv, StateTellsThread
    <2>5. ReleaseIsComing'
      BY <1>1, <2>1, <2>4, TasksKept DEF ReleaseIsComing, Idle
    <2> QED BY <2>1, <2>2, <2>3, <2>5, TasksKept DEF DesktopInv
  <1>4. ASSUME NEW t \in Tasks, Submit(t, pending)
        PROVE  DesktopInv'
    <2>1. Busy = {}
      BY <1>4 DEF Submit, Accepts, DesktopInv, StateTellsThread
    <2>2. /\ thread[t] = "none" /\ thread'[t] = "queued"
          /\ \A s \in Tasks \ {t} : thread'[s] = thread[s]
          /\ thread' \in [Tasks -> Places]
      BY <1>4, TypeParts DEF Submit, At, DesktopInv, TaskTypes, Places
    <2>3. Busy' = {t}
      BY <2>1, <2>2 DEF Busy
    <2>4. /\ state' = "QUEUED" /\ timer' = FALSE /\ UNCHANGED outcome
          /\ kind' = [kind EXCEPT ![t] = pending] /\ cancelEvent' = FALSE
      BY <1>4 DEF Submit
    <2>5. events' \in Seq(Event)
      <3>1. <<TaskState("QUEUED")>> \in Seq(Event) /\ events \in Seq(Event)
        BY EventsAreEvents DEF DesktopInv, Locals
      <3> QED BY <1>4, <3>1, PutKeeps DEF Submit, Put
    <2>6. TypeOK'
      <3>1. TaskTypes'
        <4>1. TaskTypes
          BY TypeParts DEF DesktopInv
        <4>2. kind' \in [Tasks -> Kinds \cup {"none"}]
          BY <1>1, <2>4, <4>1 DEF TaskTypes
        <4> QED BY <2>2, <2>4, <4>1, <4>2 DEF TaskTypes
      <3> QED BY <1>2, <2>5, <3>1, TypeParts, EventIsWide
    <2>7. Locals'
      <3>1. \A s \in Tasks : Fits(outcome[s], thread'[s])
        BY <2>2 DEF DesktopInv, Locals, Fits, Settled
      <3>2. kind'[t] \in Kinds
        BY <1>1, <2>4, TypeParts DEF DesktopInv, TaskTypes
      <3> QED BY <2>3, <2>4, <2>5, <3>1, <3>2 DEF Locals
    <2>8. OneOperation' /\ StateTellsThread' /\ ReleaseIsComing'
      BY <2>3, <2>4 DEF OneOperation, StateTellsThread, ReleaseIsComing, Active
    <2>9. CancelledSeesEvent' /\ CancelStopsTask'
      <3>1. \A s \in asked : s \in Tasks /\ thread[s] # "none" /\ s \notin Busy
        BY <2>1, TypeParts DEF DesktopInv, CancelledSeesEvent
      <3>2. \A s \in asked : thread'[s] # "none" /\ thread'[s] \notin {"queued", "body"}
        BY <2>2, <3>1 DEF Busy
      <3> QED BY <1>1, <2>4, <3>2 DEF DesktopInv, CancelledSeesEvent, CancelStopsTask
    <2> QED BY <2>6, <2>7, <2>8, <2>9 DEF DesktopInv
  <1> QED BY <1>3, <1>4 DEF SubmitPending

LEMMA TeardownReleases ==
  ASSUME NEW e, Released(e), Teardown(e)
  PROVE  startButton' = TRUE /\ cancelButton' = FALSE
  <1>1. cancelButton' = FALSE
    BY DEF Released
  <1>2. e # Devices
    BY DEF Teardown, Devices
  <1>3. startButton' = TRUE
    BY <1>2 DEF Released
  <1> QED BY <1>1, <1>3

\* The Tk thread takes one event: a teardown releases the buttons; any other
\* event leaves the one that does on the bus.
LEMMA PollKeeps ==
  ASSUME DesktopInv, PollEvents
  PROVE  DesktopInv'
  <1> DEFINE e == Head(events)
  <1>1. /\ UNCHANGED <<state, cancelEvent, thread, kind, outcome, deviceVars, pending, closed,
                       refreshes, asked>>
        /\ Shown(e) /\ Released(e) /\ Alerted(e)
        /\ scanned' = (scanned \/ e = RecoveryScan)
        /\ detectButton' = (detectButton \/ e = Devices)
        /\ events # <<>> /\ events' = Tail(events) /\ events \in Seq(Event)
    BY DEF PollEvents, DesktopInv, Locals
  <1>2. events' \in Seq(Event) /\ e \in Event
        /\ (Announced(events) /\ ~Teardown(e) => Announced(events'))
    BY <1>1, TakeKeeps
  <1>3. WindowTypes'
    <2>1. label' \in Ends \cup {"READY", "QUEUED", "RUNNING"}
      BY <1>1, <1>2, LabelOfEvent, TypeParts DEF Shown, DesktopInv, WindowTypes
    <2>2. startButton' \in BOOLEAN /\ cancelButton' \in BOOLEAN
      BY <1>1, TypeParts DEF Released, DesktopInv, WindowTypes
    <2>3. alert' \in BOOLEAN
      BY <1>1, TypeParts DEF Alerted, DesktopInv, WindowTypes
    <2> QED BY <1>1, <2>1, <2>2, <2>3, TypeParts DEF DesktopInv, WindowTypes
  <1>4. timer' \in BOOLEAN /\ (timer' => timer)
    BY <1>1, TypeParts DEF Released, DesktopInv, TaskTypes
  <1>5. TypeOK'
    <2>1. TaskTypes'
      BY <1>1, <1>4, TypeParts DEF DesktopInv, TaskTypes
    <2> QED BY <1>1, <1>2, <1>3, <2>1, TypeParts, DeviceTypesKept, EventIsWide DEF DesktopInv
  <1>6. Busy' = Busy
    BY <1>1 DEF Busy
  <1>7. Locals' /\ OneOperation' /\ StateTellsThread' /\ CancelledSeesEvent' /\ CancelStopsTask'
    BY <1>1, <1>2, <1>4, <1>6
       DEF DesktopInv, Locals, OneOperation, StateTellsThread, Active, CancelledSeesEvent,
           CancelStopsTask
  <1>8. ReleaseIsComing'
    <2>1. CASE Teardown(e)
      <3>1. startButton' = TRUE /\ cancelButton' = FALSE
        BY <1>1, <2>1, TeardownReleases
      <3> QED BY <3>1 DEF ReleaseIsComing
    <2>2. CASE ~Teardown(e)
      <3>1. (~startButton \/ cancelButton)' => ~startButton \/ cancelButton
        BY <1>1, <2>2, TypeParts DEF Released, DesktopInv, WindowTypes
      <3> QED BY <1>1, <1>2, <1>6, <2>2, <3>1 DEF DesktopInv, ReleaseIsComing, Idle
    <2> QED BY <2>1, <2>2
  <1> QED BY <1>5, <1>7, <1>8 DEF DesktopInv

-----------------------------------------------------------------------------
(* The thread of a task *)

\* A step of a thread keeps the types once its own part of the state has them.
LEMMA WorkerTypes ==
  ASSUME DesktopInv, UNCHANGED <<deviceVars, uiVars>>, asked' \subseteq Tasks,
         events' \in Seq(Event), TaskTypes'
  PROVE  TypeOK'
  BY TypeParts, DeviceTypesKept, WindowTypesKept, EventIsWide DEF DesktopInv

\* A thread inside the wrapper is the only one.
LEMMA OnlyOne ==
  ASSUME DesktopInv, NEW t \in Tasks, t \in Busy
  PROVE  Busy = {t} /\ Active
  BY DEF DesktopInv, OneOperation, StateTellsThread

\* A thread that moves on inside the wrapper takes the place of the task in
\* it; the outcome is there from its last poll on.
LEMMA MovesInside ==
  ASSUME DesktopInv, NEW t \in Tasks, t \in Busy, NEW p \in {"body", "closing", "returned", "stopped"},
         thread' = [thread EXCEPT ![t] = p],
         UNCHANGED <<kind, uiVars>>, asked' = asked,
         events' \in Seq(Event),
         state' = state \/ state' = "RUNNING",
         \A s \in Tasks : Fits(outcome'[s], thread'[s]),
         timer' => p \in Timed,
         p = "body" => UNCHANGED cancelEvent
  PROVE  Locals' /\ OneOperation' /\ StateTellsThread' /\ ReleaseIsComing' /\ Busy' = {t}
  <1>1. /\ thread'[t] = p /\ \A s \in Tasks \ {t} : thread'[s] = thread[s]
    BY TypeParts DEF DesktopInv, TaskTypes
  <1>2. Busy' = {t} /\ Active
    BY <1>1, OnlyOne DEF Busy
  <1>3. Locals'
    BY <1>2 DEF DesktopInv, Locals
  <1>4. OneOperation' /\ StateTellsThread'
    BY <1>1, <1>2 DEF OneOperation, StateTellsThread, Active
  <1>5. ReleaseIsComing'
    BY <1>2 DEF ReleaseIsComing
  <1> QED BY <1>2, <1>3, <1>4, <1>5

\* What was asked of a task stays heeded when the thread of one moves on and
\* the event is left alone.
LEMMA AskedKept ==
  ASSUME DesktopInv, NEW t \in Tasks, t \in Busy, NEW p \in {"body", "closing", "returned", "stopped"},
         thread' = [thread EXCEPT ![t] = p], p = "body" => thread[t] = "queued",
         UNCHANGED <<asked, cancelEvent>>
  PROVE  CancelledSeesEvent'
  <1>1. thread'[t] = p /\ \A s \in Tasks \ {t} : thread'[s] = thread[s]
    BY TypeParts DEF DesktopInv, TaskTypes
  <1> QED BY <1>1, TypeParts DEF DesktopInv, CancelledSeesEvent

LEMMA StartKeeps ==
  ASSUME DesktopInv, NEW t \in Tasks, ThreadStart(t), UNCHANGED <<deviceVars, uiVars>>,
         asked' = asked
  PROVE  DesktopInv'
  <1>1. /\ t \in Busy /\ thread[t] = "queued" /\ thread' = [thread EXCEPT ![t] = "body"]
        /\ state' = "RUNNING" /\ timer' = TRUE /\ UNCHANGED <<cancelEvent, kind, outcome>>
    BY DEF ThreadStart, At, Busy
  <1>2. events' \in Seq(Event)
    <2>1. <<TaskState("RUNNING")>> \in Seq(Event) /\ events \in Seq(Event)
      BY EventsAreEvents DEF DesktopInv, Locals
    <2> QED BY <2>1, PutKeeps DEF ThreadStart, Put
  <1>3. TaskTypes
    BY TypeParts DEF DesktopInv
  <1>4. TaskTypes'
    BY <1>1, <1>3 DEF TaskTypes, Places
  <1>5. \A s \in Tasks : Fits(outcome'[s], thread'[s])
    BY <1>1, <1>3 DEF DesktopInv, Locals, Fits, Settled, TaskTypes
  <1>6. TypeOK'
    BY <1>2, <1>4, WorkerTypes, TypeParts DEF DesktopInv
  <1>7. Locals' /\ OneOperation' /\ StateTellsThread' /\ ReleaseIsComing'
    BY <1>1, <1>2, <1>5, MovesInside DEF Timed
  <1>8. CancelledSeesEvent' /\ CancelStopsTask'
    BY <1>1, AskedKept DEF DesktopInv, CancelStopsTask
  <1> QED BY <1>6, <1>7, <1>8 DEF DesktopInv

\* A task settles its outcome at its last poll, and a success says that the
\* event was not set.
LEMMA SettlesKeep ==
  ASSUME DesktopInv, NEW t \in Tasks, BodySeesCancel(t) \/ BodyEnds(t),
         UNCHANGED <<deviceVars, uiVars>>, asked' = asked
  PROVE  DesktopInv'
  <1>1. PICK o \in Ends :
          /\ t \in Busy /\ thread[t] = "body" /\ thread' = [thread EXCEPT ![t] = "closing"]
          /\ UNCHANGED <<state, cancelEvent, timer, kind, events>>
          /\ outcome' = [outcome EXCEPT ![t] = o]
          /\ o = "SUCCESS" => ~cancelEvent
    <2>1. CASE BodySeesCancel(t)
      BY <2>1 DEF BodySeesCancel, At, Busy, Ends
    <2>2. CASE BodyEnds(t)
      BY <2>2 DEF BodyEnds, At, Busy, Ends
    <2> QED BY <2>1, <2>2
  <1>2. events' \in Seq(Event)
    BY <1>1 DEF DesktopInv, Locals
  <1>3. TaskTypes
    BY TypeParts DEF DesktopInv
  <1>4. TaskTypes'
    BY <1>1, <1>3 DEF TaskTypes, Places
  <1>5. \A s \in Tasks : Fits(outcome'[s], thread'[s])
    BY <1>1, <1>3 DEF DesktopInv, Locals, Fits, Settled, TaskTypes, Ends
  <1>6. TypeOK'
    BY <1>2, <1>4, WorkerTypes, TypeParts DEF DesktopInv
  <1>7. Locals' /\ OneOperation' /\ StateTellsThread' /\ ReleaseIsComing'
    BY <1>1, <1>2, <1>5, MovesInside DEF Timed
  <1>8. CancelledSeesEvent'
    BY <1>1, AskedKept
  <1>9. CancelStopsTask'
    <2>1. t \in asked => cancelEvent
      BY <1>1 DEF DesktopInv, CancelledSeesEvent
    <2>2. \A s \in asked : outcome'[s] # "SUCCESS"
      BY <1>1, <1>3, <2>1, TypeParts DEF DesktopInv, CancelStopsTask, TaskTypes
    <2> QED BY <2>2 DEF CancelStopsTask
  <1> QED BY <1>6, <1>7, <1>8, <1>9 DEF DesktopInv

LEMMA ReturnsKeep ==
  ASSUME DesktopInv, NEW t \in Tasks, BodyReturns(t) \/ ThreadStops(t),
         UNCHANGED <<deviceVars, uiVars>>, asked' = asked
  PROVE  DesktopInv'
  <1>1. PICK p \in {"returned", "stopped"} :
          /\ t \in Busy /\ thread[t] \in Settled /\ thread' = [thread EXCEPT ![t] = p]
          /\ UNCHANGED <<state, cancelEvent, kind, outcome>>
          /\ timer' \in {timer, FALSE} /\ (timer' => p = "returned")
    <2>1. TaskTypes
      BY TypeParts DEF DesktopInv
    <2>2. CASE BodyReturns(t)
      BY <2>1, <2>2 DEF BodyReturns, At, Busy, Settled, TaskTypes
    <2>3. CASE ThreadStops(t)
      BY <2>1, <2>3 DEF ThreadStops, At, Busy, Settled, TaskTypes
    <2> QED BY <2>2, <2>3
  <1>2. events' \in Seq(Event)
    <2>1. events \in Seq(Event)
      BY DEF DesktopInv, Locals
    <2>2. CASE BodyReturns(t)
      <3>1. kind[t] \in Kinds /\ outcome[t] \in Ends
        BY <1>1, <2>2, TypeParts DEF BodyReturns, At, DesktopInv, Locals, Fits, Settled,
           TaskTypes
      <3>2. Announcements(kind[t], outcome[t]) \in Seq(Event)
        BY <3>1, AnnouncementsAreEvents
      <3> QED BY <2>1, <2>2, <3>2, PutKeeps DEF BodyReturns, Put
    <2>3. CASE ThreadStops(t)
      BY <2>1, <2>3 DEF ThreadStops
    <2> QED BY <2>2, <2>3
  <1>3. TaskTypes
    BY TypeParts DEF DesktopInv
  <1>4. TaskTypes'
    BY <1>1, <1>3 DEF TaskTypes, Places
  <1>5. \A s \in Tasks : Fits(outcome'[s], thread'[s])
    BY <1>1, <1>3 DEF DesktopInv, Locals, Fits, Settled, TaskTypes
  <1>6. TypeOK'
    BY <1>2, <1>4, WorkerTypes, TypeParts DEF DesktopInv
  <1>7. Locals' /\ OneOperation' /\ StateTellsThread' /\ ReleaseIsComing'
    BY <1>1, <1>2, <1>5, MovesInside DEF Timed
  <1>8. CancelledSeesEvent' /\ CancelStopsTask'
    BY <1>1, AskedKept DEF DesktopInv, CancelStopsTask
  <1> QED BY <1>6, <1>7, <1>8 DEF DesktopInv

\* An operation that breaks off announces less, and no success.
LEMMA BreaksKeep ==
  ASSUME DesktopInv, NEW t \in Tasks, BodyBreaks(t),
         UNCHANGED <<deviceVars, uiVars>>, asked' = asked
  PROVE  DesktopInv'
  <1>1. TaskTypes
    BY TypeParts DEF DesktopInv
  <1>2. /\ t \in Busy /\ thread[t] = "closing" /\ thread' = [thread EXCEPT ![t] = "returned"]
        /\ outcome' = [outcome EXCEPT ![t] = "RAISED"]
        /\ UNCHANGED <<state, cancelEvent, timer, kind>>
    BY <1>1 DEF BodyBreaks, At, Busy
  <1>3. events' \in Seq(Event)
    <2>1. kind[t] \in Kinds /\ outcome[t] \in Ends
      BY <1>1, <1>2 DEF DesktopInv, Locals, Fits, Settled, TaskTypes
    <2>2. PICK a \in Interrupted(kind[t], outcome[t]) : events' = events \o a
      BY DEF BodyBreaks, Put
    <2>3. a \in Seq(Event)
      BY <2>1, InterruptedAreEvents
    <2> QED BY <2>2, <2>3, PutKeeps DEF DesktopInv, Locals
  <1>4. TaskTypes'
    BY <1>1, <1>2 DEF TaskTypes, Places
  <1>5. \A s \in Tasks : Fits(outcome'[s], thread'[s])
    BY <1>1, <1>2 DEF DesktopInv, Locals, Fits, Settled, TaskTypes
  <1>6. TypeOK'
    BY <1>3, <1>4, WorkerTypes, TypeParts DEF DesktopInv
  <1>7. Locals' /\ OneOperation' /\ StateTellsThread' /\ ReleaseIsComing'
    BY <1>2, <1>3, <1>5, MovesInside DEF Timed
  <1>8. CancelledSeesEvent'
    BY <1>2, AskedKept
  <1>9. CancelStopsTask'
    BY <1>1, <1>2, TypeParts DEF DesktopInv, CancelStopsTask, TaskTypes
  <1> QED BY <1>6, <1>7, <1>8, <1>9 DEF DesktopInv

\* The end of a task leaves no thread in the wrapper, a state that is not
\* active, and the event that releases the buttons on the bus.
LEMMA EndKeeps ==
  ASSUME DesktopInv, NEW t \in Tasks, NEW r \in BOOLEAN, End(t, r),
         UNCHANGED <<deviceVars, uiVars>>, asked' = asked \ {t}
  PROVE  DesktopInv'
  <1>1. /\ t \in Busy /\ thread[t] = "stopped" /\ thread' = [thread EXCEPT ![t] = "done"]
        /\ kind' = [kind EXCEPT ![t] = "none"] /\ outcome' = [outcome EXCEPT ![t] = "none"]
        /\ UNCHANGED <<cancelEvent, timer>>
    BY DEF End, At, Forgotten, Busy
  <1>2. state' \in Ends
    <2>1. state' = "CANCELLED" \/ state' = "FAILED" \/ state' = "SUCCESS"
      BY DEF End
    <2> QED BY <2>1 DEF Ends
  <1>3. events' \in Seq(Event) /\ Announced(events')
    <2> DEFINE new == <<TaskState(state'), TaskFinished(r)>>
    <2>1. TaskState(state') \in Event /\ TaskFinished(r) \in Event /\ Teardown(TaskFinished(r))
      BY <1>2, EventsAreEvents
    <2>2. new \in Seq(Event) /\ Len(new) = 2 /\ new[2] = TaskFinished(r)
      BY <2>1
    <2>3. Announced(new)
      BY <2>1, <2>2 DEF Announced
    <2>4. events' = events \o new /\ events \in Seq(Event)
      BY DEF End, Put, DesktopInv, Locals
    <2> HIDE DEF new
    <2> QED BY <2>2, <2>3, <2>4, PutKeeps
  <1>4. TaskTypes
    BY TypeParts DEF DesktopInv
  <1>5. TaskTypes'
    BY <1>1, <1>2, <1>4 DEF TaskTypes, Places
  <1>6. TypeOK'
    BY <1>3, <1>5, WorkerTypes, TypeParts DEF DesktopInv
  <1>7. /\ thread'[t] = "done" /\ outcome'[t] = "none"
        /\ \A s \in Tasks \ {t} : thread'[s] = thread[s] /\ outcome'[s] = outcome[s]
    BY <1>1, <1>4 DEF TaskTypes
  <1>8. Busy' = {}
    BY <1>1, <1>7, OnlyOne DEF Busy
  <1>9. Locals'
    BY <1>3, <1>7, <1>8 DEF DesktopInv, Locals, Fits, Settled
  <1>10. ~timer
    <2>1. \A s \in Tasks : thread[s] \notin Timed
      BY <1>1, OnlyOne DEF Busy, Timed
    <2> QED BY <2>1 DEF DesktopInv, StateTellsThread
  <1>11. OneOperation' /\ StateTellsThread'
    BY <1>1, <1>2, <1>8, <1>10 DEF OneOperation, StateTellsThread, Active, Ends
  <1>12. CancelledSeesEvent' /\ CancelStopsTask'
    BY <1>1, <1>7, TypeParts DEF DesktopInv, CancelledSeesEvent, CancelStopsTask
  <1>13. ReleaseIsComing'
    BY <1>3 DEF ReleaseIsComing
  <1> QED BY <1>6, <1>9, <1>11, <1>12, <1>13 DEF DesktopInv

LEMMA WorkerKeeps ==
  ASSUME DesktopInv, NEW t \in Tasks, Worker(t)
  PROVE  DesktopInv'
  <1>1. ThreadStep(t) /\ UNCHANGED <<deviceVars, uiVars>>
        /\ asked' = IF thread'[t] = "done" THEN asked \ {t} ELSE asked
    BY DEF Worker
  <1>2. thread \in [Tasks -> Places]
    BY TypeParts DEF DesktopInv, TaskTypes
  <1>3. CASE ThreadStart(t) \/ BodySeesCancel(t) \/ BodyEnds(t) \/ BodyReturns(t) \/ BodyBreaks(t)
            \/ ThreadStops(t)
    <2>1. asked' = asked
      BY <1>1, <1>2, <1>3 DEF ThreadStart, BodySeesCancel, BodyEnds, BodyReturns, BodyBreaks,
         ThreadStops, At
    <2> QED BY <1>1, <1>3, <2>1, StartKeeps, SettlesKeep, ReturnsKeep, BreaksKeep
  <1>4. ASSUME NEW r \in MayRaise(kind[t], outcome[t]), End(t, r)
        PROVE  DesktopInv'
    <2>1. r \in BOOLEAN
      BY DEF MayRaise
    <2>2. asked' = asked \ {t}
      BY <1>1, <1>2, <1>4 DEF End, At
    <2> QED BY <1>1, <1>4, <2>1, <2>2, EndKeeps
  <1> QED BY <1>1, <1>3, <1>4 DEF ThreadStep

-----------------------------------------------------------------------------
(* The discovery thread and time *)

LEMMA DiscoveryKeeps ==
  ASSUME DesktopInv, Discovery \/ Age
  PROVE  DesktopInv'
  <1>1. UNCHANGED <<taskVars, uiVars, asked>>
    BY DEF Discovery, Age
  <1>2. /\ UNCHANGED <<state, timer, thread, kind, outcome, cancelEvent>>
        /\ UNCHANGED <<startButton, cancelButton, pending, closed>>
    BY <1>1 DEF taskVars, uiVars
  <1>3. events' \in Seq(Event) /\ (Announced(events) => Announced(events'))
    <2>1. CASE UNCHANGED events
      BY <2>1 DEF DesktopInv, Locals
    <2>2. CASE CallBack
      <3>1. <<Devices>> \in Seq(Event) /\ events \in Seq(Event)
        BY EventsAreEvents DEF DesktopInv, Locals
      <3> QED BY <3>1, <2>2, PutKeeps DEF CallBack, Put
    <2> QED BY <2>1, <2>2 DEF Discovery, Age, Discovered, Expire
  <1>4. DeviceTypes'
    <2>1. DeviceTypes
      BY TypeParts DEF DesktopInv
    <2>2. CASE CallBack
      <3>1. callbacks' \in Nat /\ UNCHANGED <<fresh, discovering>>
        BY <2>1, <2>2 DEF CallBack, DeviceTypes
      <3> QED BY <2>1, <3>1 DEF DeviceTypes
    <2>3. CASE Discovered
      <3>1. callbacks' \in Nat
        BY <2>1, <2>3 DEF Discovered, DeviceTypes
      <3>2. fresh' \in BOOLEAN /\ discovering' \in BOOLEAN
        BY <2>3 DEF Discovered
      <3> QED BY <3>1, <3>2 DEF DeviceTypes
    <2>4. CASE Expire
      BY <2>1, <2>4 DEF Expire, DeviceTypes
    <2> QED BY <2>2, <2>3, <2>4 DEF Discovery, Age
  <1>5. TypeOK'
    BY <1>1, <1>3, <1>4, TypeParts, TaskTypesKept, WindowTypesKept, EventIsWide DEF DesktopInv
  <1>6. Busy' = Busy
    BY <1>2 DEF Busy
  <1>7. Locals' /\ OneOperation' /\ StateTellsThread'
    BY <1>2, <1>3, <1>6 DEF DesktopInv, Locals, OneOperation, StateTellsThread, Active
  <1>8. CancelledSeesEvent' /\ CancelStopsTask'
    BY <1>1, <1>2 DEF DesktopInv, CancelledSeesEvent, CancelStopsTask
  <1>9. ReleaseIsComing'
    BY <1>2, <1>3, <1>6 DEF DesktopInv, ReleaseIsComing, Idle
  <1> QED BY <1>5, <1>7, <1>8, <1>9 DEF DesktopInv

-----------------------------------------------------------------------------
(* The theorems *)

LEMMA DesktopStep == DesktopInv /\ [Next]_vars => DesktopInv'
  <1> SUFFICES ASSUME DesktopInv, [Next]_vars PROVE DesktopInv'
    OBVIOUS
  <1>1. CASE Click
    BY <1>1, StartsKeep, PagesKeep, CancelKeeps, RefreshKeeps, ClosingKeeps DEF Click
  <1>2. CASE SubmitPending
    BY <1>2, SubmitKeeps
  <1>3. CASE PollEvents
    BY <1>3, PollKeeps
  <1>4. CASE \E t \in Tasks : Worker(t)
    BY <1>4, WorkerKeeps
  <1>5. CASE Discovery \/ Age
    BY <1>5, DiscoveryKeeps
  <1>6. CASE UNCHANGED vars
    <2>1. UNCHANGED <<taskVars, deviceVars, uiVars, events, asked>>
      BY <1>6 DEF vars
    <2>2. TypeOK'
      BY <2>1, TypeParts, TaskTypesKept, DeviceTypesKept, WindowTypesKept DEF DesktopInv
    <2>3. /\ UNCHANGED <<events, state, timer, thread, kind, outcome, closed>>
          /\ UNCHANGED <<cancelEvent, asked, pending, startButton, cancelButton>>
      BY <2>1 DEF taskVars, uiVars
    <2>4. CancelledSeesEvent' /\ CancelStopsTask' /\ ReleaseIsComing'
      BY <2>3, TasksKept
         DEF DesktopInv, CancelledSeesEvent, CancelStopsTask, ReleaseIsComing, Idle
    <2> QED BY <2>2, <2>3, <2>4, TasksKept DEF DesktopInv
  <1> QED BY <1>1, <1>2, <1>3, <1>4, <1>5, <1>6 DEF Next

\* The manager's state, the threads of the pool, the stopwatch, the event and
\* the buttons agree after every click, event and step of a thread
\* (DrexTaskManager, DrexApp._poll_events).
THEOREM DesktopInvariant == Spec => []DesktopInv
  <1>1. Init => DesktopInv
    BY DesktopInitially
  <1>2. DesktopInv /\ [Next]_vars => DesktopInv'
    BY DesktopStep
  <1> QED BY <1>1, <1>2, PTL DEF Spec

\* Every variable of the desktop application has its type; in particular the
\* bus carries nothing that _poll_events does not know.
THEOREM DesktopTypes == Spec => []TypeOK
  <1>1. DesktopInv => TypeOK
    BY DEF DesktopInv
  <1> QED BY <1>1, DesktopInvariant, PTL

\* submit_task lets no second task into the wrapper while one is inside it,
\* although the pool has four threads and the Start button comes back early.
THEOREM OneOperationHolds == Spec => []OneOperation
  <1>1. DesktopInv => OneOperation
    BY DEF DesktopInv
  <1> QED BY <1>1, DesktopInvariant, PTL

\* A task that was cancelled before its last poll does not succeed, unless
\* start_operation or recover_selected_candidates has cleared the event.
THEOREM CancelStopsTaskHolds == Spec => []CancelStopsTask
  <1>1. DesktopInv => CancelStopsTask
    BY DEF DesktopInv
  <1> QED BY <1>1, DesktopInvariant, PTL

\* When no thread, event or handler is left, the window offers Start and not
\* Cancel, however many submissions were refused.
THEOREM QuietOffersStartHolds == Spec => []QuietOffersStart
  <1>1. DesktopInv => QuietOffersStart
    <2> SUFFICES ASSUME DesktopInv, Quiet PROVE startButton /\ ~cancelButton
      BY DEF QuietOffersStart
    <2>1. Idle /\ events = <<>> /\ Busy = {}
      BY DEF Quiet
    <2>2. ~Announced(events)
      BY <2>1 DEF Announced
    <2> QED BY <2>1, <2>2 DEF DesktopInv, ReleaseIsComing
  <1> QED BY <1>1, DesktopInvariant, PTL
=============================================================================
