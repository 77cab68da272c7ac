--------------------------- MODULE ProcessRunner ---------------------------
(***************************************************************************)
(* One call of CentralProcessRunner.run or binary_run (backend_adapters.py)*)
(* and what QuickRecoveryAdapter makes of its result: scan (fls) passes    *)
(* the cancellation of its job on, recover (icat) does not, and runs the   *)
(* command a second time with subprocess.run when the first try gave       *)
(* nothing.                                                                *)
(*                                                                         *)
(* The child runs beside the caller.  Its output goes to a pipe of limited *)
(* capacity, which run leaves alone until the child has ended.             *)
(***************************************************************************)
EXTENDS Naturals

CONSTANTS
  MaxOutput,  \* bound: pieces of output of the command
  Capacity    \* pieces the pipe holds

ASSUME OutputAssumption == MaxOutput \in Nat /\ Capacity \in Nat \ {0}

VARIABLES
  caller,     \* "scan" or "recover"
  total,      \* pieces the command has to say, if it is let
  child,      \* "none", "running", "exited" (code 0), "failed", "killed"
  rest,       \* pieces the child has not written yet
  pipe,       \* pieces in the pipe
  got,        \* pieces the caller has read
  token,      \* what cancel_check returns
  late,       \* has the timeout elapsed?
  cancelled,  \* ProcessResult.cancelled
  timedOut,   \* ProcessResult.timed_out
  outcome,    \* RecoveryScan.status, "FILE" for a recovered file, or "ERROR"
  pc

world == <<caller, total>>
io == <<rest, pipe, got>>
flags == <<cancelled, timedOut>>
vars == <<world, child, io, token, late, flags, outcome, pc>>

-----------------------------------------------------------------------------
(* The child, the job that may be cancelled, and the clock *)

\* The child is blocked while the pipe is full.
ChildWrites ==
  /\ child = "running" /\ rest > 0 /\ pipe < Capacity
  /\ rest' = rest - 1 /\ pipe' = pipe + 1
  /\ UNCHANGED <<world, child, got, token, late, flags, outcome, pc>>

\* It succeeds when it has written everything, and may fail at any time.
ChildEnds ==
  /\ child = "running"
  /\ \/ rest = 0 /\ child' = "exited"
     \/ child' = "failed"
  /\ UNCHANGED <<world, io, token, late, flags, outcome, pc>>

\* It obeys terminate(), or not.
ChildObeys ==
  /\ child = "running" /\ pc = "grace"
  /\ child' = "killed"
  /\ UNCHANGED <<world, io, token, late, flags, outcome, pc>>

Cancel ==
  /\ ~token
  /\ token' = TRUE
  /\ UNCHANGED <<world, child, io, late, flags, outcome, pc>>

TimeoutElapses ==
  /\ ~late
  /\ late' = TRUE
  /\ UNCHANGED <<world, child, io, token, flags, outcome, pc>>

-----------------------------------------------------------------------------
(* run *)

\* Popen, or an OSError and a result with exit code -1.
Launch ==
  /\ pc = "start"
  /\ \/ child' = "running" /\ rest' = total /\ pc' = "poll"
     \/ child' = "failed" /\ rest' = rest /\ pc' = "result"
  /\ UNCHANGED <<world, pipe, got, token, late, flags, outcome>>

\* The condition of the loop.
Poll ==
  /\ pc = "poll"
  /\ pc' = IF child = "running" THEN "check" ELSE "drain"
  /\ UNCHANGED <<world, child, io, token, late, flags, outcome>>

\* cancel_check, if there is one; then terminate().
CheckCancel ==
  /\ pc = "check"
  /\ IF caller = "scan" /\ token
     THEN cancelled' = TRUE /\ pc' = "grace"
     ELSE cancelled' = cancelled /\ pc' = "time"
  /\ UNCHANGED <<world, child, io, token, late, timedOut, outcome>>

\* kill() and wait(): a child that has ended meanwhile keeps its exit code.
Killed == IF child = "running" THEN "killed" ELSE child

\* Mutant: whoever ignores terminate() is left alone.
GraceWithoutKill ==
  /\ pc = "grace"
  /\ child' = child
  /\ pc' = "drain"
  /\ UNCHANGED <<world, io, token, late, flags, outcome>>

\* wait(timeout=5): the child ends in time, or it is killed.
Grace ==
  /\ pc = "grace"
  /\ child' = Killed
  /\ pc' = "drain"
  /\ UNCHANGED <<world, io, token, late, flags, outcome>>

\* Mutant: the timeout is looked at only when the child is not blocked.
CheckTimeUnlessBlocked ==
  /\ pc = "time"
  /\ IF late /\ pipe < Capacity
     THEN timedOut' = TRUE /\ child' = Killed /\ pc' = "drain"
     ELSE UNCHANGED <<timedOut, child>> /\ pc' = "poll"
  /\ UNCHANGED <<world, io, token, late, cancelled, outcome>>

\* The timeout is looked at between two sleeps.
CheckTime ==
  /\ pc = "time"
  /\ IF late
     THEN timedOut' = TRUE /\ child' = Killed /\ pc' = "drain"
     ELSE UNCHANGED <<timedOut, child>> /\ pc' = "poll"
  /\ UNCHANGED <<world, io, token, late, cancelled, outcome>>

\* communicate(): the first time anybody reads the pipe.
Drain ==
  /\ pc = "drain"
  /\ got' = got + pipe
  /\ pipe' = 0
  /\ pc' = "result"
  /\ UNCHANGED <<world, child, rest, token, late, flags, outcome>>

-----------------------------------------------------------------------------
(* QuickRecoveryAdapter *)

\* Mutant: what was read decides the status of a scan, not the exit code.
ScanResultByOutput ==
  /\ pc = "result" /\ caller = "scan"
  /\ outcome' = IF got > 0 THEN "OK" ELSE "ERROR"
  /\ pc' = "done"
  /\ UNCHANGED <<world, child, io, token, late, flags>>

\* scan: a failure without output is an error, one with output is PARTIAL.
ScanResult ==
  /\ pc = "result" /\ caller = "scan"
  /\ outcome' = IF child = "exited" THEN "OK" ELSE IF got > 0 THEN "PARTIAL" ELSE "ERROR"
  /\ pc' = "done"
  /\ UNCHANGED <<world, child, io, token, late, flags>>

\* recover: the output is the file; otherwise the command is run once more.
RecoverResult ==
  /\ pc = "result" /\ caller = "recover"
  /\ \/ /\ child = "exited" /\ got > 0
        /\ outcome' = "FILE" /\ pc' = "done"
        /\ UNCHANGED <<child, io, late>>
     \/ /\ ~(child = "exited" /\ got > 0)
        /\ child' = "running" /\ rest' = total /\ pipe' = 0 /\ got' = 0
        /\ late' = FALSE
        /\ outcome' = outcome /\ pc' = "capture"
     \/ /\ ~(child = "exited" /\ got > 0)
        /\ outcome' = "ERROR" /\ pc' = "done"
        /\ UNCHANGED <<child, io, late>>
  /\ UNCHANGED <<world, token, flags>>

\* subprocess.run(capture_output=True) reads the pipe while the child runs,
\* and kills it when the timeout elapses.
Capture ==
  /\ pc = "capture"
  /\ \/ /\ pipe > 0
        /\ got' = got + pipe /\ pipe' = 0
        /\ UNCHANGED <<child, outcome, pc>>
     \/ /\ pipe = 0 /\ child # "running"
        /\ outcome' = IF child = "exited" /\ got > 0 THEN "FILE" ELSE "ERROR"
        /\ pc' = "done"
        /\ UNCHANGED <<child, got, pipe>>
     \/ /\ late
        /\ child' = Killed
        /\ outcome' = "ERROR" /\ pc' = "done"
        /\ UNCHANGED <<got, pipe>>
  /\ UNCHANGED <<world, rest, token, late, flags>>

-----------------------------------------------------------------------------

Init ==
  /\ caller \in {"scan", "recover"}
  /\ total \in 0..MaxOutput
  /\ child = "none"
  /\ rest = 0 /\ pipe = 0 /\ got = 0
  /\ token = FALSE /\ late = FALSE
  /\ cancelled = FALSE /\ timedOut = FALSE
  /\ outcome = "NONE"
  /\ pc = "start"

Environment == ChildWrites \/ ChildEnds \/ ChildObeys \/ Cancel \/ TimeoutElapses
Caller ==
  \/ Launch \/ Poll \/ CheckCancel \/ Grace \/ CheckTime \/ Drain
  \/ ScanResult \/ RecoverResult \/ Capture

Next == Environment \/ Caller

Spec == Init /\ [][Next]_vars

\* The caller's thread is scheduled and time passes.  Nothing is assumed of
\* the child: it may hang, or wait for a pipe that nobody reads.
FairSpec == Spec /\ WF_vars(Caller) /\ WF_vars(TimeoutElapses)
-----------------------------------------------------------------------------
(* Properties *)

\* Every variable has its type.
TypeOK ==
  /\ caller \in {"scan", "recover"}
  /\ total \in 0..MaxOutput
  /\ child \in {"none", "running", "exited", "failed", "killed"}
  /\ rest \in 0..MaxOutput
  /\ pipe \in 0..Capacity
  /\ got \in Nat
  /\ token \in BOOLEAN /\ late \in BOOLEAN
  /\ cancelled \in BOOLEAN /\ timedOut \in BOOLEAN
  /\ outcome \in {"NONE", "OK", "PARTIAL", "FILE", "ERROR"}
  /\ pc \in {"start", "poll", "check", "time", "grace", "drain", "result", "capture", "done"}

\* A scan that is reported as OK, and a file that is reported as recovered,
\* rest on the whole output of the command, although the command may be
\* cancelled, time out, fail or be killed between any two steps of the caller.
WholeIfReported == outcome \in {"OK", "FILE"} => got = total

\* No call leaves its child behind, reading the evidence on its own.
NoChildLeft == pc \in {"result", "done"} => child # "running"

\* Every call returns, even when the child hangs, ignores terminate() or waits
\* for a full pipe to be read.
EveryCallReturns == <>(pc = "done")
=============================================================================
