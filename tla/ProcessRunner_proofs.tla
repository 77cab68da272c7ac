------------------------ MODULE ProcessRunner_proofs ------------------------
(***************************************************************************)
(* What a call of the process runner guarantees for every amount of output *)
(* and every capacity of the pipe.                                         *)
(***************************************************************************)
EXTENDS ProcessRunner, TLAPS

\* Nothing is lost between the child and the caller while the child has not
\* been cut short; a child that exits by itself has said everything.
NothingLost ==
  /\ child \in {"running", "exited"} => got + pipe + rest = total
  /\ child = "exited" => rest = 0

\* Where the caller has stopped waiting, the child has ended; where it has a
\* result, the pipe of a child that exited is empty.
Ended ==
  /\ pc \in {"drain", "result", "done"} => child # "running"
  /\ pc = "result" /\ child = "exited" => pipe = 0
  /\ pc = "start" => child = "none" /\ pipe = 0 /\ got = 0
  /\ outcome \in {"OK", "FILE"} => pc = "done" /\ got = total

RunInv == TypeOK /\ NothingLost /\ Ended

-----------------------------------------------------------------------------

LEMMA InitRun ==
  ASSUME Init
  PROVE  RunInv
  <1>1. TypeOK
    <2>1. 0 \in 0..MaxOutput /\ 0 \in 0..Capacity
      BY OutputAssumption
    <2> QED BY <2>1 DEF Init, TypeOK
  <1>2. NothingLost /\ Ended
    BY DEF Init, NothingLost, Ended
  <1> QED BY <1>1, <1>2 DEF RunInv

LEMMA EnvironmentKeeps ==
  ASSUME RunInv, Environment
  PROVE  RunInv'
  <1> USE OutputAssumption DEF RunInv, world, io, flags
  <1>1. CASE ChildWrites
    <2>1. TypeOK'
      BY <1>1 DEF ChildWrites, TypeOK
    <2>2. NothingLost' /\ Ended'
      BY <1>1 DEF ChildWrites, TypeOK, NothingLost, Ended
    <2> QED BY <2>1, <2>2
  <1>2. CASE ChildEnds
    BY <1>2 DEF ChildEnds, TypeOK, NothingLost, Ended
  <1>3. CASE ChildObeys
    BY <1>3 DEF ChildObeys, TypeOK, NothingLost, Ended
  <1>4. CASE Cancel \/ TimeoutElapses
    <2>1. /\ token' \in BOOLEAN /\ late' \in BOOLEAN
          /\ UNCHANGED <<world, child, io, flags, outcome, pc>>
      BY <1>4 DEF Cancel, TimeoutElapses, TypeOK
    <2>2. TypeOK'
      BY <2>1 DEF TypeOK
    <2>3. NothingLost' /\ Ended'
      BY <2>1 DEF NothingLost, Ended
    <2> QED BY <2>2, <2>3
  <1> QED BY <1>1, <1>2, <1>3, <1>4 DEF Environment

LEMMA RunKeeps ==
  ASSUME RunInv, Launch \/ Poll \/ CheckCancel \/ Grace \/ CheckTime \/ Drain
  PROVE  RunInv'
  <1> USE OutputAssumption DEF RunInv, world, io, flags
  <1>1. CASE Launch
    BY <1>1 DEF Launch, TypeOK, NothingLost, Ended
  <1>2. CASE Poll \/ CheckCancel
    BY <1>2, ZenonT(60) DEF Poll, CheckCancel, TypeOK, NothingLost, Ended
  <1>3. CASE Grace \/ CheckTime
    BY <1>3, ZenonT(60) DEF Grace, CheckTime, Killed, TypeOK, NothingLost, Ended
  <1>4. CASE Drain
    BY <1>4 DEF Drain, TypeOK, NothingLost, Ended
  <1> QED BY <1>1, <1>2, <1>3, <1>4

LEMMA ResultKeeps ==
  ASSUME RunInv, ScanResult \/ RecoverResult \/ Capture
  PROVE  RunInv'
  <1> USE OutputAssumption DEF RunInv, world, io, flags
  <1>1. CASE ScanResult
    BY <1>1 DEF ScanResult, TypeOK, NothingLost, Ended
  <1>2. CASE RecoverResult
    <2>1. CASE /\ child = "exited" /\ got > 0
               /\ outcome' = "FILE" /\ pc' = "done"
               /\ UNCHANGED <<child, io, late>>
      BY <1>2, <2>1 DEF RecoverResult, TypeOK, NothingLost, Ended
    <2>2. CASE /\ child' = "running" /\ rest' = total /\ pipe' = 0 /\ got' = 0
               /\ late' = FALSE
               /\ outcome' = outcome /\ pc' = "capture"
      <3>1. UNCHANGED <<caller, total, token, flags>> /\ pc = "result"
        BY <1>2 DEF RecoverResult
      <3>2. pipe' \in 0..Capacity /\ got' \in Nat /\ rest' \in 0..MaxOutput
        BY <2>2 DEF TypeOK
      <3>3. late' \in BOOLEAN
        BY <2>2
      <3>4. TypeOK'
        BY <2>2, <3>1, <3>2, <3>3 DEF TypeOK
      <3>5. NothingLost' /\ Ended'
        BY <2>2, <3>1 DEF TypeOK, NothingLost, Ended
      <3> QED BY <3>4, <3>5
    <2>3. CASE outcome' = "ERROR" /\ pc' = "done" /\ UNCHANGED <<child, io, late>>
      BY <1>2, <2>3 DEF RecoverResult, TypeOK, NothingLost, Ended
    <2> QED BY <1>2, <2>1, <2>2, <2>3 DEF RecoverResult
  <1>3. CASE Capture
    BY <1>3 DEF Capture, Killed, TypeOK, NothingLost, Ended
  <1> QED BY <1>1, <1>2, <1>3

-----------------------------------------------------------------------------

\* The inductive invariant.
THEOREM RunInvariant == Spec => []RunInv
  <1>1. Init => RunInv
    BY InitRun
  <1>2. RunInv /\ [Next]_vars => RunInv'
    <2> SUFFICES ASSUME RunInv, [Next]_vars
                 PROVE  RunInv'
      OBVIOUS
    <2>1. CASE Environment
      BY <2>1, EnvironmentKeeps
    <2>2. CASE Caller
      BY <2>2, RunKeeps, ResultKeeps DEF Caller
    <2>3. CASE UNCHANGED vars
      BY <2>3 DEF vars, world, io, flags, RunInv, TypeOK, NothingLost, Ended
    <2> QED BY <2>1, <2>2, <2>3 DEF Next
  <1> QED BY <1>1, <1>2, PTL DEF Spec

\* A scan reported as OK and a file reported as recovered rest on the whole
\* output of the command.
THEOREM WholeIfReportedHolds == Spec => []WholeIfReported
  <1>1. RunInv => WholeIfReported
    BY DEF RunInv, TypeOK, NothingLost, Ended, WholeIfReported
  <1> QED BY <1>1, RunInvariant, PTL

\* No call returns before its child has ended.
THEOREM NoChildLeftHolds == Spec => []NoChildLeft
  <1>1. RunInv => NoChildLeft
    BY DEF RunInv, Ended, NoChildLeft
  <1> QED BY <1>1, RunInvariant, PTL

\* Every variable of a call has its type.
THEOREM RunnerTypes == Spec => []TypeOK
  <1>1. RunInv => TypeOK
    BY DEF RunInv
  <1> QED BY <1>1, RunInvariant, PTL
=============================================================================
