---------------------------- MODULE MCJobServer ----------------------------
(***************************************************************************)
(* JobServer on small instances.  The requests aim at one target from two  *)
(* cases, so that the fingerprint check lets a second request through and  *)
(* the target lock has to stop it.                                         *)
(***************************************************************************)
EXTENDS JobServer, TLC

CONSTANTS t1

Request(op, async, case) ==
  [op |-> op, async |-> async, target |-> t1, case |-> case]

\* A synchronous run and a scan of the same target.
SyncRunAndScan ==
  {Request("SANITIZATION_EXECUTE", FALSE, "c2"),
   Request("RECOVERY_SCAN", TRUE, "c1")}

\* An asynchronous run and a scan of the same target.
RunAndScan ==
  {Request("SANITIZATION_EXECUTE", TRUE, "c2"),
   Request("RECOVERY_SCAN", TRUE, "c1")}

\* A single sanitization.
OneRun == {Request("SANITIZATION_EXECUTE", FALSE, "c1")}

Symmetry == Permutations(Jobs)
=============================================================================
