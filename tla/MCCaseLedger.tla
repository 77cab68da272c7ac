---------------------------- MODULE MCCaseLedger ----------------------------
(***************************************************************************)
(* CaseLedger on small instances.                                          *)
(***************************************************************************)
EXTENDS CaseLedger, TLC

\* What endpoints do under the lock, and what the workers add without it.
AllOperations == DOMAIN Appends

\* A custody transfer, and the audit append of a sanitization worker.
CustodyOrWorker == {"CUSTODY", "SANITIZE"}

Symmetry == Permutations(Writers)
=============================================================================
