--------------------------- MODULE MCCasePackage ---------------------------
(***************************************************************************)
(* CasePackage on small instances.                                         *)
(***************************************************************************)
EXTENDS CasePackage, TLC

Symmetry == Permutations(Writers)
=============================================================================
