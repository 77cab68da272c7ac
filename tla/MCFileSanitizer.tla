-------------------------- MODULE MCFileSanitizer --------------------------
(***************************************************************************)
(* FileSanitizer on small trees.                                           *)
(***************************************************************************)
EXTENDS FileSanitizer, TLC

Symmetry == Permutations(Files)
=============================================================================
