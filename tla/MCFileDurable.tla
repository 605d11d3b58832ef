---------------------------- MODULE MCFileDurable ----------------------------
(***************************************************************************)
(* FileDurable for TLC: workers are interchangeable, so a safety run       *)
(* explores one state per permutation of them.                             *)
(***************************************************************************)
EXTENDS FileDurable, TLC

SymetrieWorkers == Permutations(Workers)
=============================================================================
