----------------------------- MODULE MCRefCount ------------------------------
(***************************************************************************)
(* RefCount for TLC.  The handles are interchangeable in safety runs.      *)
(***************************************************************************)
EXTENDS RefCount, TLC

Symmetry == Permutations(Handle)
=============================================================================
