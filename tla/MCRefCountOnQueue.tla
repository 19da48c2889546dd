-------------------------- MODULE MCRefCountOnQueue ---------------------------
(***************************************************************************)
(* RefCountOnQueue for TLC.  The handles are interchangeable in safety     *)
(* runs.                                                                   *)
(***************************************************************************)
EXTENDS RefCountOnQueue, TLC

Symmetry == Permutations(Handle)
=============================================================================
