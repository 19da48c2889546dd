---------------------------- MODULE MCArrayQueue -----------------------------
(***************************************************************************)
(* ArrayQueue for TLC.  The threads are interchangeable in safety runs.    *)
(***************************************************************************)
EXTENDS ArrayQueue, TLC

Symmetry == Permutations(Proc)
=============================================================================
