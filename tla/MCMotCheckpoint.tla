-------------------------- MODULE MCMotCheckpoint --------------------------
(***************************************************************************)
(* MotCheckpoint on small instances.                                       *)
(***************************************************************************)
EXTENDS MotCheckpoint

\* Sessions and rows are interchangeable (for the runs without liveness).
Symmetry == Permutations(Txn) \cup Permutations(Key)
=============================================================================
