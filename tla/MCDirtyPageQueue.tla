-------------------------- MODULE MCDirtyPageQueue --------------------------
(* Small instances of DirtyPageQueue. *)
EXTENDS DirtyPageQueue, TLC

\* Backends are interchangeable (for the runs without liveness).
Symmetry == Permutations(Backends)
=============================================================================
