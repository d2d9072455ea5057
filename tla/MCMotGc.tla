------------------------------ MODULE MCMotGc ------------------------------
(* Small instances of MotGc. *)
EXTENDS MotGc, TLC

\* Sessions and pool objects are interchangeable (for the runs without liveness).
Symmetry == Permutations(Sessions) \cup Permutations(Sentinels)
=============================================================================
