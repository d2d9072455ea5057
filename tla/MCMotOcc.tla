------------------------------ MODULE MCMotOcc ------------------------------
(* Small instances of MotOcc. *)
EXTENDS MotOcc, TLC

Sym == Permutations(Txn)

=============================================================================
