------------------------------ MODULE MCLwLock ------------------------------
(* Small instances of LwLock. *)
EXTENDS LwLock, TLC

CONSTANTS p1, p2, p3

\* Two threads share a byte of the lock word.
TwoBytes == p1 :> 0 @@ p2 :> 0 @@ p3 :> 1

\* One thread has a second use for its semaphore.
OnePost == p1 :> 1 @@ p2 :> 0 @@ p3 :> 0
=============================================================================
