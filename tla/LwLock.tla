------------------------------- MODULE LwLock -------------------------------
(***************************************************************************)
(* One lightweight lock of the server (LWLock) and the threads that use    *)
(* it.  The lock word has an exclusive bit and a count of shared holders   *)
(* in each of six bytes; a shared locker compares and swaps only the byte  *)
(* its thread hashes to, an exclusive one the whole word.  A thread that   *)
(* cannot get the lock queues, tries again and then sleeps on a semaphore  *)
(* it shares with other parts of the server.                               *)
(*                                                                         *)
(* The wait list is protected by a spin bit in the same word.  What is     *)
(* done under it neither reads nor writes the holders, so each such        *)
(* section is one step.  Every other atomic operation is a step.           *)
(***************************************************************************)
EXTENDS Integers, Sequences, FiniteSets, FiniteSetsExt

CONSTANTS
    Procs,      \* threads
    Bytes,      \* bytes of the lock word that hold counts
    ByteOf,     \* [Procs -> Bytes]: LOCK_THREADID_MASK
    ByteCap,    \* bound of a count, 127 in the code
    Calls,      \* the functions the threads call
    MaxForeign, \* [Procs -> bound]: posts of the semaphore by other parts of the server
    NoProc

CallKinds == {"acquire", "cond", "orwait"}

ASSUME LwLockAssumption ==
    /\ IsFiniteSet(Procs) /\ IsFiniteSet(Bytes)
    /\ ByteOf \in [Procs -> Bytes]
    /\ ByteCap \in Nat \ {0} /\ MaxForeign \in [Procs -> Nat]
    /\ Calls \subseteq CallKinds
    /\ NoProc \notin Procs

VARIABLES
    ex,      \* bytes with the exclusive bit
    shared,  \* [Bytes -> count]
    hasW,    \* LW_FLAG_HAS_WAITERS
    relOk,   \* LW_FLAG_RELEASE_OK
    queue,   \* LWLock::waiters
    pc,      \* [Procs -> step]
    call,    \* [Procs -> function called]
    mode,    \* [Procs -> mode asked for]
    old,     \* [Procs -> count read before the compare and swap]
    hold,    \* [Procs -> mode held]
    waiting, \* [Procs -> lwWaiting]
    wmode,   \* [Procs -> lwWaitMode]
    wake,    \* [Procs -> the local list of LWLockWakeup]
    post,    \* [Procs -> thread whose semaphore is to be posted]
    sem,     \* [Procs -> count of the semaphore]
    extra,   \* [Procs -> extraWaits]
    foreign  \* [Procs -> posts by other parts of the server]

wordVars == <<ex, shared, hasW, relOk>>
callVars == <<call, mode, old, hold>>
waitVars == <<queue, waiting, wmode, wake, post>>
semVars  == <<sem, extra, foreign>>
vars == <<wordVars, pc, callVars, waitVars, semVars>>

SeqRange(s) == {s[i] : i \in DOMAIN s}

\* (state & LW_LOCK_MASK) == 0
Free == ex = {} /\ \A b \in Bytes : shared[b] = 0

Init ==
    /\ ex = {} /\ shared = [b \in Bytes |-> 0]
    /\ hasW = FALSE /\ relOk = TRUE /\ queue = <<>>
    /\ pc = [p \in Procs |-> "idle"]
    /\ call = [p \in Procs |-> "none"]
    /\ mode = [p \in Procs |-> "none"]
    /\ old = [p \in Procs |-> 0]
    /\ hold = [p \in Procs |-> "none"]
    /\ waiting = [p \in Procs |-> FALSE]
    /\ wmode = [p \in Procs |-> "none"]
    /\ wake = [p \in Procs |-> <<>>]
    /\ post = [p \in Procs |-> NoProc]
    /\ sem = [p \in Procs |-> 0]
    /\ extra = [p \in Procs |-> 0]
    /\ foreign = [p \in Procs |-> 0]

-----------------------------------------------------------------------------
(* Calling and returning. *)

\* LWLockAcquireOrWait is only ever called for the exclusive mode.
Start(p) ==
    /\ pc[p] = "idle"
    /\ \E c \in Calls, m \in {"SH", "EX"} :
        /\ c = "orwait" => m = "EX"
        /\ call' = [call EXCEPT ![p] = c]
        /\ mode' = [mode EXCEPT ![p] = m]
    /\ pc' = [pc EXCEPT ![p] = "try1"]
    /\ UNCHANGED <<wordVars, old, hold, waitVars, semVars>>

\* The end of every call: absorbed wake-ups go back to the semaphore.  What the call
\* has used is cleared.
Return(p, to) ==
    /\ pc' = [pc EXCEPT ![p] = to]
    /\ sem' = [sem EXCEPT ![p] = @ + extra[p]]
    /\ extra' = [extra EXCEPT ![p] = 0]
    /\ call' = [call EXCEPT ![p] = "none"]
    /\ mode' = [mode EXCEPT ![p] = "none"]
    /\ UNCHANGED foreign

-----------------------------------------------------------------------------
(* LWLockAttemptLock. *)

\* Mutant: the exclusive bit is in one byte only.
ExclusiveBitsOne == {CHOOSE b \in Bytes : TRUE}

\* LW_VAL_EXCLUSIVE
ExclusiveBits == Bytes

\* The lock is had: at once, or with the thread still in the queue.
Got(p, try) ==
    /\ old' = [old EXCEPT ![p] = 0]
    /\ hold' = [hold EXCEPT ![p] = mode[p]]
    /\ IF try = 1
       THEN Return(p, "held")
       ELSE /\ pc' = [pc EXCEPT ![p] = "undo"]
            /\ UNCHANGED <<call, mode, semVars>>

\* mustwait: queue after the first attempt, sleep after the second.
\* LWLockConditionalAcquire gives up.
MustWait(p, try) ==
    /\ old' = [old EXCEPT ![p] = 0]
    /\ UNCHANGED hold
    /\ IF try = 1 /\ call[p] = "cond"
       THEN Return(p, "idle")
       ELSE /\ pc' = [pc EXCEPT ![p] = IF try = 1 THEN "queue" ELSE "sleep"]
            /\ UNCHANGED <<call, mode, semVars>>

AttemptExclusive(p, try) ==
    /\ mode[p] = "EX"
    /\ IF Free THEN ex' = ExclusiveBits /\ Got(p, try) ELSE UNCHANGED ex /\ MustWait(p, try)
    /\ UNCHANGED <<shared, hasW, relOk, waitVars>>

\* Mutant: the count may grow into the exclusive bit.
SharedOkUncapped(p, bytes) == ex \cap bytes = {}

\* No exclusive bit in the given bytes, and room in the thread's own.
SharedOk(p, bytes) == ex \cap bytes = {} /\ shared[ByteOf[p]] < ByteCap

\* The whole word is read.
AttemptShared(p, try) ==
    /\ mode[p] = "SH"
    /\ IF SharedOk(p, Bytes)
       THEN /\ old' = [old EXCEPT ![p] = shared[ByteOf[p]]]
            /\ pc' = [pc EXCEPT ![p] = IF try = 1 THEN "cas1" ELSE "cas2"]
            /\ UNCHANGED <<call, mode, hold, semVars>>
       ELSE MustWait(p, try)
    /\ UNCHANGED <<wordVars, waitVars>>

Attempt(p) ==
    \/ pc[p] = "try1" /\ (AttemptExclusive(p, 1) \/ AttemptShared(p, 1))
    \/ pc[p] = "try2" /\ (AttemptExclusive(p, 2) \/ AttemptShared(p, 2))

\* The compare and swap of one byte; when it fails only that byte is read again.
CompareAndSwap(p, try) ==
    LET b == ByteOf[p]
    IN /\ IF b \notin ex /\ shared[b] = old[p]
          THEN shared' = [shared EXCEPT ![b] = @ + 1] /\ Got(p, try)
          ELSE /\ UNCHANGED shared
               /\ IF SharedOk(p, {b})
                  THEN /\ old' = [old EXCEPT ![p] = shared[b]]
                       /\ UNCHANGED <<pc, call, mode, hold, semVars>>
                  ELSE MustWait(p, try)
       /\ UNCHANGED <<ex, hasW, relOk, waitVars>>

SwapByte(p) ==
    \/ pc[p] = "cas1" /\ CompareAndSwap(p, 1)
    \/ pc[p] = "cas2" /\ CompareAndSwap(p, 2)

-----------------------------------------------------------------------------
(* The wait list. *)

\* The entries of a list at the given places, in their order.
Sublist(s, I) ==
    [k \in 1..Cardinality(I) |-> s[CHOOSE i \in I : Cardinality(I \cap 1..i) = k]]

\* Those of the list who are in S.
Waiters(S) == Sublist(queue, {i \in DOMAIN queue : queue[i] \in S})

Queued(p, m) == IF m = "FREE" THEN <<p>> \o queue ELSE Append(queue, p)

LWLockQueueSelf(p) ==
    /\ pc[p] = "queue"
    /\ hasW' = TRUE
    /\ waiting' = [waiting EXCEPT ![p] = TRUE]
    /\ LET m == IF call[p] = "orwait" THEN "FREE" ELSE mode[p]
       IN wmode' = [wmode EXCEPT ![p] = m] /\ queue' = Queued(p, m)
    /\ pc' = [pc EXCEPT ![p] = "try2"]
    /\ UNCHANGED <<ex, shared, relOk, callVars, wake, post, semVars>>

\* Mutant: the flag is cleared although others wait.
WaitersLeftNone(q) == FALSE

WaitersLeft(q) == hasW /\ q # <<>>

\* lwWaitMode means nothing for a thread that is in no list.
Unlinked(p) ==
    /\ waiting' = [waiting EXCEPT ![p] = FALSE]
    /\ wmode' = [wmode EXCEPT ![p] = "none"]

\* LWLockDequeueSelf: still in the list, or somebody has taken it out and will post.
LWLockDequeueSelf(p) ==
    /\ pc[p] = "undo"
    /\ LET rest == Waiters(Procs \ {p})
       IN queue' = rest /\ hasW' = WaitersLeft(rest)
    /\ IF p \in SeqRange(queue)
       THEN /\ Unlinked(p)
            /\ pc' = [pc EXCEPT ![p] = "undone"]
       ELSE /\ pc' = [pc EXCEPT ![p] = "undoOk"]
            /\ UNCHANGED <<waiting, wmode>>
    /\ UNCHANGED <<ex, shared, relOk, callVars, wake, post, semVars>>

\* Allows LWLockRelease to wake again.
SetReleaseOk(p, from, to) ==
    /\ pc[p] = from
    /\ relOk' = TRUE
    /\ pc' = [pc EXCEPT ![p] = to]
    /\ UNCHANGED <<ex, shared, hasW, callVars, waitVars, semVars>>

UndoReleaseOk(p) == SetReleaseOk(p, "undoOk", "absorb")
Retry(p) == SetReleaseOk(p, "woken", "try1")

\* PGSemaphoreLock.  A thread that is still waiting absorbs the wake-up.
AwaitPost(p, to) ==
    /\ sem[p] > 0
    /\ sem' = [sem EXCEPT ![p] = @ - 1]
    /\ IF waiting[p]
       THEN extra' = [extra EXCEPT ![p] = @ + 1] /\ UNCHANGED pc
       ELSE pc' = [pc EXCEPT ![p] = to] /\ UNCHANGED extra
    /\ UNCHANGED <<wordVars, callVars, waitVars, foreign>>

\* Mutant: a thread that got the lock does not wait for the post that is on its way.
AbsorbNot(p) ==
    /\ pc[p] = "absorb"
    /\ pc' = [pc EXCEPT ![p] = "undone"]
    /\ UNCHANGED <<wordVars, callVars, waitVars, semVars>>

\* The end of LWLockDequeueSelf, with a wake-up still to come.
Absorb(p) == pc[p] = "absorb" /\ AwaitPost(p, "undone")

\* The thread got the lock on the second attempt.
FinishUndo(p) ==
    /\ pc[p] = "undone" /\ hold[p] # "none"
    /\ Return(p, "held")
    /\ UNCHANGED <<wordVars, old, hold, waitVars>>

Sleep(p) == pc[p] = "sleep" /\ AwaitPost(p, IF call[p] = "orwait" THEN "free" ELSE "woken")

\* LWLockAcquireOrWait returns without the lock.
WasFreed(p) ==
    /\ pc[p] = "free"
    /\ Return(p, "idle")
    /\ UNCHANGED <<wordVars, old, hold, waitVars>>

-----------------------------------------------------------------------------
(* Releasing and waking. *)

\* check_waiters, of the word as the release leaves it.
ShouldWake(free) == hasW /\ relOk /\ free

\* Mutant: the count is taken from the first byte.
ReleasedByteFirst(p) == CHOOSE b \in Bytes : TRUE

\* LOCK_REFCOUNT_ONE_BY_THREADID
ReleasedByte(p) == ByteOf[p]

LWLockRelease(p) ==
    /\ pc[p] = "held"
    /\ IF hold[p] = "EX"
       THEN ex' = {} /\ UNCHANGED shared
       ELSE shared' = [shared EXCEPT ![ReleasedByte(p)] = @ - 1] /\ UNCHANGED ex
    /\ pc' = [pc EXCEPT ![p] = IF ShouldWake(Free') THEN "wake" ELSE "idle"]
    /\ hold' = [hold EXCEPT ![p] = "none"]
    /\ UNCHANGED <<hasW, relOk, call, mode, old, waitVars, semVars>>

\* LWLockDowngrade: first the shared count, then the exclusive bits.
DowngradeAdd(p) ==
    /\ pc[p] = "held" /\ hold[p] = "EX"
    /\ shared' = [shared EXCEPT ![ByteOf[p]] = @ + 1]
    /\ pc' = [pc EXCEPT ![p] = "downgrade"]
    /\ UNCHANGED <<ex, hasW, relOk, callVars, waitVars, semVars>>

DowngradeSub(p) ==
    /\ pc[p] = "downgrade"
    /\ ex' = {}
    /\ hold' = [hold EXCEPT ![p] = "SH"]
    /\ pc' = [pc EXCEPT ![p] = IF ShouldWake(TRUE) THEN "wake" ELSE "held"]
    /\ UNCHANGED <<shared, hasW, relOk, call, mode, old, waitVars, semVars>>

\* The first waiter that wants the lock.
FirstLocker ==
    LET lockers == {i \in DOMAIN queue : wmode[queue[i]] # "FREE"}
    IN IF lockers = {} THEN 0 ELSE Min(lockers)

\* Those who only wait for the lock to be free, and the first locker: alone if it is
\* exclusive, else with all other shared ones.
Woken ==
    IF FirstLocker # 0 /\ wmode[queue[FirstLocker]] = "EX"
    THEN {queue[i] : i \in 1..FirstLocker}
    ELSE {q \in SeqRange(queue) : wmode[q] # "EX"}

\* Mutant: the release flag is not set again when nobody will retry.
ReleaseOkAfterNever(W) == FALSE

\* new_release_ok: no more wake-ups until a locker has retried.
ReleaseOkAfter(W) == \A q \in W : wmode[q] = "FREE"

LWLockWakeup(p) ==
    /\ pc[p] = "wake"
    /\ wake' = [wake EXCEPT ![p] = Waiters(Woken)]
    /\ queue' = Waiters(Procs \ Woken)
    /\ relOk' = ReleaseOkAfter(Woken)
    /\ hasW' = (hasW /\ Woken # {})
    /\ pc' = [pc EXCEPT ![p] = "unlink"]
    /\ UNCHANGED <<ex, shared, callVars, waiting, wmode, post, semVars>>

\* The loop at the end of LWLockWakeup: unlink and lwWaiting, then the semaphore.
Unlink(p) ==
    /\ pc[p] = "unlink" /\ wake[p] # <<>>
    /\ Unlinked(Head(wake[p]))
    /\ post' = [post EXCEPT ![p] = Head(wake[p])]
    /\ wake' = [wake EXCEPT ![p] = Tail(@)]
    /\ pc' = [pc EXCEPT ![p] = "post"]
    /\ UNCHANGED <<wordVars, callVars, queue, semVars>>

Post(p) ==
    /\ pc[p] = "post"
    /\ sem' = [sem EXCEPT ![post[p]] = @ + 1]
    /\ post' = [post EXCEPT ![p] = NoProc]
    /\ pc' = [pc EXCEPT ![p] = "unlink"]
    /\ UNCHANGED <<wordVars, callVars, queue, waiting, wmode, wake, extra, foreign>>

WakeupDone(p) ==
    /\ pc[p] = "unlink" /\ wake[p] = <<>>
    /\ pc' = [pc EXCEPT ![p] = IF hold[p] = "none" THEN "idle" ELSE "held"]
    /\ UNCHANGED <<wordVars, callVars, waitVars, semVars>>

-----------------------------------------------------------------------------
\* Another part of the server posts the semaphore of the thread.  The count is only looked
\* at where the thread waits on it, so an earlier post is the same as one at that point.
ForeignPost(p) ==
    /\ pc[p] \in {"sleep", "absorb"}
    /\ foreign[p] < MaxForeign[p]
    /\ foreign' = [foreign EXCEPT ![p] = @ + 1]
    /\ sem' = [sem EXCEPT ![p] = @ + 1]
    /\ UNCHANGED <<wordVars, pc, callVars, waitVars, extra>>

Advance(p) ==
    \/ Attempt(p) \/ SwapByte(p)
    \/ LWLockQueueSelf(p) \/ LWLockDequeueSelf(p) \/ UndoReleaseOk(p) \/ Absorb(p)
    \/ FinishUndo(p) \/ Sleep(p) \/ Retry(p) \/ WasFreed(p)
    \/ LWLockRelease(p) \/ DowngradeSub(p)
    \/ LWLockWakeup(p) \/ Unlink(p) \/ Post(p) \/ WakeupDone(p)

Next == \E p \in Procs : Start(p) \/ DowngradeAdd(p) \/ Advance(p) \/ ForeignPost(p)

Spec == Init /\ [][Next]_vars

\* Threads run, and a holder releases the lock; nobody has to ask for it.
FairSpec == Spec /\ \A p \in Procs : WF_vars(Advance(p))

-----------------------------------------------------------------------------
(* Properties. *)

PC == {"idle", "try1", "cas1", "queue", "try2", "cas2", "undo", "undoOk", "absorb", "undone",
       "sleep", "woken", "free", "held", "downgrade", "wake", "unlink", "post"}
Modes == {"SH", "EX", "none"}

\* The types of the variables; no count of a byte and no semaphore falls below zero, where
\* LWLockRelease would borrow from the bits beside it.
TypeOK ==
    /\ ex \subseteq Bytes /\ shared \in [Bytes -> Nat]
    /\ hasW \in BOOLEAN /\ relOk \in BOOLEAN
    /\ queue \in Seq(Procs)
    /\ pc \in [Procs -> PC]
    /\ call \in [Procs -> CallKinds \cup {"none"}] /\ mode \in [Procs -> Modes]
    /\ old \in [Procs -> Nat] /\ hold \in [Procs -> Modes]
    /\ waiting \in [Procs -> BOOLEAN] /\ wmode \in [Procs -> Modes \cup {"FREE"}]
    /\ wake \in [Procs -> Seq(Procs)] /\ post \in [Procs -> Procs \cup {NoProc}]
    /\ sem \in [Procs -> Nat] /\ extra \in [Procs -> Nat] /\ foreign \in [Procs -> Nat]

\* A thread that holds the lock exclusively is alone, although shared lockers look at
\* the whole word once and then swap a single byte.
MutualExclusion ==
    \A p, q \in Procs : p # q /\ hold[p] = "EX" => hold[q] = "none"

\* The shared holders that hash to the byte, a thread that is downgrading among them.
Holders(b) == {p \in Procs : ByteOf[p] = b /\ (hold[p] = "SH" \/ pc[p] = "downgrade")}

\* Each count is the number of shared holders of its byte and never reaches the exclusive
\* bit: what LWLockAttemptLock adds to a byte, alone or in LWLockDowngrade, LWLockRelease
\* takes from the same byte.
CountsExact ==
    \A b \in Bytes : shared[b] = Cardinality(Holders(b)) /\ shared[b] <= ByteCap

\* A thread is linked into one list at most, once, and only while lwWaiting says so:
\* LWLockQueueSelf never meets its PANIC, and no list is corrupted by a thread that
\* queues again while a waker still has it in its own list.  Waiters in the list are
\* announced in the word, or LWLockRelease would not look for them.
WaitListSound ==
    /\ queue # <<>> => hasW
    /\ \A i, j \in DOMAIN queue : queue[i] = queue[j] => i = j
    /\ \A p \in Procs :
        LET lists == {q \in Procs : p \in SeqRange(wake[q])}
            linked == (IF p \in SeqRange(queue) THEN 1 ELSE 0) + Cardinality(lists)
        IN linked = IF waiting[p] THEN 1 ELSE 0
    /\ \A p \in Procs : pc[p] = "queue" => ~waiting[p]

\* Outside a call the semaphore holds exactly what other parts of the server have posted:
\* no wake-up of theirs is lost, none of the lock's is left over (extraWaits).
SemaphoreBalanced ==
    \A p \in Procs : pc[p] \in {"idle", "held"} =>
        sem[p] + Cardinality({q \in Procs : post[q] = p}) = foreign[p]

Asleep(p) == pc[p] = "sleep" /\ waiting[p]

\* A thread sleeps for ever only if the lock is, from some time on, never free.
WokenIfFree == \A p \in Procs : []<>Free => [](Asleep(p) => <>~Asleep(p))
=============================================================================
