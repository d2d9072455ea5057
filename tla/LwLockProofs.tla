---------------------------- MODULE LwLockProofs ----------------------------
(***************************************************************************)
(* Proofs about LwLock, for any number of threads, bytes and any bound of  *)
(* a count: mutual exclusion and exact counts (WordInv), sound wait lists  *)
(* (ListInv), balanced semaphores (SemInv).                                *)
(*                                                                         *)
(* An exclusive locker compares the whole word with zero, so exclusion     *)
(* rests on the counts being exact: a count of zero must mean that no      *)
(* holder hashes to the byte.  A shared locker looks at its own byte only, *)
(* so it rests on the exclusive bit being in every byte.  Both need to     *)
(* know which steps a thread without the lock may be at.                   *)
(***************************************************************************)
EXTENDS LwLock, FiniteSetTheorems, WellFoundedInduction, TLAPS

WithoutLock == {"idle", "try1", "cas1", "queue", "try2", "cas2", "sleep", "woken", "free"}
WithLock == {"undo", "undoOk", "absorb", "undone", "held"}

StageOf(p) ==
    /\ pc[p] \in WithoutLock => hold[p] = "none"
    /\ pc[p] \in WithLock => hold[p] \in {"SH", "EX"}
    /\ pc[p] = "downgrade" => hold[p] = "EX"
    /\ pc[p] \in {"cas1", "cas2"} => mode[p] = "SH" /\ old[p] < ByteCap

WordTypes ==
    /\ shared \in [Bytes -> Nat]
    /\ pc \in [Procs -> PC]
    /\ hold \in [Procs -> Modes]
    /\ mode \in [Procs -> Modes]
    /\ old \in [Procs -> Nat]

\* The exclusive bits are all set or all clear.
ExclusiveWord == ex = IF \E p \in Procs : hold[p] = "EX" THEN Bytes ELSE {}

WordInv ==
    /\ WordTypes
    /\ \A p \in Procs : StageOf(p)
    /\ ExclusiveWord
    /\ MutualExclusion
    /\ CountsExact

-----------------------------------------------------------------------------
\* The holders of a byte are finitely many.
LEMMA HoldersFinite ==
    ASSUME NEW b
    PROVE  IsFiniteSet(Holders(b)) /\ Cardinality(Holders(b)) \in Nat
<1>1. Holders(b) \subseteq Procs
    BY DEF Holders
<1>2. IsFiniteSet(Holders(b))
    BY <1>1, LwLockAssumption, FS_Subset
<1> QED
    BY <1>2, FS_CardinalityType

\* A step of p that leaves the word and the holders alone keeps the invariant.
LEMMA Quiet ==
    ASSUME WordInv, NEW p \in Procs,
           ex' = ex, shared' = shared, hold' = hold, WordTypes',
           \A q \in Procs \ {p} : pc'[q] = pc[q] /\ mode'[q] = mode[q] /\ old'[q] = old[q],
           pc[p] # "downgrade", pc'[p] # "downgrade", StageOf(p)'
    PROVE  WordInv'
<1>1. \A q \in Procs : StageOf(q)'
    BY DEF WordInv, StageOf
<1>2. \A b \in Bytes : Holders(b)' = Holders(b)
    BY DEF Holders
<1>3. CountsExact'
    BY <1>2 DEF WordInv, CountsExact
<1>4. ExclusiveWord' /\ MutualExclusion'
    BY DEF WordInv, ExclusiveWord, MutualExclusion
<1> QED
    BY <1>1, <1>3, <1>4 DEF WordInv

\* A step of p that makes it a holder of one byte more adds one to the count.
LEMMA OneMore ==
    ASSUME CountsExact, NEW p \in Procs, shared \in [Bytes -> Nat],
           shared' = [shared EXCEPT ![ByteOf[p]] = @ + 1],
           shared[ByteOf[p]] < ByteCap,
           p \notin Holders(ByteOf[p]),
           Holders(ByteOf[p])' = Holders(ByteOf[p]) \cup {p},
           \A b \in Bytes \ {ByteOf[p]} : Holders(b)' = Holders(b)
    PROVE  CountsExact'
<1>1. ByteOf[p] \in Bytes /\ ByteCap \in Nat
    BY LwLockAssumption
<1>2. Cardinality(Holders(ByteOf[p]) \cup {p}) = Cardinality(Holders(ByteOf[p])) + 1
    BY HoldersFinite, FS_AddElement
<1>3. shared'[ByteOf[p]] = Cardinality(Holders(ByteOf[p]))' /\ shared'[ByteOf[p]] <= ByteCap
    BY <1>1, <1>2 DEF CountsExact
<1>4. ASSUME NEW b \in Bytes, b # ByteOf[p]
      PROVE  shared'[b] = Cardinality(Holders(b))' /\ shared'[b] <= ByteCap
    BY <1>1, <1>4 DEF CountsExact
<1> QED
    BY <1>3, <1>4 DEF CountsExact

\* A step of p that ends its hold of a byte takes one from the count.
LEMMA OneLess ==
    ASSUME CountsExact, NEW p \in Procs, shared \in [Bytes -> Nat],
           shared' = [shared EXCEPT ![ByteOf[p]] = @ - 1],
           p \in Holders(ByteOf[p]),
           Holders(ByteOf[p])' = Holders(ByteOf[p]) \ {p},
           \A b \in Bytes \ {ByteOf[p]} : Holders(b)' = Holders(b)
    PROVE  CountsExact' /\ shared' \in [Bytes -> Nat]
<1>1. ByteOf[p] \in Bytes /\ ByteCap \in Nat
    BY LwLockAssumption
<1>2. /\ Cardinality(Holders(ByteOf[p]) \ {p}) = Cardinality(Holders(ByteOf[p])) - 1
      /\ Cardinality(Holders(ByteOf[p]) \ {p}) \in Nat
    BY HoldersFinite, FS_RemoveElement, FS_CardinalityType
<1>3. /\ shared'[ByteOf[p]] = Cardinality(Holders(ByteOf[p]))'
      /\ shared'[ByteOf[p]] <= ByteCap
      /\ shared'[ByteOf[p]] \in Nat
    BY <1>1, <1>2 DEF CountsExact
<1>4. ASSUME NEW b \in Bytes, b # ByteOf[p]
      PROVE  shared'[b] = Cardinality(Holders(b))' /\ shared'[b] <= ByteCap /\ shared'[b] \in Nat
    BY <1>1, <1>4 DEF CountsExact
<1> QED
    BY <1>3, <1>4 DEF CountsExact

-----------------------------------------------------------------------------
\* What every quiet step has in common: the word, the holders and the modes stay, p alone
\* moves, and it moves to a step that fits what it holds.
LEMMA QuietMove ==
    ASSUME WordInv, NEW p \in Procs, NEW to \in PC \ {"downgrade"},
           ex' = ex, shared' = shared, hold' = hold,
           pc' = [pc EXCEPT ![p] = to],
           mode' = mode \/ \E m \in Modes : mode' = [mode EXCEPT ![p] = m],
           old' = old \/ \E v \in Nat : old' = [old EXCEPT ![p] = v],
           pc[p] # "downgrade",
           to \in WithoutLock => hold[p] = "none",
           to \in WithLock => hold[p] \in {"SH", "EX"},
           to \in {"cas1", "cas2"} => mode'[p] = "SH" /\ old'[p] < ByteCap
    PROVE  WordInv'
<1>1. WordTypes'
    BY DEF WordInv, WordTypes
<1>2. pc'[p] = to
    BY DEF WordInv, WordTypes
<1>3. StageOf(p)'
    BY <1>2 DEF StageOf
<1>4. \A q \in Procs \ {p} : pc'[q] = pc[q] /\ mode'[q] = mode[q] /\ old'[q] = old[q]
    BY DEF WordInv, WordTypes
<1> QED
    BY <1>1, <1>2, <1>3, <1>4, Quiet

\* A step that changes nothing the invariant is about.
LEMMA QuietStay ==
    ASSUME WordInv, UNCHANGED <<ex, shared, hold, pc, mode, old>>
    PROVE  WordInv'
BY DEF WordInv, WordTypes, StageOf, ExclusiveWord, MutualExclusion, CountsExact, Holders

\* An exclusive locker found the whole word without holders: nobody holds the lock.
LEMMA ExclusiveTaken ==
    ASSUME WordInv, NEW p \in Procs, NEW to \in WithLock,
           Free, ex' = Bytes, shared' = shared,
           hold' = [hold EXCEPT ![p] = "EX"],
           pc' = [pc EXCEPT ![p] = to],
           mode' = mode \/ mode' = [mode EXCEPT ![p] = "none"],
           old' = [old EXCEPT ![p] = 0],
           pc[p] # "downgrade"
    PROVE  WordInv'
<1>1. \A b \in Bytes : Holders(b) = {}
    <2>1. ASSUME NEW b \in Bytes PROVE Holders(b) = {}
        <3>1. Cardinality(Holders(b)) = 0
            BY DEF WordInv, CountsExact, Free
        <3> QED
            BY <3>1, HoldersFinite, FS_EmptySet
    <2> QED
        BY <2>1
<1>2. \A q \in Procs : ByteOf[q] \in Bytes
    BY LwLockAssumption
<1>3. \A q \in Procs : hold[q] # "EX"
    BY <1>2 DEF WordInv, ExclusiveWord, Free
<1>4. \A q \in Procs : hold[q] = "none"
    BY <1>1, <1>2, <1>3 DEF WordInv, WordTypes, Modes, Holders
<1>5. WordTypes'
    BY DEF WordInv, WordTypes, WithLock, PC, Modes
<1>6. \A q \in Procs : StageOf(q)'
    BY DEF WordInv, WordTypes, StageOf, WithLock, WithoutLock
<1>7. ExclusiveWord' /\ MutualExclusion'
    BY <1>4 DEF WordInv, WordTypes, ExclusiveWord, MutualExclusion
<1>8. \A b \in Bytes : Holders(b)' = Holders(b)
    BY <1>4 DEF WordInv, WordTypes, Holders, WithLock
<1>9. CountsExact'
    BY <1>8 DEF WordInv, CountsExact
<1> QED
    BY <1>5, <1>6, <1>7, <1>9 DEF WordInv

\* A shared locker found its own byte without the exclusive bit and with room: nobody holds
\* the lock exclusively.
LEMMA SharedTaken ==
    ASSUME WordInv, NEW p \in Procs, NEW to \in WithLock,
           ByteOf[p] \notin ex, shared[ByteOf[p]] < ByteCap, ex' = ex,
           shared' = [shared EXCEPT ![ByteOf[p]] = @ + 1],
           hold[p] = "none",
           hold' = [hold EXCEPT ![p] = "SH"],
           pc' = [pc EXCEPT ![p] = to],
           mode' = mode \/ mode' = [mode EXCEPT ![p] = "none"],
           old' = [old EXCEPT ![p] = 0],
           pc[p] # "downgrade"
    PROVE  WordInv'
<1>1. \A q \in Procs : ByteOf[q] \in Bytes
    BY LwLockAssumption
<1>2. \A q \in Procs : hold[q] # "EX"
    BY <1>1 DEF WordInv, ExclusiveWord
<1>3. WordTypes'
    BY <1>1 DEF WordInv, WordTypes, WithLock, PC, Modes
<1>4. \A q \in Procs : StageOf(q)'
    BY DEF WordInv, WordTypes, StageOf, WithLock, WithoutLock
<1>5. ExclusiveWord' /\ MutualExclusion'
    BY <1>2 DEF WordInv, WordTypes, ExclusiveWord, MutualExclusion
<1>6. p \notin Holders(ByteOf[p]) /\ Holders(ByteOf[p])' = Holders(ByteOf[p]) \cup {p}
    BY DEF WordInv, WordTypes, Holders, WithLock
<1>7. \A b \in Bytes \ {ByteOf[p]} : Holders(b)' = Holders(b)
    BY DEF WordInv, WordTypes, Holders, WithLock
<1>8. CountsExact'
    BY <1>6, <1>7, OneMore DEF WordInv, WordTypes
<1> QED
    BY <1>3, <1>4, <1>5, <1>8 DEF WordInv

-----------------------------------------------------------------------------
(* The steps of a thread. *)

\* A thread that asks for the lock holds nothing and has changed nothing of the word.
LEMMA StartStep ==
    ASSUME WordInv, NEW p \in Procs, Start(p)
    PROVE  WordInv'
<1>1. hold[p] = "none"
    BY DEF Start, WordInv, StageOf, WithoutLock
<1> QED
    BY <1>1, QuietMove DEF Start, PC, Modes, WithoutLock, WithLock, wordVars

\* A failed attempt leaves the word alone.
LEMMA MustWaitStep ==
    ASSUME WordInv, NEW p \in Procs, NEW try \in {1, 2},
           pc[p] \in {"try1", "try2", "cas1", "cas2"},
           ex' = ex, shared' = shared, MustWait(p, try)
    PROVE  WordInv'
<1>1. hold[p] = "none"
    BY DEF WordInv, StageOf, WithoutLock
<1>2. /\ hold' = hold /\ old' = [old EXCEPT ![p] = 0]
      /\ \E to \in {"idle", "queue", "sleep"} : pc' = [pc EXCEPT ![p] = to]
      /\ mode' = mode \/ mode' = [mode EXCEPT ![p] = "none"]
    BY DEF MustWait, Return
<1> QED
    BY <1>1, <1>2, QuietMove DEF PC, Modes, WithoutLock, WithLock

\* What a successful attempt does besides changing the word.
LEMMA GotStep ==
    ASSUME NEW p \in Procs, NEW try \in {1, 2}, Got(p, try)
    PROVE  /\ hold' = [hold EXCEPT ![p] = mode[p]] /\ old' = [old EXCEPT ![p] = 0]
           /\ \E to \in WithLock : pc' = [pc EXCEPT ![p] = to]
           /\ mode' = mode \/ mode' = [mode EXCEPT ![p] = "none"]
BY DEF Got, Return, WithLock

\* An attempt takes the whole word (exclusive), reads a byte (shared), or must wait.
LEMMA AttemptStep ==
    ASSUME WordInv, NEW p \in Procs, Attempt(p)
    PROVE  WordInv'
<1>1. pc[p] \in {"try1", "try2"} /\ pc[p] # "downgrade" /\ hold[p] = "none"
    BY DEF Attempt, WordInv, StageOf, WithoutLock
<1>2. PICK try \in {1, 2} : AttemptExclusive(p, try) \/ AttemptShared(p, try)
    BY DEF Attempt
<1>3. CASE AttemptExclusive(p, try) /\ Free
    <2>1. ex' = Bytes /\ shared' = shared /\ mode[p] = "EX" /\ Got(p, try)
        BY <1>3 DEF AttemptExclusive, ExclusiveBits
    <2> QED
        BY <1>1, <1>3, <2>1, GotStep, ExclusiveTaken
<1>4. CASE AttemptExclusive(p, try) /\ ~Free
    BY <1>1, <1>4, MustWaitStep DEF AttemptExclusive
<1>5. CASE AttemptShared(p, try) /\ SharedOk(p, Bytes)
    <2>1. /\ ex' = ex /\ shared' = shared /\ hold' = hold /\ mode' = mode /\ mode[p] = "SH"
          /\ old' = [old EXCEPT ![p] = shared[ByteOf[p]]]
          /\ \E to \in {"cas1", "cas2"} : pc' = [pc EXCEPT ![p] = to]
        BY <1>5 DEF AttemptShared, wordVars
    <2>2. shared[ByteOf[p]] \in Nat /\ shared[ByteOf[p]] < ByteCap /\ old'[p] = shared[ByteOf[p]]
        BY <1>5, <2>1, LwLockAssumption DEF SharedOk, WordInv, WordTypes
    <2> QED
        BY <1>1, <2>1, <2>2, QuietMove DEF PC, WithoutLock, WithLock
<1>6. CASE AttemptShared(p, try) /\ ~SharedOk(p, Bytes)
    BY <1>1, <1>6, MustWaitStep DEF AttemptShared, wordVars
<1> QED
    BY <1>2, <1>3, <1>4, <1>5, <1>6

\* The compare-and-swap of a byte counts a shared holder in, or finds the byte changed.
LEMMA SwapByteStep ==
    ASSUME WordInv, NEW p \in Procs, SwapByte(p)
    PROVE  WordInv'
<1>1. pc[p] \in {"cas1", "cas2"} /\ pc[p] # "downgrade" /\ hold[p] = "none"
      /\ mode[p] = "SH" /\ old[p] < ByteCap
    BY DEF SwapByte, WordInv, StageOf, WithoutLock
<1>2. PICK try \in {1, 2} : CompareAndSwap(p, try)
    BY DEF SwapByte
<1>3. CASE ByteOf[p] \notin ex /\ shared[ByteOf[p]] = old[p]
    <2>1. shared' = [shared EXCEPT ![ByteOf[p]] = @ + 1] /\ ex' = ex /\ Got(p, try)
        BY <1>2, <1>3 DEF CompareAndSwap
    <2> QED
        BY <1>1, <1>3, <2>1, GotStep, SharedTaken
<1>4. CASE ~(ByteOf[p] \notin ex /\ shared[ByteOf[p]] = old[p]) /\ SharedOk(p, {ByteOf[p]})
    <2>1. /\ UNCHANGED <<ex, shared, hold, pc, mode>>
          /\ old' = [old EXCEPT ![p] = shared[ByteOf[p]]]
        BY <1>2, <1>4 DEF CompareAndSwap
    <2>2. shared[ByteOf[p]] \in Nat /\ shared[ByteOf[p]] < ByteCap
        BY <1>4, LwLockAssumption DEF SharedOk, WordInv, WordTypes
    <2>3. old'[p] < ByteCap /\ pc' = [pc EXCEPT ![p] = pc[p]]
        BY <2>1, <2>2 DEF WordInv, WordTypes
    <2> QED
        BY <1>1, <2>1, <2>2, <2>3, QuietMove DEF PC, WithoutLock, WithLock
<1>5. CASE ~(ByteOf[p] \notin ex /\ shared[ByteOf[p]] = old[p]) /\ ~SharedOk(p, {ByteOf[p]})
    BY <1>1, <1>2, <1>5, MustWaitStep DEF CompareAndSwap
<1> QED
    BY <1>3, <1>4, <1>5

\* Waiting on the semaphore.
LEMMA AwaitPostStep ==
    ASSUME WordInv, NEW p \in Procs, NEW to \in PC \ {"downgrade", "cas1", "cas2"}, AwaitPost(p, to),
           pc[p] # "downgrade",
           to \in WithoutLock => hold[p] = "none",
           to \in WithLock => hold[p] \in {"SH", "EX"}
    PROVE  WordInv'
<1>1. CASE waiting[p]
    BY <1>1, QuietStay DEF AwaitPost, wordVars, callVars
<1>2. CASE ~waiting[p]
    BY <1>2, QuietMove DEF AwaitPost, wordVars, callVars
<1> QED
    BY <1>1, <1>2

\* The steps on the wait list before and after sleeping.
LEMMA QueueStep ==
    ASSUME WordInv, NEW p \in Procs,
           \/ LWLockQueueSelf(p) \/ LWLockDequeueSelf(p) \/ UndoReleaseOk(p) \/ Absorb(p)
           \/ FinishUndo(p) \/ Sleep(p) \/ Retry(p) \/ WasFreed(p)
    PROVE  WordInv'
<1>1. StageOf(p)
    BY DEF WordInv
<1> USE <1>1 DEF StageOf, PC, Modes, WithoutLock, WithLock, wordVars, callVars
<1>2. CASE LWLockQueueSelf(p)
    BY <1>2, QuietMove DEF LWLockQueueSelf
<1>3. CASE LWLockDequeueSelf(p)
    BY <1>3, QuietMove DEF LWLockDequeueSelf
<1>4. CASE UndoReleaseOk(p)
    BY <1>4, QuietMove DEF UndoReleaseOk, SetReleaseOk
<1>5. CASE Absorb(p)
    BY <1>5, AwaitPostStep DEF Absorb
<1>6. CASE FinishUndo(p)
    BY <1>6, QuietMove DEF FinishUndo, Return
<1>7. CASE Sleep(p)
    BY <1>7, AwaitPostStep DEF Sleep
<1>8. CASE Retry(p)
    BY <1>8, QuietMove DEF Retry, SetReleaseOk
<1>9. CASE WasFreed(p)
    BY <1>9, QuietMove DEF WasFreed, Return
<1> QED
    BY <1>2, <1>3, <1>4, <1>5, <1>6, <1>7, <1>8, <1>9

\* Waking others.
LEMMA WakeStep ==
    ASSUME WordInv, NEW p \in Procs, LWLockWakeup(p) \/ Unlink(p) \/ Post(p) \/ WakeupDone(p)
    PROVE  WordInv'
<1>1. hold[p] \in Modes
    BY DEF WordInv, WordTypes
<1> USE <1>1 DEF PC, Modes, WithoutLock, WithLock, wordVars, callVars
<1>2. CASE LWLockWakeup(p)
    BY <1>2, QuietMove DEF LWLockWakeup
<1>3. CASE Unlink(p)
    BY <1>3, QuietMove DEF Unlink
<1>4. CASE Post(p)
    BY <1>4, QuietMove DEF Post
<1>5. CASE WakeupDone(p)
    BY <1>5, QuietMove DEF WakeupDone
<1> QED
    BY <1>2, <1>3, <1>4, <1>5

\* Releasing an exclusive hold, or ending a downgrade, clears the bits; p was alone.
LEMMA ExclusiveGiven ==
    ASSUME WordInv, NEW p \in Procs, hold[p] = "EX", ex' = {}, shared' = shared,
           UNCHANGED <<mode, old>>,
           NEW to \in {"wake", "idle", "held"}, pc' = [pc EXCEPT ![p] = to],
           NEW m \in {"none", "SH"}, hold' = [hold EXCEPT ![p] = m],
           to = "idle" => m = "none",
           to = "held" => m = "SH",
           m = "SH" <=> pc[p] = "downgrade"
    PROVE  WordInv'
<1>1. \A q \in Procs : q # p => hold[q] = "none"
    BY DEF WordInv, MutualExclusion
<1>2. WordTypes'
    BY DEF WordInv, WordTypes, PC, Modes
<1>3. \A q \in Procs : StageOf(q)'
    BY DEF WordInv, WordTypes, StageOf, WithLock, WithoutLock
<1>4. \A q \in Procs : hold'[q] # "EX"
    BY <1>1 DEF WordInv, WordTypes
<1>5. ExclusiveWord' /\ MutualExclusion'
    BY <1>4 DEF ExclusiveWord, MutualExclusion
<1>6. \A b \in Bytes : Holders(b)' = Holders(b)
    BY DEF WordInv, WordTypes, Holders
<1>7. CountsExact'
    BY <1>6 DEF WordInv, CountsExact
<1> QED
    BY <1>2, <1>3, <1>5, <1>7 DEF WordInv

\* LWLockRelease takes out of the word what the caller had put in.
LEMMA ReleaseStep ==
    ASSUME WordInv, NEW p \in Procs, LWLockRelease(p)
    PROVE  WordInv'
<1>1. pc[p] = "held" /\ hold[p] \in {"SH", "EX"}
    BY DEF LWLockRelease, WordInv, StageOf, WithLock
<1>2. PICK to \in {"wake", "idle"} : pc' = [pc EXCEPT ![p] = to]
    BY DEF LWLockRelease
<1>3. hold' = [hold EXCEPT ![p] = "none"] /\ UNCHANGED <<mode, old>>
    BY DEF LWLockRelease
<1>4. CASE hold[p] = "EX"
    BY <1>1, <1>2, <1>3, <1>4, ExclusiveGiven DEF LWLockRelease
<1>5. CASE hold[p] = "SH"
    <2>1. shared' = [shared EXCEPT ![ByteOf[p]] = @ - 1] /\ ex' = ex
        BY <1>5 DEF LWLockRelease, ReleasedByte
    <2>2. p \in Holders(ByteOf[p]) /\ Holders(ByteOf[p])' = Holders(ByteOf[p]) \ {p}
        BY <1>1, <1>2, <1>3, <1>5 DEF WordInv, WordTypes, Holders
    <2>3. \A b \in Bytes \ {ByteOf[p]} : Holders(b)' = Holders(b)
        BY <1>2, <1>3 DEF WordInv, WordTypes, Holders
    <2>4. CountsExact' /\ shared' \in [Bytes -> Nat]
        BY <2>1, <2>2, <2>3, OneLess DEF WordInv, WordTypes
    <2>5. WordTypes'
        BY <1>2, <1>3, <2>4 DEF WordInv, WordTypes, PC, Modes
    <2>6. \A q \in Procs : StageOf(q)'
        BY <1>2, <1>3 DEF WordInv, WordTypes, StageOf, WithLock, WithoutLock
    <2>7. ExclusiveWord' /\ MutualExclusion'
        BY <1>3, <1>5, <2>1 DEF WordInv, WordTypes, ExclusiveWord, MutualExclusion
    <2> QED
        BY <2>4, <2>5, <2>6, <2>7 DEF WordInv
<1> QED
    BY <1>1, <1>4, <1>5

\* The first half of a downgrade counts the shared reference while still exclusive.
LEMMA DowngradeAddStep ==
    ASSUME WordInv, NEW p \in Procs, DowngradeAdd(p)
    PROVE  WordInv'
<1>1. /\ pc[p] = "held" /\ hold[p] = "EX" /\ UNCHANGED <<ex, hold, mode, old>>
      /\ shared' = [shared EXCEPT ![ByteOf[p]] = @ + 1]
      /\ pc' = [pc EXCEPT ![p] = "downgrade"]
    BY DEF DowngradeAdd, callVars
<1>2. ByteOf[p] \in Bytes /\ ByteCap \in Nat \ {0}
    BY LwLockAssumption
<1>3. Holders(ByteOf[p]) = {}
    BY <1>1 DEF WordInv, WordTypes, MutualExclusion, StageOf, Holders
<1>4. shared[ByteOf[p]] = 0 /\ shared[ByteOf[p]] < ByteCap
    <2>1. shared[ByteOf[p]] = 0
        BY <1>2, <1>3, FS_EmptySet DEF WordInv, CountsExact
    <2> QED
        BY <1>2, <2>1
<1>5. Holders(ByteOf[p])' = Holders(ByteOf[p]) \cup {p} /\ p \notin Holders(ByteOf[p])
    BY <1>1, <1>3 DEF WordInv, WordTypes, Holders
<1>6. \A b \in Bytes \ {ByteOf[p]} : Holders(b)' = Holders(b)
    BY <1>1 DEF WordInv, WordTypes, Holders
<1>7. CountsExact'
    BY <1>1, <1>2, <1>4, <1>5, <1>6, OneMore DEF WordInv, WordTypes
<1>8. WordTypes'
    BY <1>1, <1>2 DEF WordInv, WordTypes, PC
<1>9. \A q \in Procs : StageOf(q)'
    BY <1>1 DEF WordInv, WordTypes, StageOf, WithLock, WithoutLock
<1>10. ExclusiveWord' /\ MutualExclusion'
    BY <1>1 DEF WordInv, ExclusiveWord, MutualExclusion
<1> QED
    BY <1>7, <1>8, <1>9, <1>10 DEF WordInv

\* The second half of a downgrade drops the exclusive bits.
LEMMA DowngradeSubStep ==
    ASSUME WordInv, NEW p \in Procs, DowngradeSub(p)
    PROVE  WordInv'
<1>1. pc[p] = "downgrade" /\ hold[p] = "EX"
    BY DEF DowngradeSub, WordInv, StageOf
<1> QED
    BY <1>1, ExclusiveGiven DEF DowngradeSub

-----------------------------------------------------------------------------
\* A lock fresh from LWLockInitialize is free.
LEMMA WordInit == Init => WordInv
<1> SUFFICES ASSUME Init PROVE WordInv
    OBVIOUS
<1>1. \A b \in Bytes : Holders(b) = {}
    BY DEF Init, Holders
<1>2. ASSUME NEW b \in Bytes PROVE shared[b] = Cardinality(Holders(b)) /\ shared[b] <= ByteCap
    <2>1. shared[b] = 0 /\ 0 <= ByteCap
        BY LwLockAssumption DEF Init
    <2>2. Cardinality(Holders(b)) = 0
        BY <1>1, FS_EmptySet
    <2> QED
        BY <2>1, <2>2
<1>3. WordTypes /\ (\A p \in Procs : StageOf(p)) /\ ExclusiveWord /\ MutualExclusion
    BY DEF Init, WordTypes, StageOf, ExclusiveWord, MutualExclusion, PC, Modes, WithLock, WithoutLock
<1> QED
    BY <1>2, <1>3 DEF WordInv, CountsExact

\* Every step of every thread keeps the word invariant.
LEMMA WordStep == WordInv /\ [Next]_vars => WordInv'
<1> SUFFICES ASSUME WordInv, [Next]_vars PROVE WordInv'
    OBVIOUS
<1>1. CASE UNCHANGED vars
    BY <1>1, QuietStay DEF vars, wordVars, callVars
<1>2. ASSUME NEW p \in Procs, Start(p) \/ DowngradeAdd(p) \/ Advance(p) \/ ForeignPost(p)
      PROVE  WordInv'
    <2>1. CASE ForeignPost(p)
        BY <2>1, QuietStay DEF ForeignPost, wordVars, callVars
    <2>2. CASE Start(p) \/ DowngradeAdd(p)
        BY <2>2, StartStep, DowngradeAddStep
    <2>3. CASE Attempt(p) \/ SwapByte(p) \/ LWLockRelease(p) \/ DowngradeSub(p)
        BY <2>3, AttemptStep, SwapByteStep, ReleaseStep, DowngradeSubStep
    <2>4. CASE \/ LWLockQueueSelf(p) \/ LWLockDequeueSelf(p) \/ UndoReleaseOk(p) \/ Absorb(p)
               \/ FinishUndo(p) \/ Sleep(p) \/ Retry(p) \/ WasFreed(p)
        BY <2>4, QueueStep
    <2>5. CASE LWLockWakeup(p) \/ Unlink(p) \/ Post(p) \/ WakeupDone(p)
        BY <2>5, WakeStep
    <2> QED
        BY <1>2, <2>1, <2>2, <2>3, <2>4, <2>5 DEF Advance
<1> QED
    BY <1>1, <1>2 DEF Next

\* No thread holds the lock while another one holds it exclusively, for any number of threads
\* and any way they hash to the bytes of the word (LWLockAttemptLock, LWLockRelease,
\* LWLockDowngrade).
THEOREM LockExcludes == Spec => []MutualExclusion
<1>1. WordInv => MutualExclusion
    BY DEF WordInv
<1> QED
    BY <1>1, WordInit, WordStep, PTL DEF Spec

\* Every count of the word is the number of shared holders that hash to its byte and stays
\* below the exclusive bit, the 128th thread of one byte and a downgrade included.
THEOREM CountsAreExact == Spec => []CountsExact
<1>1. WordInv => CountsExact
    BY DEF WordInv
<1> QED
    BY <1>1, WordInit, WordStep, PTL DEF Spec

-----------------------------------------------------------------------------
(* Lists. *)

\* No entry of a list twice.
Distinct(s) == \A i, j \in DOMAIN s : s[i] = s[j] => i = j

\* The rank of a place among the places chosen names each of them once.
LEMMA RankIsBijective ==
    ASSUME NEW n \in Nat, NEW I \in SUBSET (1..n)
    PROVE  /\ IsFiniteSet(I) /\ Cardinality(I) \in Nat
           /\ \A i \in I : Cardinality(I \cap 1..i) \in 1..Cardinality(I)
           /\ \A i, j \in I : Cardinality(I \cap 1..i) = Cardinality(I \cap 1..j) => i = j
           /\ \A k \in 1..Cardinality(I) : \E i \in I : Cardinality(I \cap 1..i) = k
<1>1. IsFiniteSet(I) /\ Cardinality(I) \in Nat
    <2>1. IsFiniteSet(1..n)
        BY FS_Interval
    <2>2. IsFiniteSet(I)
        BY <2>1, FS_Subset
    <2> QED
        BY <2>2, FS_CardinalityType
<1>2. ASSUME NEW i \in I PROVE IsFiniteSet(I \cap 1..i) /\ Cardinality(I \cap 1..i) \in 1..Cardinality(I)
    <2>1. /\ IsFiniteSet(I \cap 1..i) /\ Cardinality(I \cap 1..i) <= Cardinality(I)
          /\ Cardinality(I \cap 1..i) \in Nat
        BY <1>1, FS_Subset, FS_CardinalityType
    <2>2. i \in I \cap 1..i
        OBVIOUS
    <2>3. Cardinality(I \cap 1..i) # 0
        BY <2>1, <2>2, FS_EmptySet
    <2> QED
        BY <1>1, <2>1, <2>3
<1>3. ASSUME NEW i \in I, NEW j \in I, i < j
      PROVE  Cardinality(I \cap 1..i) # Cardinality(I \cap 1..j)
    <2>1. I \cap 1..i \in SUBSET (I \cap 1..j) /\ j \in I \cap 1..j /\ j \notin I \cap 1..i
        BY <1>3
    <2> QED
        BY <1>2, <2>1, FS_Subset
<1>4. \A i, j \in I : Cardinality(I \cap 1..i) = Cardinality(I \cap 1..j) => i = j
    <2> SUFFICES ASSUME NEW i \in I, NEW j \in I, i # j
                 PROVE  Cardinality(I \cap 1..i) # Cardinality(I \cap 1..j)
        OBVIOUS
    <2>1. i < j \/ j < i
        OBVIOUS
    <2> QED
        BY <1>3, <2>1
<1> DEFINE rank == [i \in I |-> Cardinality(I \cap 1..i)]
<1>5. rank \in Injection(I, 1..Cardinality(I))
    BY <1>2, <1>4 DEF Injection, IsInjective
<1>6. IsFiniteSet(1..Cardinality(I)) /\ Cardinality(1..Cardinality(I)) = Cardinality(I)
    BY <1>1, FS_Interval
<1>7. rank \in Surjection(I, 1..Cardinality(I))
    <2> HIDE DEF rank
    <2> QED
        BY <1>5, <1>6, FS_Injection
<1>8. \A k \in 1..Cardinality(I) : \E i \in I : Cardinality(I \cap 1..i) = k
    BY <1>7 DEF Surjection
<1> QED
    BY <1>1, <1>2, <1>4, <1>8

\* A sublist has the entries of its places, and none twice.
LEMMA SublistIs ==
    ASSUME NEW S, NEW s \in Seq(S), Distinct(s), NEW I \in SUBSET DOMAIN s
    PROVE  /\ Sublist(s, I) \in Seq(S)
           /\ SeqRange(Sublist(s, I)) = {s[i] : i \in I}
           /\ Distinct(Sublist(s, I))
<1> DEFINE Place(k) == CHOOSE i \in I : Cardinality(I \cap 1..i) = k
           N == Cardinality(I)
<1>1. Len(s) \in Nat /\ DOMAIN s = 1..Len(s) /\ \A i \in DOMAIN s : s[i] \in S
    OBVIOUS
<1>2. /\ N \in Nat
      /\ \A i \in I : Cardinality(I \cap 1..i) \in 1..N
      /\ \A i, j \in I : Cardinality(I \cap 1..i) = Cardinality(I \cap 1..j) => i = j
      /\ \A k \in 1..N : \E i \in I : Cardinality(I \cap 1..i) = k
    BY <1>1, RankIsBijective
<1>3. \A k \in 1..N : Place(k) \in I /\ Cardinality(I \cap 1..Place(k)) = k
    BY <1>2
<1>4. ASSUME NEW i \in I PROVE \E k \in 1..N : Place(k) = i
    <2>1. PICK k \in 1..N : k = Cardinality(I \cap 1..i)
        BY <1>2
    <2>2. Cardinality(I \cap 1..Place(k)) = Cardinality(I \cap 1..i) /\ Place(k) \in I
        BY <1>3, <2>1
    <2>3. Place(k) = i
        BY <1>2, <2>2
    <2> QED
        BY <2>3
<1>5. Sublist(s, I) = [k \in 1..N |-> s[Place(k)]]
    BY DEF Sublist
<1> HIDE DEF Place, N
<1>6. Sublist(s, I) \in Seq(S)
    <2>1. Sublist(s, I) \in [1..N -> S]
        BY <1>1, <1>3, <1>5
    <2> QED
        BY <1>2, <2>1
<1>7. SeqRange(Sublist(s, I)) = {s[i] : i \in I}
    <2>1. SeqRange(Sublist(s, I)) = {s[Place(k)] : k \in 1..N}
        BY <1>5 DEF SeqRange
    <2>2. \A k \in 1..N : s[Place(k)] \in {s[i] : i \in I}
        BY <1>3
    <2>3. \A i \in I : s[i] \in {s[Place(k)] : k \in 1..N}
        BY <1>4
    <2> QED
        BY <2>1, <2>2, <2>3
<1>8. Distinct(Sublist(s, I))
    <2>1. DOMAIN Sublist(s, I) = 1..N
        BY <1>5
    <2>2. ASSUME NEW j \in 1..N, NEW k \in 1..N, Sublist(s, I)[j] = Sublist(s, I)[k] PROVE j = k
        <3>1. s[Place(j)] = s[Place(k)] /\ Place(j) \in DOMAIN s /\ Place(k) \in DOMAIN s
            BY <1>3, <1>5, <2>2
        <3>2. Place(j) = Place(k)
            BY <3>1 DEF Distinct
        <3> QED
            BY <1>3, <3>2
    <2> QED
        BY <2>1, <2>2 DEF Distinct
<1> QED
    BY <1>6, <1>7, <1>8

\* The waiters in S.
LEMMA WaitersAre ==
    ASSUME queue \in Seq(Procs), Distinct(queue), NEW S
    PROVE  /\ Waiters(S) \in Seq(Procs)
           /\ SeqRange(Waiters(S)) = SeqRange(queue) \cap S
           /\ Distinct(Waiters(S))
<1> DEFINE I == {i \in DOMAIN queue : queue[i] \in S}
<1>1. I \in SUBSET DOMAIN queue /\ {queue[i] : i \in I} = SeqRange(queue) \cap S
    BY DEF SeqRange
<1>2. Waiters(S) = Sublist(queue, I)
    BY DEF Waiters
<1> HIDE DEF I
<1> QED
    BY <1>1, <1>2, SublistIs

\* Putting somebody new at an end of a list, and taking the first out.
LEMMA ListEnds ==
    ASSUME NEW S, NEW s \in Seq(S), Distinct(s), NEW x \in S
    PROVE  /\ x \notin SeqRange(s) =>
                /\ <<x>> \o s \in Seq(S) /\ Append(s, x) \in Seq(S)
                /\ SeqRange(<<x>> \o s) = SeqRange(s) \cup {x}
                /\ SeqRange(Append(s, x)) = SeqRange(s) \cup {x}
                /\ Distinct(<<x>> \o s) /\ Distinct(Append(s, x))
           /\ s # <<>> =>
                /\ Head(s) \in SeqRange(s) /\ Head(s) \in S
                /\ Tail(s) \in Seq(S) /\ Distinct(Tail(s))
                /\ SeqRange(Tail(s)) = SeqRange(s) \ {Head(s)}
<1>1. Len(s) \in Nat /\ DOMAIN s = 1..Len(s)
    OBVIOUS
<1>2. ASSUME x \notin SeqRange(s)
      PROVE  /\ Append(s, x) \in Seq(S) /\ SeqRange(Append(s, x)) = SeqRange(s) \cup {x}
             /\ Distinct(Append(s, x))
    <2>1. /\ Append(s, x) \in Seq(S) /\ DOMAIN Append(s, x) = 1..Len(s) + 1
          /\ \A i \in 1..Len(s) : Append(s, x)[i] = s[i]
          /\ Append(s, x)[Len(s) + 1] = x
        OBVIOUS
    <2>2. \A i \in 1..Len(s) : s[i] # x
        BY <1>1, <1>2 DEF SeqRange
    <2>3. Distinct(Append(s, x))
        BY <1>1, <2>1, <2>2 DEF Distinct
    <2>4. SeqRange(Append(s, x)) = SeqRange(s) \cup {x}
        BY <1>1, <2>1 DEF SeqRange
    <2> QED
        BY <2>1, <2>3, <2>4
<1>3. ASSUME x \notin SeqRange(s)
      PROVE  /\ <<x>> \o s \in Seq(S) /\ SeqRange(<<x>> \o s) = SeqRange(s) \cup {x}
             /\ Distinct(<<x>> \o s)
    <2> DEFINE t == <<x>> \o s
    <2>1. /\ t \in Seq(S) /\ DOMAIN t = 1..Len(s) + 1 /\ t[1] = x
          /\ \A i \in 2..Len(s) + 1 : t[i] = s[i - 1]
        OBVIOUS
    <2> HIDE DEF t
    <2>2. \A i \in 2..Len(s) + 1 : i - 1 \in 1..Len(s) /\ t[i] # x
        BY <1>1, <1>3, <2>1 DEF SeqRange
    <2>3. Distinct(t)
        <3> SUFFICES ASSUME NEW i \in 1..Len(s) + 1, NEW j \in 1..Len(s) + 1, t[i] = t[j]
                     PROVE  i = j
            BY <2>1 DEF Distinct
        <3>1. CASE i = 1 \/ j = 1
            BY <1>1, <2>1, <2>2, <3>1
        <3>2. CASE i # 1 /\ j # 1
            <4>1. i \in 2..Len(s) + 1 /\ j \in 2..Len(s) + 1
                BY <1>1, <3>2
            <4>2. s[i - 1] = s[j - 1] /\ i - 1 \in DOMAIN s /\ j - 1 \in DOMAIN s
                BY <1>1, <2>1, <2>2, <4>1
            <4>3. i - 1 = j - 1
                BY <4>2 DEF Distinct
            <4> QED
                BY <4>1, <4>3, <1>1
        <3> QED
            BY <3>1, <3>2
    <2>4. SeqRange(t) = SeqRange(s) \cup {x}
        <3>1. \A i \in 1..Len(s) : i + 1 \in 2..Len(s) + 1 /\ i + 1 \in 1..Len(s) + 1 /\ s[i] = t[i + 1]
            BY <1>1, <2>1
        <3>2. \A y \in SeqRange(s) : y \in SeqRange(t)
            BY <1>1, <2>1, <3>1 DEF SeqRange
        <3>3. x \in SeqRange(t)
            BY <1>1, <2>1 DEF SeqRange
        <3>4. \A y \in SeqRange(t) : y \in SeqRange(s) \cup {x}
            <4> SUFFICES ASSUME NEW i \in 1..Len(s) + 1 PROVE t[i] \in SeqRange(s) \cup {x}
                BY <2>1 DEF SeqRange
            <4>1. i = 1 \/ i \in 2..Len(s) + 1
                BY <1>1
            <4> QED
                BY <1>1, <2>1, <2>2, <4>1 DEF SeqRange
        <3> QED
            BY <3>2, <3>3, <3>4
    <2> QED
        BY <2>1, <2>3, <2>4 DEF t
<1>4. ASSUME s # <<>>
      PROVE  /\ Head(s) \in SeqRange(s) /\ Head(s) \in S
             /\ Tail(s) \in Seq(S) /\ Distinct(Tail(s))
             /\ SeqRange(Tail(s)) = SeqRange(s) \ {Head(s)}
    <2>1. Len(s) >= 1 /\ 1 \in DOMAIN s /\ Head(s) = s[1] /\ s[1] \in S
        BY <1>4
    <2>2. /\ Tail(s) \in Seq(S) /\ DOMAIN Tail(s) = 1..Len(s) - 1
          /\ \A i \in 1..Len(s) - 1 : Tail(s)[i] = s[i + 1] /\ i + 1 \in DOMAIN s
        BY <1>4
    <2>3. Distinct(Tail(s))
        BY <1>1, <2>2 DEF Distinct
    <2>4. \A y \in SeqRange(Tail(s)) : y \in SeqRange(s) /\ y # Head(s)
        BY <1>1, <2>1, <2>2 DEF Distinct, SeqRange
    <2>5. \A i \in DOMAIN s : i # 1 => i - 1 \in 1..Len(s) - 1 /\ Tail(s)[i - 1] = s[i]
        BY <1>1, <2>2
    <2>6. \A y \in SeqRange(s) : y # Head(s) => y \in SeqRange(Tail(s))
        <3> SUFFICES ASSUME NEW i \in DOMAIN s, s[i] # Head(s)
                     PROVE  s[i] \in SeqRange(Tail(s))
            BY DEF SeqRange
        <3>1. i - 1 \in DOMAIN Tail(s) /\ Tail(s)[i - 1] = s[i]
            BY <2>1, <2>2, <2>5
        <3> QED
            BY <3>1 DEF SeqRange
    <2> QED
        BY <2>1, <2>2, <2>3, <2>4, <2>6 DEF SeqRange
<1> QED
    BY <1>2, <1>3, <1>4

-----------------------------------------------------------------------------
(* The lists. *)

\* The steps at which a thread may be in a list.
Linkable == {"try2", "cas2", "undo", "undoOk", "absorb", "sleep"}

ListTypes ==
    /\ hasW \in BOOLEAN
    /\ queue \in Seq(Procs)
    /\ waiting \in [Procs -> BOOLEAN]
    /\ wake \in [Procs -> Seq(Procs)]

\* p is in one list if lwWaiting says so, else in none.
Link(p) ==
    /\ waiting[p] <=> p \in SeqRange(queue) \/ \E q \in Procs : p \in SeqRange(wake[q])
    /\ \A q \in Procs : p \in SeqRange(wake[q]) => p \notin SeqRange(queue)
    /\ \A q, r \in Procs : p \in SeqRange(wake[q]) /\ p \in SeqRange(wake[r]) => q = r

\* A thread that is in a list, or has one of its own, is where it will leave it or empty it.
ListStage(p) ==
    /\ waiting[p] => pc[p] \in Linkable
    /\ wake[p] # <<>> => pc[p] \in {"unlink", "post"}

ListInv ==
    /\ ListTypes
    /\ queue # <<>> => hasW
    /\ Distinct(queue)
    /\ \A p \in Procs : Distinct(wake[p]) /\ Link(p) /\ ListStage(p)

\* One list for each waiting thread is one link for each.
LEMMA ListsAreSound == ListInv => WaitListSound
<1> SUFFICES ASSUME ListInv PROVE WaitListSound
    OBVIOUS
<1>1. ASSUME NEW p \in Procs
      PROVE  (IF p \in SeqRange(queue) THEN 1 ELSE 0)
                + Cardinality({q \in Procs : p \in SeqRange(wake[q])})
             = IF waiting[p] THEN 1 ELSE 0
    <2> DEFINE L == {q \in Procs : p \in SeqRange(wake[q])}
    <2>1. Link(p)
        BY DEF ListInv
    <2>2. CASE \E q \in Procs : p \in SeqRange(wake[q])
        <3>1. PICK q \in Procs : p \in SeqRange(wake[q])
            BY <2>2
        <3>2. L = {q}
            BY <2>1, <3>1 DEF Link
        <3>3. Cardinality(L) = 1
            BY <3>2, FS_Singleton
        <3>4. waiting[p] /\ p \notin SeqRange(queue)
            BY <2>1, <3>1 DEF Link
        <3> QED
            BY <3>3, <3>4
    <2>3. CASE ~\E q \in Procs : p \in SeqRange(wake[q])
        <3>1. L = {}
            BY <2>3
        <3>2. Cardinality(L) = 0
            BY <3>1, FS_EmptySet
        <3>3. waiting[p] <=> p \in SeqRange(queue)
            BY <2>1, <2>3 DEF Link
        <3> QED
            BY <3>2, <3>3
    <2> QED
        BY <2>2, <2>3
<1>2. \A p \in Procs : pc[p] = "queue" => ~waiting[p]
    BY DEF ListInv, ListStage, Linkable
<1> QED
    BY <1>1, <1>2 DEF ListInv, Distinct, WaitListSound

\* A step of p that leaves the lists alone.
LEMMA ListsKept ==
    ASSUME WordInv, ListInv, NEW p \in Procs, NEW to \in PC,
           UNCHANGED <<hasW, queue, waiting, wake>>,
           pc' = [pc EXCEPT ![p] = to],
           pc[p] \in Linkable => to \in Linkable \/ ~waiting[p],
           pc[p] \in {"unlink", "post"} => to \in {"unlink", "post"} \/ wake[p] = <<>>
    PROVE  ListInv'
<1>1. ListTypes' /\ (queue # <<>> => hasW)' /\ Distinct(queue)'
    BY DEF ListInv, ListTypes, Distinct
<1>2. ASSUME NEW q \in Procs PROVE Distinct(wake[q])' /\ Link(q)' /\ ListStage(q)'
    <2>1. Distinct(wake[q])' /\ Link(q)'
        BY DEF ListInv, Distinct, Link, SeqRange
    <2>2. ListStage(q)
        BY DEF ListInv
    <2>3. ListStage(q)'
        BY <2>2 DEF ListStage, WordInv, WordTypes
    <2> QED
        BY <2>1, <2>3
<1> QED
    BY <1>1, <1>2 DEF ListInv

\* A step of p that changes the lists: what is left to show is about p and whom it links.
LEMMA ListsChanged ==
    ASSUME WordInv, ListInv, NEW p \in Procs, NEW to \in PC,
           ListTypes', (queue # <<>> => hasW)', Distinct(queue)',
           pc' = [pc EXCEPT ![p] = to],
           \A q \in Procs : Distinct(wake[q])' /\ Link(q)',
           \A q \in Procs \ {p} : waiting'[q] => waiting[q],
           \A q \in Procs \ {p} : wake'[q] = wake[q],
           waiting'[p] => to \in Linkable,
           wake'[p] # <<>> => to \in {"unlink", "post"}
    PROVE  ListInv'
<1>1. ASSUME NEW q \in Procs PROVE ListStage(q)'
    <2>1. ListStage(q)
        BY DEF ListInv
    <2>2. CASE q = p
        BY <2>2 DEF ListStage, WordInv, WordTypes
    <2>3. CASE q # p
        BY <2>1, <2>3 DEF ListStage, WordInv, WordTypes
    <2> QED
        BY <2>2, <2>3
<1> QED
    BY <1>1 DEF ListInv

\* A thread at a step where it is in no list.
LEMMA NotLinked ==
    ASSUME ListInv, NEW p \in Procs, pc[p] \notin Linkable
    PROVE  /\ ~waiting[p] /\ p \notin SeqRange(queue)
           /\ \A q \in Procs : p \notin SeqRange(wake[q])
<1>1. ListStage(p) /\ Link(p)
    BY DEF ListInv
<1> QED
    BY <1>1 DEF ListStage, Link

-----------------------------------------------------------------------------
\* LWLockQueueSelf links the thread into the queue.
LEMMA QueueSelfLists ==
    ASSUME WordInv, ListInv, NEW p \in Procs, LWLockQueueSelf(p)
    PROVE  ListInv'
<1>1. /\ ~waiting[p] /\ p \notin SeqRange(queue)
      /\ \A q \in Procs : p \notin SeqRange(wake[q])
    BY NotLinked DEF LWLockQueueSelf, Linkable
<1>2. /\ hasW' = TRUE /\ wake' = wake /\ waiting' = [waiting EXCEPT ![p] = TRUE]
      /\ pc' = [pc EXCEPT ![p] = "try2"]
      /\ queue' = <<p>> \o queue \/ queue' = Append(queue, p)
    BY DEF LWLockQueueSelf, Queued
<1>3. queue \in Seq(Procs) /\ Distinct(queue) /\ ListTypes
    BY DEF ListInv, ListTypes
<1>4. queue' \in Seq(Procs) /\ SeqRange(queue') = SeqRange(queue) \cup {p} /\ Distinct(queue')
    <2>1. /\ <<p>> \o queue \in Seq(Procs) /\ Append(queue, p) \in Seq(Procs)
          /\ SeqRange(<<p>> \o queue) = SeqRange(queue) \cup {p}
          /\ SeqRange(Append(queue, p)) = SeqRange(queue) \cup {p}
          /\ Distinct(<<p>> \o queue) /\ Distinct(Append(queue, p))
        BY <1>1, <1>3, ListEnds, Zenon
    <2> QED
        BY <1>2, <2>1, Zenon
<1>5. ListTypes' /\ (queue # <<>> => hasW)' /\ Distinct(queue)'
    BY <1>2, <1>3, <1>4 DEF ListTypes, Distinct
<1>6. wake'[p] = <<>>
    BY <1>2 DEF ListInv, ListStage, LWLockQueueSelf
<1>7. ASSUME NEW q \in Procs PROVE Distinct(wake[q])' /\ Link(q)'
    <2>1. Distinct(wake[q]) /\ Link(q)
        BY DEF ListInv
    <2>2. Distinct(wake[q])'
        BY <1>2, <2>1 DEF Distinct
    <2>3. SeqRange(queue)' = SeqRange(queue) \cup {p} /\ \A r \in Procs : SeqRange(wake[r])' = SeqRange(wake[r])
        BY <1>2, <1>4 DEF SeqRange
    <2>4. Link(q)'
        BY <1>1, <1>2, <1>3, <2>1, <2>3 DEF Link, ListTypes
    <2> QED
        BY <2>2, <2>4
<1> QED
    BY <1>2, <1>3, <1>5, <1>6, <1>7, ListsChanged DEF ListTypes, Linkable, PC

\* LWLockDequeueSelf takes the thread out of the queue if it is still there.
LEMMA DequeueSelfLists ==
    ASSUME WordInv, ListInv, NEW p \in Procs, LWLockDequeueSelf(p)
    PROVE  ListInv'
<1>1. /\ wake' = wake /\ queue' = Waiters(Procs \ {p}) /\ hasW' = (hasW /\ queue' # <<>>)
      /\ pc[p] = "undo"
    BY DEF LWLockDequeueSelf, WaitersLeft
<1>2. queue \in Seq(Procs) /\ Distinct(queue) /\ ListTypes
    BY DEF ListInv, ListTypes
<1>3. queue' \in Seq(Procs) /\ SeqRange(queue') = SeqRange(queue) \cap (Procs \ {p}) /\ Distinct(queue')
    BY <1>1, <1>2, WaitersAre
<1>4. SeqRange(queue) \subseteq Procs
    BY <1>2 DEF SeqRange
<1>5. SeqRange(queue)' = SeqRange(queue) \ {p} /\ \A r \in Procs : SeqRange(wake[r])' = SeqRange(wake[r])
    BY <1>1, <1>3, <1>4 DEF SeqRange
<1>6. PICK to \in {"undone", "undoOk"} :
        /\ pc' = [pc EXCEPT ![p] = to]
        /\ IF p \in SeqRange(queue)
           THEN to = "undone" /\ waiting' = [waiting EXCEPT ![p] = FALSE]
           ELSE to = "undoOk" /\ waiting' = waiting
    BY DEF LWLockDequeueSelf, Unlinked
<1>7. (queue # <<>>) \in BOOLEAN
    OBVIOUS
<1>8. ListTypes' /\ (queue # <<>> => hasW)' /\ Distinct(queue)'
    <2>1. queue # <<>> => hasW
        BY DEF ListInv
    <2>2. queue = <<>> => SeqRange(queue) = {}
        BY DEF SeqRange
    <2>3. queue' # <<>> => queue # <<>>
        <3>1. queue' # <<>> => 1 \in DOMAIN queue'
            BY <1>3
        <3>2. queue' # <<>> => queue'[1] \in SeqRange(queue')
            BY <3>1 DEF SeqRange
        <3> QED
            BY <1>3, <2>2, <3>2
    <2>4. hasW' \in BOOLEAN /\ (queue' # <<>> => hasW')
        BY <1>1, <2>1, <2>3
    <2>5. waiting' \in [Procs -> BOOLEAN]
        BY <1>2, <1>6 DEF ListTypes
    <2> QED
        BY <1>1, <1>2, <1>3, <2>4, <2>5 DEF ListTypes, Distinct
<1>9. wake[p] = <<>>
    BY <1>1 DEF ListInv, ListStage
<1>10. ASSUME NEW q \in Procs PROVE Distinct(wake[q])' /\ Link(q)'
    <2>1. Distinct(wake[q]) /\ Link(q)
        BY DEF ListInv
    <2>2. Distinct(wake[q])'
        BY <1>1, <2>1 DEF Distinct
    <2>3. CASE q = p /\ p \in SeqRange(queue)
        <3>1. ~waiting'[q]
            BY <1>2, <1>6, <2>3 DEF ListTypes
        <3>2. q \notin SeqRange(queue)' /\ \A r \in Procs : q \notin SeqRange(wake[r])'
            BY <1>5, <2>1, <2>3, Zenon DEF Link
        <3> QED
            BY <3>1, <3>2, <2>2 DEF Link
    <2>4. CASE ~(q = p /\ p \in SeqRange(queue))
        <3>1. waiting'[q] = waiting[q]
            BY <1>2, <1>6, <2>4 DEF ListTypes
        <3>2. q \in SeqRange(queue)' <=> q \in SeqRange(queue)
            BY <1>5, <2>4
        <3> QED
            BY <1>5, <2>1, <3>1, <3>2, <2>2 DEF Link
    <2> QED
        BY <2>2, <2>3, <2>4
<1>11. waiting'[p] => to \in Linkable
    BY <1>2, <1>6 DEF ListTypes, Linkable
<1>12. \A q \in Procs \ {p} : waiting'[q] => waiting[q]
    BY <1>2, <1>6 DEF ListTypes
<1> QED
    BY <1>1, <1>6, <1>8, <1>9, <1>10, <1>11, <1>12, ListsChanged DEF PC

\* A set of naturals has a least element.
LEMMA Least ==
    ASSUME NEW S \in SUBSET Nat, S # {}
    PROVE  \E x \in S : \A y \in S : x <= y
<1>1. PICK x \in S : \A y \in S : ~(<<y, x>> \in OpToRel(<, Nat))
    BY NatLessThanWellFounded, WFMin
<1>2. ASSUME NEW y \in S PROVE x <= y
    <2>1. ~(y < x)
        BY <1>1 DEF OpToRel
    <2> QED
        BY <2>1
<1> QED
    BY <1>2

\* LWLockWakeup takes somebody out of a list that is not empty.
LEMMA SomebodyWoken ==
    ASSUME queue \in Seq(Procs), queue # <<>>
    PROVE  Woken # {}
<1> DEFINE L == {i \in DOMAIN queue : wmode[queue[i]] # "FREE"}
<1>1. Len(queue) \in Nat /\ DOMAIN queue = 1..Len(queue) /\ 1 \in DOMAIN queue
    OBVIOUS
<1>2. L \in SUBSET Nat /\ L \subseteq DOMAIN queue
    BY <1>1
<1>3. CASE L = {}
    <2>1. FirstLocker = 0
        BY <1>3 DEF FirstLocker
    <2>2. wmode[queue[1]] # "EX" /\ queue[1] \in SeqRange(queue)
        BY <1>1, <1>3 DEF SeqRange
    <2> QED
        BY <2>1, <2>2 DEF Woken
<1>4. CASE L # {}
    <2>1. FirstLocker = CHOOSE x \in L : \A y \in L : x <= y
        BY <1>4 DEF FirstLocker, Min
    <2>2. \E x \in L : \A y \in L : x <= y
        BY <1>2, <1>4, Least
    <2>3. FirstLocker \in L
        BY <2>1, <2>2
    <2>4. FirstLocker \in DOMAIN queue /\ FirstLocker \in Nat /\ FirstLocker >= 1
        BY <1>1, <2>3
    <2>5. CASE wmode[queue[FirstLocker]] = "EX"
        BY <2>4, <2>5 DEF Woken
    <2>6. CASE wmode[queue[FirstLocker]] # "EX"
        <3>1. queue[FirstLocker] \in {q \in SeqRange(queue) : wmode[q] # "EX"}
            BY <2>4, <2>6 DEF SeqRange
        <3> QED
            BY <2>6, <3>1 DEF Woken
    <2> QED
        BY <2>5, <2>6
<1> QED
    BY <1>3, <1>4

\* LWLockWakeup moves some of the queue into the waker's own list.
LEMMA WakeupLists ==
    ASSUME WordInv, ListInv, NEW p \in Procs, LWLockWakeup(p)
    PROVE  ListInv'
<1>1. /\ pc[p] = "wake" /\ waiting' = waiting /\ pc' = [pc EXCEPT ![p] = "unlink"]
      /\ hasW' = (hasW /\ Woken # {})
    BY DEF LWLockWakeup
<1>2. queue \in Seq(Procs) /\ Distinct(queue) /\ ListTypes /\ SeqRange(queue) \subseteq Procs
    BY DEF ListInv, ListTypes, SeqRange
<1>3. PICK W : W = Woken
    OBVIOUS
<1>4. queue' = Waiters(Procs \ W) /\ wake' = [wake EXCEPT ![p] = Waiters(W)]
    BY <1>3 DEF LWLockWakeup
<1>5. /\ Waiters(W) \in Seq(Procs) /\ SeqRange(Waiters(W)) = SeqRange(queue) \cap W
      /\ Distinct(Waiters(W))
    BY <1>2, WaitersAre
<1>6. queue' \in Seq(Procs) /\ SeqRange(queue') = SeqRange(queue) \ W /\ Distinct(queue')
    BY <1>2, <1>4, WaitersAre
<1>7. wake'[p] = Waiters(W) /\ \A q \in Procs \ {p} : wake'[q] = wake[q]
    BY <1>2, <1>4 DEF ListTypes
<1>8. wake[p] = <<>> /\ SeqRange(wake[p]) = {}
    BY <1>1 DEF ListInv, ListStage, SeqRange
<1>9. /\ SeqRange(queue)' = SeqRange(queue) \ W
      /\ SeqRange(wake[p])' = SeqRange(queue) \cap W
      /\ \A q \in Procs \ {p} : SeqRange(wake[q])' = SeqRange(wake[q])
    BY <1>5, <1>6, <1>7 DEF SeqRange
<1>10. ListTypes' /\ (queue # <<>> => hasW)' /\ Distinct(queue)'
    <2>1. queue # <<>> => hasW /\ Woken # {}
        BY <1>2, SomebodyWoken DEF ListInv
    <2>2. queue' # <<>> => queue # <<>>
        <3>1. queue' # <<>> => queue'[1] \in SeqRange(queue')
            BY <1>6 DEF SeqRange
        <3>2. queue = <<>> => SeqRange(queue) = {}
            BY DEF SeqRange
        <3> QED
            BY <1>6, <3>1, <3>2
    <2>3. hasW' \in BOOLEAN /\ (queue' # <<>> => hasW')
        BY <1>1, <1>2, <2>1, <2>2 DEF ListTypes
    <2>4. wake' \in [Procs -> Seq(Procs)]
        BY <1>2, <1>4, <1>5 DEF ListTypes
    <2> QED
        BY <1>1, <1>2, <1>6, <2>3, <2>4 DEF ListTypes, Distinct
<1>11. ASSUME NEW q \in Procs PROVE Distinct(wake[q])' /\ Link(q)'
    <2>1. Distinct(wake[q]) /\ Link(q)
        BY DEF ListInv
    <2>2. Distinct(wake'[q])
        BY <1>5, <1>7, <2>1
    <2>3. Distinct(wake[q])'
        BY <2>2 DEF Distinct
    <2>4. \A r \in Procs : q \in SeqRange(wake[r])' <=>
             q \in SeqRange(wake[r]) \/ (r = p /\ q \in SeqRange(queue) /\ q \in W)
        BY <1>8, <1>9
    <2>5. q \in SeqRange(queue)' <=> q \in SeqRange(queue) /\ q \notin W
        BY <1>9
    <2>6. Link(q)'
        BY <1>1, <2>1, <2>4, <2>5 DEF Link
    <2> QED
        BY <2>3, <2>6
<1>12. \A q \in Procs : waiting'[q] = waiting[q]
    BY <1>1
<1>13. ~waiting'[p]
    BY <1>1, NotLinked DEF Linkable
<1> QED
    BY <1>1, <1>7, <1>10, <1>11, <1>12, <1>13, ListsChanged DEF PC

\* The waker takes the first thread out of its own list.
LEMMA UnlinkLists ==
    ASSUME WordInv, ListInv, NEW p \in Procs, Unlink(p)
    PROVE  ListInv'
<1>1. PICK h : h = Head(wake[p])
    OBVIOUS
<1>2. /\ pc[p] = "unlink" /\ wake[p] # <<>> /\ UNCHANGED <<hasW, queue>>
      /\ waiting' = [waiting EXCEPT ![h] = FALSE] /\ wake' = [wake EXCEPT ![p] = Tail(wake[p])]
      /\ pc' = [pc EXCEPT ![p] = "post"]
    BY <1>1 DEF Unlink, Unlinked, wordVars
<1>3. ListTypes /\ wake[p] \in Seq(Procs) /\ Distinct(wake[p])
    BY DEF ListInv, ListTypes
<1>4. /\ h \in SeqRange(wake[p]) /\ h \in Procs /\ Tail(wake[p]) \in Seq(Procs)
      /\ Distinct(Tail(wake[p])) /\ SeqRange(Tail(wake[p])) = SeqRange(wake[p]) \ {h}
    BY <1>1, <1>2, <1>3, ListEnds
<1>5. wake'[p] = Tail(wake[p]) /\ \A q \in Procs \ {p} : wake'[q] = wake[q]
    BY <1>2, <1>3 DEF ListTypes
<1>6. ListTypes' /\ (queue # <<>> => hasW)' /\ Distinct(queue)'
    <2>1. wake' \in [Procs -> Seq(Procs)] /\ waiting' \in [Procs -> BOOLEAN]
        BY <1>2, <1>3, <1>4 DEF ListTypes
    <2> QED
        BY <1>2, <2>1 DEF ListInv, ListTypes, Distinct
<1>7. /\ SeqRange(queue)' = SeqRange(queue) /\ SeqRange(wake[p])' = SeqRange(wake[p]) \ {h}
      /\ \A q \in Procs \ {p} : SeqRange(wake[q])' = SeqRange(wake[q])
    BY <1>2, <1>4, <1>5 DEF SeqRange
<1>8. ASSUME NEW q \in Procs PROVE Distinct(wake[q])' /\ Link(q)'
    <2>1. Distinct(wake[q]) /\ Link(q)
        BY DEF ListInv
    <2>2. Distinct(wake'[q])
        BY <1>4, <1>5, <2>1
    <2>3. Distinct(wake[q])'
        BY <2>2 DEF Distinct
    <2>4. CASE q = h
        <3>1. ~waiting'[q]
            BY <1>2, <1>3, <2>4 DEF ListTypes
        <3>2. q \notin SeqRange(queue)' /\ \A r \in Procs : q \notin SeqRange(wake[r])'
            BY <1>4, <1>7, <2>1, <2>4 DEF Link
        <3> QED
            BY <3>1, <3>2, <2>3 DEF Link
    <2>5. CASE q # h
        <3>1. waiting'[q] = waiting[q]
            BY <1>2, <1>3, <2>5 DEF ListTypes
        <3>2. /\ q \in SeqRange(queue)' <=> q \in SeqRange(queue)
              /\ \A r \in Procs : q \in SeqRange(wake[r])' <=> q \in SeqRange(wake[r])
            BY <1>7, <2>5
        <3> QED
            BY <2>1, <3>1, <3>2, <2>3 DEF Link
    <2> QED
        BY <2>3, <2>4, <2>5
<1>9. \A q \in Procs : waiting'[q] => waiting[q]
    BY <1>2, <1>3 DEF ListTypes
<1>10. ~waiting'[p]
    BY <1>2, <1>9, NotLinked DEF Linkable
<1> QED
    BY <1>2, <1>5, <1>6, <1>8, <1>9, <1>10, ListsChanged DEF PC

\* Attempts to take the lock do not touch the lists; a thread that is linked stays where it
\* will look at them again.
LEMMA AttemptLists ==
    ASSUME WordInv, ListInv, NEW p \in Procs, Attempt(p) \/ SwapByte(p)
    PROVE  ListInv'
<1>1. UNCHANGED <<hasW, queue, waiting, wake>>
    BY DEF Attempt, AttemptExclusive, AttemptShared, SwapByte, CompareAndSwap, wordVars, waitVars
<1>2. CASE pc[p] \in {"try1", "cas1"}
    <2>1. \E to \in PC : pc' = [pc EXCEPT ![p] = to]
        <3>1. CASE Attempt(p)
            BY <3>1, <1>2 DEF Attempt, AttemptExclusive, AttemptShared, Got, MustWait, Return, PC
        <3>2. CASE SwapByte(p)
            <4>1. CASE UNCHANGED pc
                <5>1. pc' = [pc EXCEPT ![p] = pc[p]] /\ pc[p] \in PC
                    BY <4>1 DEF WordInv, WordTypes
                <5> QED
                    BY <5>1
            <4>2. CASE ~UNCHANGED pc
                BY <3>2, <4>2, <1>2 DEF SwapByte, CompareAndSwap, Got, MustWait, Return, PC
            <4> QED
                BY <4>1, <4>2
        <3> QED
            BY <3>1, <3>2
    <2> QED
        BY <1>1, <1>2, <2>1, ListsKept DEF Linkable
<1>3. CASE pc[p] \in {"try2", "cas2"}
    <2>1. \E to \in Linkable : pc' = [pc EXCEPT ![p] = to]
        <3>1. CASE Attempt(p)
            BY <3>1, <1>3 DEF Attempt, AttemptExclusive, AttemptShared, Got, MustWait, Return, Linkable
        <3>2. CASE SwapByte(p)
            <4>1. CASE UNCHANGED pc
                <5>1. pc' = [pc EXCEPT ![p] = pc[p]] /\ pc[p] \in Linkable
                    BY <1>3, <4>1 DEF WordInv, WordTypes, Linkable
                <5> QED
                    BY <5>1
            <4>2. CASE ~UNCHANGED pc
                BY <3>2, <4>2, <1>3 DEF SwapByte, CompareAndSwap, Got, MustWait, Return, Linkable
            <4> QED
                BY <4>1, <4>2
        <3> QED
            BY <3>1, <3>2
    <2> QED
        BY <1>1, <1>3, <2>1, ListsKept DEF Linkable, PC
<1> QED
    BY <1>2, <1>3 DEF Attempt, SwapByte

\* The steps of a thread that sleeps, wakes or ends its call.
LEMMA SleepLists ==
    ASSUME WordInv, ListInv, NEW p \in Procs,
           UndoReleaseOk(p) \/ Absorb(p) \/ FinishUndo(p) \/ Sleep(p) \/ Retry(p) \/ WasFreed(p)
    PROVE  ListInv'
<1> USE DEF Linkable, PC, wordVars, waitVars
<1>1. CASE UndoReleaseOk(p)
    BY <1>1, ListsKept DEF UndoReleaseOk, SetReleaseOk
<1>2. CASE Absorb(p) \/ Sleep(p)
    <2>1. /\ UNCHANGED <<hasW, queue, waiting, wake>> /\ pc[p] \in {"absorb", "sleep"}
          /\ pc[p] \in Linkable
        BY <1>2 DEF Absorb, Sleep, AwaitPost
    <2>2. CASE waiting[p]
        <3>1. pc' = pc
            BY <1>2, <2>2 DEF Absorb, Sleep, AwaitPost
        <3>2. pc' = [pc EXCEPT ![p] = pc[p]] /\ pc[p] \in PC
            BY <3>1 DEF WordInv, WordTypes
        <3> QED
            BY <2>1, <3>2, ListsKept
    <2>3. CASE ~waiting[p]
        <3>1. PICK to \in {"undone", "free", "woken"} : pc' = [pc EXCEPT ![p] = to]
            BY <1>2, <2>3 DEF Absorb, Sleep, AwaitPost
        <3> QED
            BY <2>1, <2>3, <3>1, ListsKept
    <2> QED
        BY <2>2, <2>3
<1>3. CASE FinishUndo(p)
    BY <1>3, ListsKept DEF FinishUndo, Return
<1>4. CASE Retry(p)
    BY <1>4, ListsKept DEF Retry, SetReleaseOk
<1>5. CASE WasFreed(p)
    BY <1>5, ListsKept DEF WasFreed, Return
<1> QED
    BY <1>1, <1>2, <1>3, <1>4, <1>5

\* The steps that begin or end a hold, and the rest of the waker's loop.
LEMMA HoldLists ==
    ASSUME WordInv, ListInv, NEW p \in Procs,
           \/ Start(p) \/ LWLockRelease(p) \/ DowngradeAdd(p) \/ DowngradeSub(p)
           \/ Post(p) \/ WakeupDone(p)
    PROVE  ListInv'
<1> USE DEF Linkable, PC, wordVars, waitVars
<1>1. CASE Start(p)
    BY <1>1, ListsKept DEF Start
<1>2. CASE LWLockRelease(p)
    BY <1>2, ListsKept DEF LWLockRelease
<1>3. CASE DowngradeAdd(p)
    BY <1>3, ListsKept DEF DowngradeAdd
<1>4. CASE DowngradeSub(p)
    BY <1>4, ListsKept DEF DowngradeSub
<1>5. CASE Post(p)
    BY <1>5, ListsKept DEF Post
<1>6. CASE WakeupDone(p)
    BY <1>6, ListsKept DEF WakeupDone
<1> QED
    BY <1>1, <1>2, <1>3, <1>4, <1>5, <1>6

\* A new lock has no lists.
LEMMA ListInit == Init => ListInv
<1> SUFFICES ASSUME Init PROVE ListInv
    OBVIOUS
<1>1. queue = <<>> /\ \A q \in Procs : wake[q] = <<>> /\ waiting[q] = FALSE
    BY DEF Init
<1>2. ListTypes
    <2>1. <<>> \in Seq(Procs)
        OBVIOUS
    <2>2. hasW = FALSE /\ waiting = [q \in Procs |-> FALSE] /\ wake = [q \in Procs |-> <<>>]
        BY DEF Init
    <2> QED
        BY <1>1, <2>1, <2>2 DEF ListTypes
<1>3. SeqRange(<<>>) = {} /\ Distinct(<<>>)
    BY DEF SeqRange, Distinct
<1>4. \A p \in Procs : Link(p) /\ ListStage(p)
    BY <1>1, <1>3 DEF Link, ListStage
<1> QED
    BY <1>1, <1>2, <1>3, <1>4 DEF ListInv

\* Every step of every thread keeps the lists.
LEMMA ListStep == WordInv /\ ListInv /\ [Next]_vars => ListInv'
<1> SUFFICES ASSUME WordInv, ListInv, [Next]_vars PROVE ListInv'
    OBVIOUS
<1>1. CASE UNCHANGED <<hasW, queue, waiting, wake, pc>>
    BY <1>1 DEF ListInv, ListTypes, Distinct, Link, ListStage, SeqRange
<1>2. ASSUME NEW p \in Procs, Start(p) \/ DowngradeAdd(p) \/ Advance(p)
      PROVE  ListInv'
    <2>1. CASE Attempt(p) \/ SwapByte(p)
        BY <2>1, AttemptLists
    <2>2. CASE \/ Start(p) \/ LWLockRelease(p) \/ DowngradeAdd(p) \/ DowngradeSub(p)
               \/ Post(p) \/ WakeupDone(p)
        BY <2>2, HoldLists
    <2>3. CASE \/ UndoReleaseOk(p) \/ Absorb(p) \/ FinishUndo(p) \/ Sleep(p) \/ Retry(p)
               \/ WasFreed(p)
        BY <2>3, SleepLists
    <2>4. CASE LWLockQueueSelf(p) \/ LWLockDequeueSelf(p)
        BY <2>4, QueueSelfLists, DequeueSelfLists
    <2>5. CASE LWLockWakeup(p) \/ Unlink(p)
        BY <2>5, WakeupLists, UnlinkLists
    <2> QED
        BY <1>2, <2>1, <2>2, <2>3, <2>4, <2>5 DEF Advance
<1>3. UNCHANGED vars => UNCHANGED <<hasW, queue, waiting, wake, pc>>
    BY DEF vars, wordVars, waitVars
<1>4. \A p \in Procs : ForeignPost(p) => UNCHANGED <<hasW, queue, waiting, wake, pc>>
    BY DEF ForeignPost, wordVars, waitVars
<1> QED
    BY <1>1, <1>2, <1>3, <1>4 DEF Next

\* A thread is linked into at most one list, once, and exactly while lwWaiting says so; waiters
\* in the queue are announced in the word; LWLockQueueSelf never meets a thread that is still
\* linked.  For any number of threads.
THEOREM ListsSound == Spec => []WaitListSound
<1>1. Init => WordInv /\ ListInv
    BY WordInit, ListInit
<1>2. WordInv /\ ListInv /\ [Next]_vars => (WordInv /\ ListInv)'
    BY WordStep, ListStep
<1> QED
    BY <1>1, <1>2, ListsAreSound, PTL DEF Spec

-----------------------------------------------------------------------------
(* The semaphores. *)

\* Outside these steps a call may have absorbed wake-ups that it has not put back.
Settled == {"idle", "held", "downgrade", "wake", "unlink", "post"}

\* p has been taken out of a list and has not had the post that goes with it.
Owed(p) == IF pc[p] \in Linkable /\ ~waiting[p] THEN 1 ELSE 0

\* The threads about to post the semaphore of p.
Posters(p) == {q \in Procs : post[q] = p}

SemTypes ==
    /\ sem \in [Procs -> Nat] /\ extra \in [Procs -> Nat] /\ foreign \in [Procs -> Nat]
    /\ post \in [Procs -> Procs \cup {NoProc}]

\* Every post, had or coming, is a foreign one or answers an unlinking.
Account(p) ==
    /\ sem[p] + extra[p] + Cardinality(Posters(p)) = foreign[p] + Owed(p)
    /\ pc[p] \in Settled => extra[p] = 0
    /\ post[p] # NoProc <=> pc[p] = "post"

SemInv == SemTypes /\ \A p \in Procs : Account(p)

\* The threads about to post are finitely many.
LEMMA PostersFinite ==
    ASSUME NEW p
    PROVE  IsFiniteSet(Posters(p)) /\ Cardinality(Posters(p)) \in Nat
<1>1. Posters(p) \subseteq Procs
    BY DEF Posters
<1>2. IsFiniteSet(Posters(p))
    BY <1>1, LwLockAssumption, FS_Subset
<1> QED
    BY <1>2, FS_CardinalityType

\* Outside a call nothing is absorbed and nothing is owed.
LEMMA BalanceHolds == SemInv => SemaphoreBalanced
<1> SUFFICES ASSUME SemInv, NEW p \in Procs, pc[p] \in {"idle", "held"}
             PROVE  sem[p] + Cardinality({q \in Procs : post[q] = p}) = foreign[p]
    BY DEF SemaphoreBalanced
<1>1. Account(p) /\ sem[p] \in Nat /\ foreign[p] \in Nat
    BY DEF SemInv, SemTypes
<1>2. extra[p] = 0 /\ Owed(p) = 0
    BY <1>1 DEF Account, Settled, Owed, Linkable
<1>3. Cardinality(Posters(p)) \in Nat /\ Posters(p) = {q \in Procs : post[q] = p}
    BY PostersFinite DEF Posters
<1>4. sem[p] + 0 + Cardinality(Posters(p)) = foreign[p] + 0
    BY <1>1, <1>2 DEF Account
<1> QED
    BY <1>1, <1>3, <1>4

\* A step of p on its own semaphore.
LEMMA OwnSemaphore ==
    ASSUME WordInv, SemInv, NEW p \in Procs, SemTypes', post' = post,
           \A q \in Procs \ {p} :
               /\ pc'[q] = pc[q] /\ waiting'[q] = waiting[q]
               /\ sem'[q] = sem[q] /\ extra'[q] = extra[q] /\ foreign'[q] = foreign[q],
           sem'[p] + extra'[p] + Cardinality(Posters(p)) = foreign'[p] + Owed(p)',
           pc'[p] \in Settled => extra'[p] = 0,
           pc[p] # "post", pc'[p] # "post"
    PROVE  SemInv'
<1>1. \A q \in Procs : Posters(q)' = Posters(q)
    BY DEF Posters
<1>2. ASSUME NEW q \in Procs PROVE Account(q)'
    <2>1. Account(q)
        BY DEF SemInv
    <2>2. Cardinality(Posters(q))' = Cardinality(Posters(q))
        BY <1>1
    <2>3. CASE q = p
        BY <2>1, <2>2, <2>3 DEF Account
    <2>4. CASE q # p
        <3>1. Owed(q)' = Owed(q)
            BY <2>4 DEF Owed
        <3> QED
            BY <2>1, <2>2, <2>4, <3>1 DEF Account
    <2> QED
        BY <2>3, <2>4
<1> QED
    BY <1>2 DEF SemInv

\* A step of p that has nothing to do with semaphores.
LEMMA NoSemaphore ==
    ASSUME WordInv, SemInv, NEW p \in Procs, NEW to \in PC \ {"post"},
           UNCHANGED <<sem, extra, foreign, post>>,
           pc' = [pc EXCEPT ![p] = to],
           \A q \in Procs \ {p} : waiting'[q] = waiting[q],
           Owed(p)' = Owed(p), pc[p] # "post",
           to \in Settled => pc[p] \in Settled
    PROVE  SemInv'
<1>1. SemTypes'
    BY DEF SemInv, SemTypes
<1>2. Account(p)
    BY DEF SemInv
<1>3. pc'[p] = to /\ \A q \in Procs \ {p} : pc'[q] = pc[q]
    BY DEF WordInv, WordTypes
<1>4. /\ sem'[p] + extra'[p] + Cardinality(Posters(p)) = foreign'[p] + Owed(p)'
      /\ pc'[p] \in Settled => extra'[p] = 0
    BY <1>2, <1>3 DEF Account
<1> QED
    BY <1>1, <1>3, <1>4, OwnSemaphore

\* The same, when lwWaiting does not change.
LEMMA NoSemaphoreMove ==
    ASSUME WordInv, SemInv, NEW p \in Procs, NEW to \in PC \ {"post"},
           UNCHANGED <<sem, extra, foreign, post, waiting>>,
           pc' = [pc EXCEPT ![p] = to],
           pc[p] \in Linkable <=> to \in Linkable, pc[p] # "post",
           to \in Settled => pc[p] \in Settled
    PROVE  SemInv'
<1>1. pc'[p] = to
    BY DEF WordInv, WordTypes
<1>2. Owed(p)' = Owed(p)
    BY <1>1 DEF Owed
<1> QED
    BY <1>2, NoSemaphore

\* A call that returns puts back what it has absorbed.
LEMMA ReturnSemaphore ==
    ASSUME WordInv, SemInv, NEW p \in Procs, NEW to \in {"idle", "held"}, Return(p, to),
           UNCHANGED <<post, waiting>>, pc[p] \notin Linkable, pc[p] # "post"
    PROVE  SemInv'
<1>1. /\ pc' = [pc EXCEPT ![p] = to] /\ sem' = [sem EXCEPT ![p] = @ + extra[p]]
      /\ extra' = [extra EXCEPT ![p] = 0] /\ foreign' = foreign
    BY DEF Return
<1>2. SemTypes /\ Account(p) /\ sem[p] \in Nat /\ extra[p] \in Nat /\ foreign[p] \in Nat
    BY DEF SemInv, SemTypes
<1>3. SemTypes'
    BY <1>1, <1>2 DEF SemTypes
<1>4. pc'[p] = to /\ \A q \in Procs \ {p} : pc'[q] = pc[q]
    BY <1>1 DEF WordInv, WordTypes
<1>5. Owed(p) = 0 /\ Owed(p)' = 0
    BY <1>4 DEF Owed, Linkable
<1>6. sem'[p] = sem[p] + extra[p] /\ extra'[p] = 0 /\ foreign'[p] = foreign[p]
    BY <1>1, <1>2 DEF SemTypes
<1>7. sem'[p] + extra'[p] + Cardinality(Posters(p)) = foreign'[p] + Owed(p)'
    BY <1>2, <1>5, <1>6, PostersFinite DEF Account
<1>8. \A q \in Procs \ {p} :
        /\ pc'[q] = pc[q] /\ waiting'[q] = waiting[q]
        /\ sem'[q] = sem[q] /\ extra'[q] = extra[q] /\ foreign'[q] = foreign[q]
    BY <1>1, <1>2, <1>4 DEF SemTypes
<1> QED
    BY <1>3, <1>4, <1>6, <1>7, <1>8, OwnSemaphore

\* Attempts to take the lock.
LEMMA AttemptSemaphore ==
    ASSUME WordInv, SemInv, NEW p \in Procs, Attempt(p) \/ SwapByte(p)
    PROVE  SemInv'
<1>1. UNCHANGED <<post, waiting>> /\ pc[p] \in {"try1", "cas1", "try2", "cas2"}
    BY DEF Attempt, AttemptExclusive, AttemptShared, SwapByte, CompareAndSwap, waitVars
<1>2. PICK try \in {1, 2} :
        /\ try = IF pc[p] \in {"try1", "cas1"} THEN 1 ELSE 2
        /\ \/ Got(p, try)
           \/ MustWait(p, try)
           \/ /\ pc' = [pc EXCEPT ![p] = IF try = 1 THEN "cas1" ELSE "cas2"]
              /\ UNCHANGED semVars
           \/ pc[p] \in {"cas1", "cas2"} /\ UNCHANGED <<pc, semVars>>
    <2>1. CASE Attempt(p)
        BY <2>1 DEF Attempt, AttemptExclusive, AttemptShared
    <2>2. CASE SwapByte(p)
        BY <2>2 DEF SwapByte, CompareAndSwap
    <2> QED
        BY <2>1, <2>2
<1>3. CASE Got(p, try)
    <2>1. CASE try = 1
        BY <1>1, <1>2, <1>3, <2>1, ReturnSemaphore DEF Got, Linkable
    <2>2. CASE try = 2
        BY <1>1, <1>2, <1>3, <2>2, NoSemaphoreMove DEF Got, Linkable, Settled, PC, semVars
    <2> QED
        BY <2>1, <2>2
<1>4. CASE MustWait(p, try)
    <2>1. CASE try = 1 /\ call[p] = "cond"
        BY <1>1, <1>2, <1>4, <2>1, ReturnSemaphore DEF MustWait, Linkable
    <2>2. CASE try = 1 /\ call[p] # "cond"
        BY <1>1, <1>2, <1>4, <2>2, NoSemaphoreMove DEF MustWait, Linkable, Settled, PC, semVars
    <2>3. CASE try = 2
        BY <1>1, <1>2, <1>4, <2>3, NoSemaphoreMove DEF MustWait, Linkable, Settled, PC, semVars
    <2> QED
        BY <2>1, <2>2, <2>3
<1>5. CASE pc' = [pc EXCEPT ![p] = IF try = 1 THEN "cas1" ELSE "cas2"] /\ UNCHANGED semVars
    <2>1. CASE try = 1
        <3>1. pc[p] \in {"try1", "cas1"}
            BY <1>1, <1>2, <2>1
        <3>2. pc' = [pc EXCEPT ![p] = "cas1"]
            BY <1>5, <2>1
        <3>3. UNCHANGED <<sem, extra, foreign, post, waiting>>
            BY <1>1, <1>5 DEF semVars
        <3> QED
            BY <3>1, <3>2, <3>3, NoSemaphoreMove DEF Linkable, Settled, PC
    <2>2. CASE try = 2
        <3>1. pc[p] \in {"try2", "cas2"}
            BY <1>1, <1>2, <2>2
        <3>2. pc' = [pc EXCEPT ![p] = "cas2"]
            BY <1>5, <2>2
        <3>3. UNCHANGED <<sem, extra, foreign, post, waiting>>
            BY <1>1, <1>5 DEF semVars
        <3> QED
            BY <3>1, <3>2, <3>3, NoSemaphoreMove DEF Linkable, Settled, PC
    <2> QED
        BY <2>1, <2>2
<1>6. CASE pc[p] \in {"cas1", "cas2"} /\ UNCHANGED <<pc, semVars>>
    <2>1. pc' = [pc EXCEPT ![p] = pc[p]]
        BY <1>6 DEF WordInv, WordTypes
    <2> QED
        BY <1>1, <1>6, <2>1, NoSemaphoreMove DEF Linkable, Settled, PC, semVars
<1> QED
    BY <1>2, <1>3, <1>4, <1>5, <1>6

\* PGSemaphoreLock takes a post; it is absorbed, or it ends the wait.
LEMMA AwaitPostSemaphore ==
    ASSUME WordInv, SemInv, NEW p \in Procs, NEW to \in {"undone", "free", "woken"},
           pc[p] \in {"absorb", "sleep"}, AwaitPost(p, to)
    PROVE  SemInv'
<1>1. /\ sem[p] > 0 /\ sem' = [sem EXCEPT ![p] = @ - 1]
      /\ UNCHANGED <<post, waiting, foreign>>
    BY DEF AwaitPost, waitVars
<1>2. SemTypes /\ Account(p) /\ sem[p] \in Nat /\ extra[p] \in Nat /\ foreign[p] \in Nat
    BY DEF SemInv, SemTypes
<1>3. Cardinality(Posters(p)) \in Nat
    BY PostersFinite
<1>4. CASE waiting[p]
    <2>1. pc' = pc /\ extra' = [extra EXCEPT ![p] = @ + 1]
        BY <1>4 DEF AwaitPost
    <2>2. SemTypes'
        BY <1>1, <1>2, <2>1 DEF SemTypes
    <2>3. Owed(p)' = 0 /\ Owed(p) = 0
        BY <1>1, <1>4, <2>1 DEF Owed
    <2>4. sem'[p] = sem[p] - 1 /\ extra'[p] = extra[p] + 1 /\ foreign'[p] = foreign[p]
        BY <1>1, <1>2, <2>1 DEF SemTypes
    <2>5. sem'[p] + extra'[p] + Cardinality(Posters(p)) = foreign'[p] + Owed(p)'
        BY <1>2, <1>3, <2>3, <2>4 DEF Account
    <2>6. \A q \in Procs \ {p} :
            /\ pc'[q] = pc[q] /\ waiting'[q] = waiting[q]
            /\ sem'[q] = sem[q] /\ extra'[q] = extra[q] /\ foreign'[q] = foreign[q]
        BY <1>1, <1>2, <2>1 DEF SemTypes
    <2> QED
        BY <1>1, <2>1, <2>2, <2>5, <2>6, OwnSemaphore DEF Settled
<1>5. CASE ~waiting[p]
    <2>1. pc' = [pc EXCEPT ![p] = to] /\ extra' = extra
        BY <1>5 DEF AwaitPost
    <2>2. SemTypes'
        BY <1>1, <1>2, <2>1 DEF SemTypes
    <2>3. pc'[p] = to /\ \A q \in Procs \ {p} : pc'[q] = pc[q]
        BY <2>1 DEF WordInv, WordTypes
    <2>4. Owed(p)' = 0 /\ Owed(p) = 1
        BY <1>5, <2>3 DEF Owed, Linkable
    <2>5. sem'[p] = sem[p] - 1 /\ extra'[p] = extra[p] /\ foreign'[p] = foreign[p]
        BY <1>1, <1>2, <2>1 DEF SemTypes
    <2>6. sem'[p] + extra'[p] + Cardinality(Posters(p)) = foreign'[p] + Owed(p)'
        BY <1>2, <1>3, <2>4, <2>5 DEF Account
    <2>7. \A q \in Procs \ {p} :
            /\ pc'[q] = pc[q] /\ waiting'[q] = waiting[q]
            /\ sem'[q] = sem[q] /\ extra'[q] = extra[q] /\ foreign'[q] = foreign[q]
        BY <1>1, <1>2, <2>1, <2>3 DEF SemTypes
    <2> QED
        BY <1>1, <2>2, <2>3, <2>6, <2>7, OwnSemaphore DEF Settled
<1> QED
    BY <1>4, <1>5

\* A post by another part of the server.
LEMMA ForeignPostSemaphore ==
    ASSUME WordInv, SemInv, NEW p \in Procs, ForeignPost(p)
    PROVE  SemInv'
<1>1. /\ sem' = [sem EXCEPT ![p] = @ + 1] /\ foreign' = [foreign EXCEPT ![p] = @ + 1]
      /\ UNCHANGED <<post, waiting, extra, pc>> /\ pc[p] \in {"absorb", "sleep"}
    BY DEF ForeignPost, waitVars
<1>2. SemTypes /\ Account(p) /\ sem[p] \in Nat /\ extra[p] \in Nat /\ foreign[p] \in Nat
    BY DEF SemInv, SemTypes
<1>3. SemTypes'
    BY <1>1, <1>2 DEF SemTypes
<1>4. sem'[p] = sem[p] + 1 /\ extra'[p] = extra[p] /\ foreign'[p] = foreign[p] + 1
    BY <1>1, <1>2 DEF SemTypes
<1>5. Owed(p)' = Owed(p) /\ Owed(p) \in Nat
    BY <1>1 DEF Owed
<1>6. sem'[p] + extra'[p] + Cardinality(Posters(p)) = foreign'[p] + Owed(p)'
    BY <1>2, <1>4, <1>5, PostersFinite DEF Account
<1>7. \A q \in Procs \ {p} :
        /\ pc'[q] = pc[q] /\ waiting'[q] = waiting[q]
        /\ sem'[q] = sem[q] /\ extra'[q] = extra[q] /\ foreign'[q] = foreign[q]
    BY <1>1, <1>2 DEF SemTypes
<1> QED
    BY <1>1, <1>3, <1>6, <1>7, OwnSemaphore DEF Settled

\* The waker owes a post to the thread it has taken out of its list.
LEMMA UnlinkSemaphore ==
    ASSUME WordInv, ListInv, SemInv, NEW p \in Procs, Unlink(p)
    PROVE  SemInv'
<1>1. PICK h : h = Head(wake[p])
    OBVIOUS
<1>2. /\ pc[p] = "unlink" /\ wake[p] # <<>> /\ UNCHANGED <<sem, extra, foreign>>
      /\ waiting' = [waiting EXCEPT ![h] = FALSE] /\ post' = [post EXCEPT ![p] = h]
      /\ pc' = [pc EXCEPT ![p] = "post"]
    BY <1>1 DEF Unlink, Unlinked, semVars
<1>3. ListTypes /\ wake[p] \in Seq(Procs) /\ Distinct(wake[p])
    BY DEF ListInv, ListTypes
<1>4. h \in SeqRange(wake[p]) /\ h \in Procs
    BY <1>1, <1>2, <1>3, ListEnds
<1>5. waiting[h] /\ pc[h] \in Linkable /\ h # p
    <2>1. Link(h) /\ ListStage(h)
        BY <1>4 DEF ListInv
    <2>2. waiting[h]
        BY <1>4, <2>1 DEF Link
    <2>3. pc[h] \in Linkable
        BY <2>1, <2>2 DEF ListStage
    <2> QED
        BY <1>2, <2>2, <2>3 DEF Linkable
<1>6. SemTypes /\ SemTypes' /\ post[p] = NoProc
    <2>1. SemTypes /\ Account(p)
        BY DEF SemInv
    <2> QED
        BY <1>2, <1>4, <2>1 DEF SemTypes, Account
<1>7. pc'[p] = "post" /\ \A q \in Procs \ {p} : pc'[q] = pc[q]
    BY <1>2 DEF WordInv, WordTypes
<1>8. ~waiting'[h] /\ \A q \in Procs \ {h} : waiting'[q] = waiting[q]
    BY <1>2, <1>3, <1>4 DEF ListTypes
<1>9. post'[p] = h /\ \A q \in Procs \ {p} : post'[q] = post[q]
    BY <1>2, <1>6 DEF SemTypes
<1>10. NoProc \notin Procs
    BY LwLockAssumption
<1>11. /\ Posters(h)' = Posters(h) \cup {p} /\ p \notin Posters(h)
       /\ \A q \in Procs \ {h} : Posters(q)' = Posters(q)
    BY <1>4, <1>6, <1>9, <1>10 DEF Posters
<1>12. Cardinality(Posters(h))' = Cardinality(Posters(h)) + 1
    BY <1>11, PostersFinite, FS_AddElement
<1>13. ASSUME NEW q \in Procs PROVE Account(q)'
    <2>1. Account(q) /\ sem[q] \in Nat /\ extra[q] \in Nat /\ foreign[q] \in Nat
        BY <1>6 DEF SemInv, SemTypes
    <2>2. sem'[q] = sem[q] /\ extra'[q] = extra[q] /\ foreign'[q] = foreign[q]
        BY <1>2
    <2>3. Cardinality(Posters(q)) \in Nat
        BY PostersFinite
    <2>4. CASE q = h
        <3>1. Owed(q) = 0 /\ Owed(q)' = 1
            BY <1>5, <1>7, <1>8, <2>4 DEF Owed
        <3>2. sem'[q] + extra'[q] + Cardinality(Posters(q))' = foreign'[q] + Owed(q)'
            BY <1>12, <2>1, <2>2, <2>3, <2>4, <3>1 DEF Account
        <3>3. pc'[q] = pc[q] /\ post'[q] = post[q]
            BY <1>5, <1>7, <1>9, <2>4
        <3> QED
            BY <2>1, <2>2, <3>2, <3>3 DEF Account
    <2>5. CASE q = p
        <3>1. Owed(q) = 0 /\ Owed(q)' = 0
            BY <1>2, <1>7, <2>5 DEF Owed, Linkable
        <3>2. Cardinality(Posters(q))' = Cardinality(Posters(q))
            BY <1>5, <1>11, <2>5
        <3>3. sem'[q] + extra'[q] + Cardinality(Posters(q))' = foreign'[q] + Owed(q)'
            BY <2>1, <2>2, <3>1, <3>2 DEF Account
        <3>4. extra[q] = 0
            BY <1>2, <2>1, <2>5 DEF Account, Settled
        <3>5. post'[q] # NoProc /\ pc'[q] = "post"
            BY <1>4, <1>7, <1>9, <1>10, <2>5
        <3> QED
            BY <2>2, <3>3, <3>4, <3>5 DEF Account
    <2>6. CASE q # h /\ q # p
        <3>1. pc'[q] = pc[q] /\ waiting'[q] = waiting[q] /\ post'[q] = post[q]
            BY <1>7, <1>8, <1>9, <2>6
        <3>2. Owed(q)' = Owed(q)
            BY <3>1 DEF Owed
        <3>3. Cardinality(Posters(q))' = Cardinality(Posters(q))
            BY <1>11, <2>6
        <3> QED
            BY <2>1, <2>2, <3>1, <3>2, <3>3 DEF Account
    <2> QED
        BY <2>4, <2>5, <2>6
<1> QED
    BY <1>6, <1>13 DEF SemInv

\* The post arrives.
LEMMA PostSemaphore ==
    ASSUME WordInv, SemInv, NEW p \in Procs, Post(p)
    PROVE  SemInv'
<1>1. PICK h : h = post[p]
    OBVIOUS
<1>2. /\ pc[p] = "post" /\ UNCHANGED <<extra, foreign, waiting>>
      /\ sem' = [sem EXCEPT ![h] = @ + 1] /\ post' = [post EXCEPT ![p] = NoProc]
      /\ pc' = [pc EXCEPT ![p] = "unlink"]
    BY <1>1 DEF Post
<1>3. SemTypes /\ h \in Procs
    <2>1. SemTypes /\ Account(p)
        BY DEF SemInv
    <2> QED
        BY <1>1, <1>2, <2>1 DEF SemTypes, Account
<1>4. SemTypes'
    BY <1>2, <1>3 DEF SemTypes
<1>5. pc'[p] = "unlink" /\ \A q \in Procs \ {p} : pc'[q] = pc[q]
    BY <1>2 DEF WordInv, WordTypes
<1>6. post'[p] = NoProc /\ \A q \in Procs \ {p} : post'[q] = post[q]
    BY <1>2, <1>3 DEF SemTypes
<1>7. NoProc \notin Procs
    BY LwLockAssumption
<1>8. /\ Posters(h)' = Posters(h) \ {p} /\ p \in Posters(h)
      /\ \A q \in Procs \ {h} : Posters(q)' = Posters(q)
    BY <1>1, <1>3, <1>6, <1>7 DEF Posters
<1>9. /\ Cardinality(Posters(h))' = Cardinality(Posters(h)) - 1
    BY <1>8, PostersFinite, FS_RemoveElement
<1>10. sem'[h] = sem[h] + 1 /\ \A q \in Procs \ {h} : sem'[q] = sem[q]
    BY <1>2, <1>3 DEF SemTypes
<1>11. ASSUME NEW q \in Procs PROVE Account(q)'
    <2>1. /\ Account(q) /\ sem[q] \in Nat /\ extra[q] \in Nat /\ foreign[q] \in Nat
          /\ Cardinality(Posters(q)) \in Nat
        BY <1>3, PostersFinite DEF SemInv, SemTypes
    <2>2. extra'[q] = extra[q] /\ foreign'[q] = foreign[q] /\ waiting'[q] = waiting[q]
        BY <1>2
    <2>3. Owed(q)' = Owed(q) /\ Owed(q) \in Nat
        BY <1>2, <1>5, <2>2 DEF Owed, Linkable
    <2>4. sem'[q] + extra'[q] + Cardinality(Posters(q))' = foreign'[q] + Owed(q)'
        <3>1. CASE q = h
            BY <1>9, <1>10, <2>1, <2>2, <2>3, <3>1 DEF Account
        <3>2. CASE q # h
            <4>1. Cardinality(Posters(q))' = Cardinality(Posters(q)) /\ sem'[q] = sem[q]
                BY <1>8, <1>10, <3>2
            <4> QED
                BY <2>1, <2>2, <2>3, <4>1 DEF Account
        <3> QED
            BY <3>1, <3>2
    <2>5. pc'[q] \in Settled => extra'[q] = 0
        BY <1>2, <1>5, <2>1, <2>2 DEF Account, Settled
    <2>6. post'[q] # NoProc <=> pc'[q] = "post"
        BY <1>5, <1>6, <2>1 DEF Account
    <2> QED
        BY <2>4, <2>5, <2>6 DEF Account
<1> QED
    BY <1>4, <1>11 DEF SemInv

\* The other steps on the lists.
LEMMA QueueSemaphore ==
    ASSUME WordInv, ListInv, SemInv, NEW p \in Procs,
           LWLockQueueSelf(p) \/ LWLockDequeueSelf(p) \/ LWLockWakeup(p)
    PROVE  SemInv'
<1>1. waiting \in [Procs -> BOOLEAN]
    BY DEF ListInv, ListTypes
<1>2. CASE LWLockQueueSelf(p)
    <2>1. /\ pc[p] = "queue" /\ pc' = [pc EXCEPT ![p] = "try2"]
          /\ waiting' = [waiting EXCEPT ![p] = TRUE] /\ UNCHANGED <<sem, extra, foreign, post>>
        BY <1>2 DEF LWLockQueueSelf, semVars
    <2>2. Owed(p) = 0 /\ Owed(p)' = 0
        BY <1>1, <2>1 DEF Owed, Linkable
    <2> QED
        BY <1>1, <2>1, <2>2, NoSemaphore DEF PC, Settled
<1>3. CASE LWLockDequeueSelf(p) /\ p \in SeqRange(queue)
    <2>1. /\ pc[p] = "undo" /\ pc' = [pc EXCEPT ![p] = "undone"]
          /\ waiting' = [waiting EXCEPT ![p] = FALSE] /\ UNCHANGED <<sem, extra, foreign, post>>
        BY <1>3 DEF LWLockDequeueSelf, Unlinked, semVars
    <2>2. waiting[p]
        <3>1. Link(p)
            BY DEF ListInv
        <3> QED
            BY <1>3, <3>1 DEF Link
    <2>3. pc'[p] = "undone"
        BY <2>1 DEF WordInv, WordTypes
    <2>4. Owed(p) = 0 /\ Owed(p)' = 0
        BY <2>2, <2>3 DEF Owed, Linkable
    <2> QED
        BY <1>1, <2>1, <2>4, NoSemaphore DEF PC, Settled
<1>4. CASE LWLockDequeueSelf(p) /\ p \notin SeqRange(queue)
    BY <1>4, NoSemaphoreMove DEF LWLockDequeueSelf, semVars, PC, Linkable, Settled
<1>5. CASE LWLockWakeup(p)
    BY <1>5, NoSemaphoreMove DEF LWLockWakeup, semVars, PC, Linkable, Settled
<1> QED
    BY <1>2, <1>3, <1>4, <1>5

\* The steps that move a thread and nothing else, and those that return.
LEMMA OtherSemaphore ==
    ASSUME WordInv, SemInv, NEW p \in Procs,
           \/ Start(p) \/ UndoReleaseOk(p) \/ FinishUndo(p) \/ Retry(p) \/ WasFreed(p)
           \/ LWLockRelease(p) \/ DowngradeAdd(p) \/ DowngradeSub(p) \/ WakeupDone(p)
    PROVE  SemInv'
<1> USE DEF semVars, waitVars, PC, Linkable, Settled
<1>1. CASE Start(p)
    BY <1>1, NoSemaphoreMove DEF Start
<1>2. CASE UndoReleaseOk(p)
    BY <1>2, NoSemaphoreMove DEF UndoReleaseOk, SetReleaseOk
<1>3. CASE FinishUndo(p)
    BY <1>3, ReturnSemaphore DEF FinishUndo
<1>4. CASE Retry(p)
    BY <1>4, NoSemaphoreMove DEF Retry, SetReleaseOk
<1>5. CASE WasFreed(p)
    BY <1>5, ReturnSemaphore DEF WasFreed
<1>6. CASE LWLockRelease(p)
    BY <1>6, NoSemaphoreMove DEF LWLockRelease
<1>7. CASE DowngradeAdd(p)
    BY <1>7, NoSemaphoreMove DEF DowngradeAdd
<1>8. CASE DowngradeSub(p)
    BY <1>8, NoSemaphoreMove DEF DowngradeSub
<1>9. CASE WakeupDone(p)
    BY <1>9, NoSemaphoreMove DEF WakeupDone
<1> QED
    BY <1>1, <1>2, <1>3, <1>4, <1>5, <1>6, <1>7, <1>8, <1>9

\* A new lock owes nobody a post.
LEMMA SemInit == Init => SemInv
<1> SUFFICES ASSUME Init PROVE SemInv
    OBVIOUS
<1>1. SemTypes
    BY DEF Init, SemTypes
<1>2. ASSUME NEW p \in Procs PROVE Account(p)
    <2>1. Posters(p) = {}
        BY LwLockAssumption DEF Init, Posters
    <2>2. Cardinality(Posters(p)) = 0
        BY <2>1, FS_EmptySet
    <2>3. Owed(p) = 0 /\ pc[p] = "idle" /\ post[p] = NoProc
        BY DEF Init, Owed, Linkable
    <2>4. sem[p] = 0 /\ extra[p] = 0 /\ foreign[p] = 0
        BY DEF Init
    <2> QED
        BY <2>2, <2>3, <2>4 DEF Account
<1> QED
    BY <1>1, <1>2 DEF SemInv

\* Every step keeps the account of every semaphore.
LEMMA SemStep == WordInv /\ ListInv /\ SemInv /\ [Next]_vars => SemInv'
<1> SUFFICES ASSUME WordInv, ListInv, SemInv, [Next]_vars PROVE SemInv'
    OBVIOUS
<1>1. CASE UNCHANGED vars
    <2>1. UNCHANGED <<pc, waiting, sem, extra, foreign, post>>
        BY <1>1 DEF vars, waitVars, semVars
    <2>2. SemTypes'
        BY <2>1 DEF SemInv, SemTypes
    <2>3. \A p \in Procs : Account(p)'
        BY <2>1 DEF SemInv, Account, Owed, Posters
    <2> QED
        BY <2>2, <2>3 DEF SemInv
<1>2. ASSUME NEW p \in Procs, Start(p) \/ DowngradeAdd(p) \/ Advance(p) \/ ForeignPost(p)
      PROVE  SemInv'
    <2>1. CASE Attempt(p) \/ SwapByte(p)
        BY <2>1, AttemptSemaphore
    <2>2. CASE LWLockQueueSelf(p) \/ LWLockDequeueSelf(p) \/ LWLockWakeup(p)
        BY <2>2, QueueSemaphore
    <2>3. CASE Absorb(p)
        BY <2>3, AwaitPostSemaphore DEF Absorb
    <2>4. CASE Sleep(p)
        BY <2>4, AwaitPostSemaphore DEF Sleep
    <2>5. CASE Unlink(p) \/ Post(p) \/ ForeignPost(p)
        BY <2>5, UnlinkSemaphore, PostSemaphore, ForeignPostSemaphore
    <2>6. CASE \/ Start(p) \/ UndoReleaseOk(p) \/ FinishUndo(p) \/ Retry(p) \/ WasFreed(p)
               \/ LWLockRelease(p) \/ DowngradeAdd(p) \/ DowngradeSub(p) \/ WakeupDone(p)
        BY <2>6, OtherSemaphore
    <2> QED
        BY <1>2, <2>1, <2>2, <2>3, <2>4, <2>5, <2>6 DEF Advance
<1> QED
    BY <1>1, <1>2 DEF Next

\* Outside a call the semaphore of a thread holds what other parts of the server have posted
\* and nothing else, whoever is still about to post it (extraWaits, PGSemaphoreLock).  For any
\* number of threads and foreign posts.
THEOREM PostsBalance == Spec => []SemaphoreBalanced
<1>1. Init => WordInv /\ ListInv /\ SemInv
    BY WordInit, ListInit, SemInit
<1>2. WordInv /\ ListInv /\ SemInv /\ [Next]_vars => (WordInv /\ ListInv /\ SemInv)'
    BY WordStep, ListStep, SemStep
<1> QED
    BY <1>1, <1>2, BalanceHolds, PTL DEF Spec

-----------------------------------------------------------------------------
(* Types. *)

RestTypes ==
    /\ relOk \in BOOLEAN
    /\ call \in [Procs -> CallKinds \cup {"none"}]
    /\ wmode \in [Procs -> Modes \cup {"FREE"}]

\* The parts of TypeOK that no other invariant needs.
LEMMA RestStep == WordInv /\ ListInv /\ RestTypes /\ [Next]_vars => RestTypes'
<1> SUFFICES ASSUME WordInv, ListInv, RestTypes, [Next]_vars PROVE RestTypes'
    OBVIOUS
<1> USE DEF wordVars, callVars, waitVars, semVars
<1>1. CASE UNCHANGED vars
    BY <1>1 DEF vars, RestTypes
<1>2. ASSUME NEW p \in Procs, Start(p) \/ DowngradeAdd(p) \/ Advance(p) \/ ForeignPost(p)
      PROVE  RestTypes'
    <2>1. relOk' \in BOOLEAN
        <3>1. CASE LWLockWakeup(p)
            BY <3>1 DEF LWLockWakeup, ReleaseOkAfter
        <3>2. CASE UndoReleaseOk(p) \/ Retry(p)
            BY <3>2 DEF UndoReleaseOk, Retry, SetReleaseOk
        <3>3. CASE ~(LWLockWakeup(p) \/ UndoReleaseOk(p) \/ Retry(p))
            <4>1. relOk' = relOk
                BY <1>2, <3>3 DEF Start, DowngradeAdd, Advance, ForeignPost, Attempt, SwapByte,
                    AttemptExclusive, AttemptShared, CompareAndSwap, LWLockQueueSelf,
                    LWLockDequeueSelf, Absorb, FinishUndo, Sleep, AwaitPost, WasFreed,
                    LWLockRelease, DowngradeSub, Unlink, Post, WakeupDone
            <4> QED
                BY <4>1 DEF RestTypes
        <3> QED
            BY <3>1, <3>2, <3>3
    <2>2. call' \in [Procs -> CallKinds \cup {"none"}]
        <3>1. CASE Start(p)
            <4>1. \E c \in CallKinds : call' = [call EXCEPT ![p] = c]
                BY <3>1, LwLockAssumption DEF Start
            <4> QED
                BY <4>1 DEF RestTypes
        <3>2. CASE ~Start(p)
            <4>1. call' = call \/ call' = [call EXCEPT ![p] = "none"]
                BY <1>2, <3>2 DEF DowngradeAdd, Advance, ForeignPost, Attempt, SwapByte,
                    AttemptExclusive, AttemptShared, CompareAndSwap, Got, MustWait, Return,
                    LWLockQueueSelf, LWLockDequeueSelf, UndoReleaseOk, Retry, SetReleaseOk,
                    Absorb, FinishUndo, Sleep, AwaitPost, WasFreed, LWLockRelease, DowngradeSub,
                    LWLockWakeup, Unlink, Post, WakeupDone
            <4> QED
                BY <4>1 DEF RestTypes
        <3> QED
            BY <3>1, <3>2
    <2>3. wmode' \in [Procs -> Modes \cup {"FREE"}]
        <3>1. CASE LWLockQueueSelf(p)
            <4>1. \E m \in Modes \cup {"FREE"} : wmode' = [wmode EXCEPT ![p] = m]
                BY <3>1 DEF LWLockQueueSelf, WordInv, WordTypes
            <4> QED
                BY <4>1 DEF RestTypes
        <3>2. CASE Unlink(p) \/ LWLockDequeueSelf(p)
            <4>1. wmode' = wmode \/ \E h : wmode' = [wmode EXCEPT ![h] = "none"]
                BY <3>2 DEF Unlink, LWLockDequeueSelf, Unlinked
            <4> QED
                BY <4>1 DEF RestTypes, Modes
        <3>3. CASE ~(LWLockQueueSelf(p) \/ Unlink(p) \/ LWLockDequeueSelf(p))
            <4>1. wmode' = wmode
                BY <1>2, <3>3 DEF Start, DowngradeAdd, Advance, ForeignPost, Attempt, SwapByte,
                    AttemptExclusive, AttemptShared, CompareAndSwap, UndoReleaseOk, Retry,
                    SetReleaseOk, Absorb, FinishUndo, Sleep, AwaitPost, WasFreed,
                    LWLockRelease, DowngradeSub, LWLockWakeup, Post, WakeupDone
            <4> QED
                BY <4>1 DEF RestTypes
        <3> QED
            BY <3>1, <3>2, <3>3
    <2> QED
        BY <2>1, <2>2, <2>3 DEF RestTypes
<1> QED
    BY <1>1, <1>2 DEF Next

\* Every variable keeps its type; no count of a byte and no semaphore falls below zero, where
\* LWLockRelease and PGSemaphoreLock would borrow.
THEOREM TypeCorrect == Spec => []TypeOK
<1>1. Init => WordInv /\ ListInv /\ SemInv /\ RestTypes
    <2>1. Init => RestTypes
        BY DEF Init, RestTypes, Modes
    <2> QED
        BY <2>1, WordInit, ListInit, SemInit
<1>2. WordInv /\ ListInv /\ SemInv /\ RestTypes /\ [Next]_vars
        => (WordInv /\ ListInv /\ SemInv /\ RestTypes)'
    BY WordStep, ListStep, SemStep, RestStep
<1>3. WordInv /\ ListInv /\ SemInv /\ RestTypes => TypeOK
    <2>1. WordInv => ex \subseteq Bytes
        BY DEF WordInv, ExclusiveWord
    <2> QED
        BY <2>1 DEF WordInv, WordTypes, ListInv, ListTypes, SemInv, SemTypes, RestTypes, TypeOK
<1> QED
    BY <1>1, <1>2, <1>3, PTL DEF Spec
=============================================================================
