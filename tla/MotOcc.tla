------------------------------- MODULE MotOcc -------------------------------
(***************************************************************************)
(* Optimistic multi-version concurrency control of the MOT storage engine. *)
(*                                                                         *)
(* Every key of a primary index owns a sentinel: a status word (dirty,     *)
(* lock and write bits and the pointer to the newest row version), a start *)
(* CSN and a reference count.  A transaction reads through a snapshot CSN, *)
(* drafts its writes privately, and commits by locking its sentinels with  *)
(* try-lock, validating them, drawing a CSN, publishing the row versions   *)
(* one sentinel at a time and unlocking.                                   *)
(*                                                                         *)
(* A Row* is modelled by the version chain that starts at that row (a      *)
(* sequence, newest first); <<>> is the null pointer.                      *)
(***************************************************************************)
EXTENDS Integers, Sequences, FiniteSets

CONSTANTS
    Txn,        \* transactions; each runs once
    Key,        \* primary keys, in the order of the ordered access set
    InitKey,    \* the keys that hold a committed row initially
    Levels,     \* the isolation levels a transaction may be started with
    Statements, \* the kinds of statement the clients issue
    MaxOps,     \* bound: statements per transaction
    MaxRetry,   \* rounds of LockHeaders before LOCK_TIME_OUT aborts
    SoftLimit,  \* Sentinel::IsCounterReachedSoftLimit
    NoTxn       \* no lock owner

ASSUME ConstantsAssumption ==
    /\ Key \subseteq Nat
    /\ InitKey \subseteq Key
    /\ Levels \subseteq {"RC", "RR"}
    /\ Statements \subseteq {"RD", "RD_FOR_UPDATE", "WR", "DEL", "INS"}
    /\ MaxOps \in Nat
    /\ MaxRetry \in Nat
    /\ SoftLimit \in Nat
    /\ NoTxn \notin Txn

VARIABLES
    csn,        \* CSNManager::m_csn, the next CSN to hand out
    present,    \* [Key -> BOOLEAN]: the index holds a sentinel for the key
    refs,       \* [Key -> Nat]: Sentinel::m_refCount
    dirty,      \* [Key -> BOOLEAN]: S_DIRTY_BIT, no committed row yet
    lock,       \* [Key -> Txn \cup {NoTxn}]: S_LOCK_BIT and its owner
    wbit,       \* [Key -> BOOLEAN]: S_WRITE_BIT
    start,      \* [Key -> Nat]: Sentinel::m_startCSN
    chain,      \* [Key -> Seq(Version)]: Sentinel::GetData()
    pc,         \* [Txn -> step of the transaction]
    iso,        \* [Txn -> Levels]: TxnManager::m_isolationLevel
    snap,       \* [Txn -> Nat]: TxnManager::m_visibleCSN, 0 when not taken
    acc,        \* [Txn -> [Key -> Access]]: TxnAccess::m_rowsSet
    cur,        \* [Txn -> the lookup or insert in progress]
    todo,       \* [Txn -> SUBSET Key]: what the current loop has left
    tries,      \* [Txn -> Nat]: LockHeaders rounds (log2 of sleepTime)
    ops,        \* [Txn -> Nat]: statements executed
    tcsn,       \* [Txn -> Nat]: TxnManager::m_csn, 0 when invalid
    hist,       \* history: [Key -> Seq(Version)] in the order of the CSNs
    last        \* history: [Txn -> the outcome of its last SELECT or UPDATE]

sentVars == <<present, refs, dirty, lock, wbit, start, chain>>
txnVars  == <<iso, acc, cur, todo, tries, ops, tcsn>>
vars == <<csn, sentVars, pc, txnVars, snap, hist, last>>

-----------------------------------------------------------------------------
(* Rows, accesses and the state of a transaction. *)

Version == [csn : Nat, del : BOOLEAN]

AccessType == {"NONE", "RD_FOR_UPDATE", "WR", "DEL", "INS"}

\* upg: IsUpgradeInsert; iod: IsInsertOnDeletedRow; base: m_globalRow (its
\* newest version carries m_csn); snapshot: m_snapshot.
Access == [type : AccessType, upg : BOOLEAN, iod : BOOLEAN,
           base : Seq(Version), snapshot : Nat]

NoAccess == [type |-> "NONE", upg |-> FALSE, iod |-> FALSE,
             base |-> <<>>, snapshot |-> 0]

\* What the last SELECT or UPDATE of a transaction reported: a row read through
\* the chain, an early exit on an uncommitted sentinel, a key newer than the
\* snapshot, or a row mapped for update (csn 0: no row).
Result == [kind : {"none", "read", "dirty", "dirtyUpdate", "phantom", "update"},
           key : Nat, snap : Nat, csn : Nat]

NoLast == [kind |-> "none", key |-> 0, snap |-> 0, csn |-> 0]

Modes == {"RD", "RD_FOR_UPDATE", "WR", "DEL"}

\* The lookup or insert in progress: its key and mode, the newest row seen on
\* entry, and whether the sentinel was dirty and locked then.
Lookup == [key : Nat, mode : Modes \cup {"NONE"}, top : Seq(Version), spun : BOOLEAN]

Idle == [key |-> 0, mode |-> "NONE", top |-> <<>>, spun |-> FALSE]

PC == {"idle", "active", "read", "header", "entry", "update", "insert",
       "filterRemove", "abortRemove", "lock", "unlockRetry", "unlockAbort",
       "validate", "validated", "write", "sentinel", "release", "rollback",
       "committed", "aborted"}

WriteTypes == {"WR", "DEL", "INS"}
WriteSet(t)  == {k \in Key : acc[t][k].type \in WriteTypes}
InsertSet(t) == {k \in Key : acc[t][k].type = "INS"}
RowSet(t)    == {k \in Key : acc[t][k].type # "NONE"}

\* The loops over the ordered access set visit the keys in order.
First(S) == CHOOSE k \in S : \A j \in S : k <= j

Deleted(row) == row[1].del
RowCsn(row) == row[1].csn

\* Mutant: a version committed at the snapshot CSN itself is visible.
GetRowFromChainOffByOne(s, row) ==
    LET older == {i \in 1..Len(row) : s >= row[i].csn}
    IN  IF older = {} THEN <<>> ELSE SubSeq(row, First(older), Len(row))

\* The chain from the first version that is older than the snapshot.
GetRowFromChain(s, row) ==
    LET older == {i \in 1..Len(row) : s > row[i].csn}
    IN  IF older = {} THEN <<>> ELSE SubSeq(row, First(older), Len(row))

\* The CSN of the row a client is handed: 0 for no row or a tombstone.
HandedCsn(row) == IF row = <<>> \/ Deleted(row) THEN 0 ELSE RowCsn(row)

VisibleCsn(s, row) == HandedCsn(GetRowFromChain(s, row))

-----------------------------------------------------------------------------
Init ==
    /\ csn = 2
    /\ present = [k \in Key |-> k \in InitKey]
    /\ refs = [k \in Key |-> IF k \in InitKey THEN 1 ELSE 0]
    /\ dirty = [k \in Key |-> k \notin InitKey]
    /\ lock = [k \in Key |-> NoTxn]
    /\ wbit = [k \in Key |-> FALSE]
    /\ start = [k \in Key |-> IF k \in InitKey THEN 1 ELSE 0]
    /\ chain = [k \in Key |->
                  IF k \in InitKey THEN <<[csn |-> 1, del |-> FALSE]>> ELSE <<>>]
    /\ pc = [t \in Txn |-> "idle"]
    /\ iso \in [Txn -> Levels]
    /\ snap = [t \in Txn |-> 0]
    /\ acc = [t \in Txn |-> [k \in Key |-> NoAccess]]
    /\ cur = [t \in Txn |-> Idle]
    /\ todo = [t \in Txn |-> {}]
    /\ tries = [t \in Txn |-> 0]
    /\ ops = [t \in Txn |-> 0]
    /\ tcsn = [t \in Txn |-> 0]
    /\ hist = chain
    /\ last = [t \in Txn |-> NoLast]

Goto(t, step) == pc' = [pc EXCEPT ![t] = step]

StartTransaction(t) ==
    /\ pc[t] = "idle"
    /\ Goto(t, "active")
    /\ UNCHANGED <<csn, sentVars, txnVars, snap, hist, last>>

-----------------------------------------------------------------------------
(* Statements: snapshot, lookup in the access set, row lookup. *)

\* TxnManager::SetSnapshot: the statement that finds no snapshot takes the
\* current CSN (GcSessionStart's epoch for the first one).
SetSnapshot(t) ==
    /\ pc[t] = "active"
    /\ snap[t] = 0
    /\ ops[t] < MaxOps
    /\ snap' = [snap EXCEPT ![t] = csn]
    /\ UNCHANGED <<csn, sentVars, pc, txnVars, hist, last>>

\* FinishStatement: READ COMMITTED forgets the snapshot.
AfterStatement(t) == [snap EXCEPT ![t] = IF iso[t] = "RC" THEN 0 ELSE @]

FinishStatement(t) ==
    /\ Goto(t, "active")
    /\ snap' = AfterStatement(t)
    /\ cur' = [cur EXCEPT ![t] = Idle]

\* A failed statement aborts the transaction: its inserts are rolled back.
FailStatement(t) ==
    /\ Goto(t, "rollback")
    /\ todo' = [todo EXCEPT ![t] = InsertSet(t)]
    /\ cur' = [cur EXCEPT ![t] = Idle]

Outcome(t, kind, k, s, c) ==
    last' = [last EXCEPT ![t] = [kind |-> kind, key |-> k, snap |-> s, csn |-> c]]

BeginStatement(t, kind) ==
    /\ pc[t] = "active"
    /\ kind \in Statements
    /\ snap[t] # 0
    /\ ops[t] < MaxOps
    /\ ops' = [ops EXCEPT ![t] = @ + 1]

\* Mutant: the last request decides the type of the access.
NextTypeOverwrites(type, mode) == mode

\* txnStateMachine, for the access types that reach the access set.
NextType(type, mode) ==
    CASE mode = "RD" -> type
      [] mode = "RD_FOR_UPDATE" -> type
      [] mode = "WR" -> IF type = "RD_FOR_UPDATE" THEN "WR" ELSE type
      [] mode = "DEL" -> "DEL"

\* The reference count after RollbackInsert of t's insert of k: RefCountUpdate
\* for a new sentinel, RollBackUnique (never below one) for an upgrade.
RollbackRefs(t, k) ==
    [refs EXCEPT ![k] = IF acc[t][k].upg /\ @ = 1 THEN 1 ELSE @ - 1]

\* DELETE of a row the transaction inserted itself: FilterOrderedSet undoes the
\* insert; a delete-then-insert becomes the delete again.
FilterOrderedSet(t, k) ==
    /\ refs' = RollbackRefs(t, k)
    /\ acc' = [acc EXCEPT ![t][k] =
                 IF @.upg /\ ~@.iod THEN [@ EXCEPT !.type = "DEL", !.upg = FALSE]
                 ELSE NoAccess]
    /\ IF ~acc[t][k].upg /\ refs'[k] = 0
       THEN Goto(t, "filterRemove") /\ cur' = [cur EXCEPT ![t].key = k]
       ELSE Goto(t, "active") /\ cur' = cur

\* RowLookup of a key in the access set: the transaction's own draft.
LookupLocal(t, k, mode) ==
    /\ acc[t][k].type # "NONE"
    /\ BeginStatement(t, mode)
    /\ snap' = AfterStatement(t)
    /\ IF acc[t][k].type = "INS" /\ mode = "DEL"
       THEN /\ FilterOrderedSet(t, k)
            /\ UNCHANGED <<present, dirty, lock, wbit, start, chain>>
       ELSE /\ acc' = IF acc[t][k].type = "DEL" THEN acc
                      ELSE [acc EXCEPT ![t][k].type = NextType(@, mode)]
            /\ UNCHANGED <<pc, cur, sentVars>>
    /\ UNCHANGED <<csn, iso, todo, tries, tcsn, hist, last>>

\* AccessLookup of a key outside a non-empty access set whose sentinel is not
\* committed: RC_LOCAL_ROW_NOT_VISIBLE at once, locked or not.
LookupNotVisible(t, k, mode) ==
    /\ acc[t][k].type = "NONE"
    /\ ~present[k] \/ (dirty[k] /\ RowSet(t) # {})
    /\ BeginStatement(t, mode)
    /\ snap' = AfterStatement(t)
    /\ Outcome(t, IF mode = "RD" THEN "dirty" ELSE "dirtyUpdate", k, snap[t], 0)
    /\ UNCHANGED <<csn, sentVars, pc, iso, acc, cur, todo, tries, tcsn, hist>>

\* RowLookup of a key outside the access set: on to the sentinel.
LookupGlobal(t, k, mode) ==
    /\ acc[t][k].type = "NONE"
    /\ present[k]
    /\ ~dirty[k] \/ RowSet(t) = {}
    /\ BeginStatement(t, mode)
    /\ cur' = [cur EXCEPT ![t] = [key |-> k, mode |-> mode, top |-> chain[k],
                                  spun |-> dirty[k] /\ lock[k] # NoTxn]]
    /\ Goto(t, IF mode = "RD" THEN "read" ELSE "header")
    /\ UNCHANGED <<csn, sentVars, iso, snap, acc, todo, tries, tcsn, hist, last>>

\* Mutant: the reader does not wait for the transaction that holds the lock.
GetVisibleRowVersionNoWait(t) ==
    LET k == cur[t].key IN
    /\ pc[t] = "read"
    /\ Outcome(t, "read", k, snap[t], VisibleCsn(snap[t], chain[k]))
    /\ FinishStatement(t)
    /\ UNCHANGED <<csn, sentVars, iso, acc, todo, tries, ops, tcsn, hist>>

\* PrimarySentinel::GetVisibleRowVersion: spin while the sentinel is locked,
\* until a commit cycle is known to have passed.
GetVisibleRowVersion(t) ==
    LET k == cur[t].key IN
    /\ pc[t] = "read"
    /\ \/ cur[t].spun /\ ~(dirty[k] /\ lock[k] # NoTxn)
       \/ ~cur[t].spun /\ lock[k] = NoTxn
       \/ /\ ~cur[t].spun
          /\ chain[k] # <<>>
          /\ chain[k] # cur[t].top \/ snap[t] < RowCsn(chain[k])
    /\ Outcome(t, "read", k, snap[t], VisibleCsn(snap[t], chain[k]))
    /\ FinishStatement(t)
    /\ UNCHANGED <<csn, sentVars, iso, acc, todo, tries, ops, tcsn, hist>>

\* PrimarySentinel::GetVisiblePrimaryHeader: wait for the inserter, then the key
\* must be committed and older than the snapshot.
GetVisiblePrimaryHeader(t) ==
    LET k == cur[t].key IN
    /\ pc[t] = "header"
    /\ ~(dirty[k] /\ lock[k] # NoTxn)
    /\ IF ~dirty[k] /\ snap[t] > start[k]
       THEN Goto(t, "entry") /\ UNCHANGED <<snap, cur, last>>
       ELSE /\ Outcome(t, "phantom", k, snap[t], 0)
            /\ FinishStatement(t)
    /\ UNCHANGED <<csn, sentVars, iso, acc, todo, tries, ops, tcsn, hist>>

\* GetVisibleRowForUpdate up to its spin loop: the phantom check is repeated and
\* the newest row remembered.
GetVisibleRowForUpdateEntry(t) ==
    LET k == cur[t].key IN
    /\ pc[t] = "entry"
    /\ IF snap[t] > start[k]
       THEN /\ Goto(t, "update")
            /\ cur' = [cur EXCEPT ![t].top = chain[k]]
            /\ UNCHANGED <<snap, todo, last>>
       ELSE IF iso[t] = "RR"
       THEN FailStatement(t) /\ UNCHANGED <<snap, last>>
       ELSE /\ Outcome(t, "phantom", k, snap[t], 0)
            /\ FinishStatement(t)
            /\ UNCHANGED todo
    /\ UNCHANGED <<csn, sentVars, iso, acc, tries, ops, tcsn, hist>>

\* MapRowtoLocalTable, then UpdateRowState for UPDATE and DELETE.
MapRowToLocalTable(t, k, row) ==
    acc' = [acc EXCEPT ![t][k] =
              [type |-> cur[t].mode, upg |-> FALSE, iod |-> FALSE,
               base |-> row, snapshot |-> snap[t]]]

\* Mutant: the newest row is taken while its next version is being published.
StopsSpinningAtOnce(t, k) == TRUE

\* When GetVisibleRowForUpdate leaves its spin loop.
StopsSpinning(t, k) ==
    \/ lock[k] = NoTxn
    \/ chain[k] # cur[t].top
    \/ iso[t] = "RC" /\ wbit[k]
    \/ iso[t] = "RR" /\ snap[t] <= RowCsn(chain[k])

\* Mutant: the last row is updated, whatever the snapshot shows.
NewerThanSnapshotIgnored(t, row) == FALSE

\* GetVisibleRow, REPEATABLE READ: the row was changed after the snapshot.
NewerThanSnapshot(t, row) == iso[t] = "RR" /\ RowCsn(row) >= snap[t]

\* GetVisibleRowForUpdate's spin loop and the checks of GetVisibleRow on the row
\* it returns.
GetVisibleRow(t) ==
    LET k == cur[t].key
        row == chain[k]
    IN
    /\ pc[t] = "update"
    /\ StopsSpinning(t, k)
    /\ IF NewerThanSnapshot(t, row)
       THEN FailStatement(t) /\ UNCHANGED <<acc, snap, last>>
       ELSE /\ IF Deleted(row) THEN UNCHANGED acc ELSE MapRowToLocalTable(t, k, row)
            /\ Outcome(t, "update", k, snap[t], HandedCsn(row))
            /\ FinishStatement(t)
            /\ UNCHANGED todo
    /\ UNCHANGED <<csn, sentVars, iso, tries, ops, tcsn, hist>>

-----------------------------------------------------------------------------
(* INSERT: Index::IndexInsert, then AddInsertToLocalAccess. *)

\* Mutant: a sentinel whose last user is about to remove it is taken.
SentinelUsableAlways(k) == TRUE

\* Sentinel::RefCountUpdate(INC) fails on a count of zero and IndexInsert retries
\* (RC_INDEX_RETRY_INSERT) until the sentinel is gone from the index.
SentinelUsable(k) == refs[k] > 0

\* Mutant: an insert on an existing sentinel does not count.
RefCountIncLost(k) == refs

RefCountInc(k) == [refs EXCEPT ![k] = @ + 1]

IndexInsert(t, k) ==
    /\ BeginStatement(t, "INS")
    /\ IF ~present[k]
       THEN /\ present' = [present EXCEPT ![k] = TRUE]
            /\ refs' = [refs EXCEPT ![k] = 1]
            /\ dirty' = [dirty EXCEPT ![k] = TRUE]
            /\ start' = [start EXCEPT ![k] = 0]
            /\ chain' = [chain EXCEPT ![k] = <<>>]
            /\ Goto(t, "insert")
            /\ cur' = [cur EXCEPT ![t].key = k]
            /\ UNCHANGED todo
       ELSE /\ SentinelUsable(k)
            /\ IF refs[k] > SoftLimit /\ chain[k] # <<>> /\ ~Deleted(chain[k])
               THEN FailStatement(t) /\ refs' = refs
               ELSE /\ refs' = RefCountInc(k)
                    /\ Goto(t, "insert")
                    /\ cur' = [cur EXCEPT ![t].key = k]
                    /\ UNCHANGED todo
            /\ UNCHANGED <<present, dirty, start, chain>>
    /\ UNCHANGED <<csn, lock, wbit, iso, snap, acc, tries, tcsn, hist, last>>

InsertAccess(base, s, upg, iod) ==
    [type |-> "INS", upg |-> upg, iod |-> iod, base |-> base, snapshot |-> s]

\* Unique violation after the sentinel's count was taken: it is given back.
CleanupOptimisticInsert(t, k) ==
    /\ refs' = [refs EXCEPT ![k] = @ - 1]
    /\ todo' = [todo EXCEPT ![t] = InsertSet(t)]
    /\ Goto(t, IF refs'[k] = 0 THEN "abortRemove" ELSE "rollback")
    /\ UNCHANGED <<acc, cur, snap>>

AddInsertToLocalAccess(t) ==
    LET k == cur[t].key
        a == acc[t][k]
        map(ac) == /\ acc' = [acc EXCEPT ![t][k] = ac]
                   /\ FinishStatement(t)
                   /\ UNCHANGED <<refs, todo>>
    IN
    /\ pc[t] = "insert"
    /\ \/ /\ ~dirty[k] /\ a.type = "NONE" /\ Deleted(chain[k])
          /\ map(InsertAccess(chain[k], snap[t], TRUE, TRUE))
       \/ /\ ~dirty[k] /\ a.type = "DEL"
          /\ map([a EXCEPT !.type = "INS", !.upg = TRUE])
       \/ /\ dirty[k] /\ a.type = "NONE"
          /\ map(InsertAccess(<<>>, 0, FALSE, FALSE))
       \/ /\ \/ a.type \notin {"NONE", "DEL"}
             \/ ~dirty[k] /\ a.type = "NONE" /\ ~Deleted(chain[k])
          /\ CleanupOptimisticInsert(t, k)
    /\ UNCHANGED <<csn, present, dirty, lock, wbit, start, chain,
                   iso, tries, ops, tcsn, hist, last>>

\* Index::IndexRemove of a sentinel whose reference count fell to zero.
IndexRemove(t) ==
    /\ pc[t] \in {"filterRemove", "abortRemove"}
    /\ present' = [present EXCEPT ![cur[t].key] = FALSE]
    /\ Goto(t, IF pc[t] = "filterRemove" THEN "active" ELSE "rollback")
    /\ cur' = [cur EXCEPT ![t] = Idle]
    /\ UNCHANGED <<csn, refs, dirty, lock, wbit, start, chain,
                   iso, snap, acc, todo, tries, ops, tcsn, hist, last>>

-----------------------------------------------------------------------------
(* OccTransactionManager: validation. *)

\* Mutant: the row may have been replaced since it was read.
QuickVersionCheckStale(t, k) == acc[t][k].snapshot > start[k]

QuickVersionCheck(t, k) ==
    /\ acc[t][k].snapshot > start[k]
    /\ RowCsn(acc[t][k].base) = RowCsn(chain[k])

\* Mutant: the tombstone an insert builds on may have been replaced.
QuickInsertCheckStale(t, k) == ~acc[t][k].upg => dirty[k]

QuickInsertCheck(t, k) ==
    IF ~acc[t][k].upg THEN dirty[k]
    ELSE /\ acc[t][k].iod => Deleted(chain[k])
         /\ RowCsn(acc[t][k].base) = RowCsn(chain[k])

\* Mutant: inserts are not validated.
QuickHeaderValidationNoInserts(t, k) ==
    acc[t][k].type # "INS" => QuickVersionCheck(t, k)

QuickHeaderValidation(t, k) ==
    IF acc[t][k].type = "INS" THEN QuickInsertCheck(t, k)
    ELSE QuickVersionCheck(t, k)

ValidWriteSet(t) == \A k \in WriteSet(t) : QuickHeaderValidation(t, k)

\* XACT_EVENT_COMMIT / XACT_EVENT_PREPARE: the reads for update are dropped from
\* the access set and the write set is validated once without locks.
PreAbortCheck(t) ==
    /\ pc[t] = "active"
    /\ IF WriteSet(t) = {}
       THEN Goto(t, "release") /\ UNCHANGED todo
       ELSE IF ValidWriteSet(t)
       THEN Goto(t, "lock") /\ todo' = [todo EXCEPT ![t] = WriteSet(t)]
       ELSE Goto(t, "rollback") /\ todo' = [todo EXCEPT ![t] = InsertSet(t)]
    /\ acc' = [acc EXCEPT ![t] = [k \in Key |->
                 IF @[k].type \in WriteTypes THEN @[k] ELSE NoAccess]]
    /\ UNCHANGED <<csn, sentVars, iso, snap, cur, tries, ops, tcsn, hist, last>>

\* One TryLock of LockHeaders and the validation of that sentinel under its lock.
LockHeader(t) ==
    LET k == First(todo[t])
        held == WriteSet(t) \ todo[t]
    IN
    /\ pc[t] = "lock"
    /\ IF lock[k] = NoTxn
       THEN /\ lock' = [lock EXCEPT ![k] = t]
            /\ IF QuickHeaderValidation(t, k)
               THEN /\ todo' = [todo EXCEPT ![t] = @ \ {k}]
                    /\ Goto(t, IF todo[t] = {k} THEN "validate" ELSE "lock")
               ELSE /\ todo' = [todo EXCEPT ![t] = held \cup {k}]
                    /\ Goto(t, "unlockAbort")
       ELSE /\ todo' = [todo EXCEPT ![t] = held]
            /\ Goto(t, "unlockRetry")
            /\ UNCHANGED lock
    /\ UNCHANGED <<csn, present, refs, dirty, wbit, start, chain,
                   iso, snap, acc, cur, tries, ops, tcsn, hist, last>>

\* ReleaseHeaderLocks, one sentinel at a time.
Unlock(t) ==
    LET k == First(todo[t]) IN
    /\ pc[t] \in {"unlockRetry", "unlockAbort", "release"}
    /\ todo[t] # {}
    /\ lock' = [lock EXCEPT ![k] = NoTxn]
    /\ wbit' = [wbit EXCEPT ![k] = FALSE]
    /\ todo' = [todo EXCEPT ![t] = @ \ {k}]
    /\ UNCHANGED <<csn, present, refs, dirty, start, chain, pc,
                   iso, snap, acc, cur, tries, ops, tcsn, hist, last>>

\* A lock round failed: everything was released; validate, then sleep and try
\* again until LOCK_TIME_OUT.
LockBackoff(t) ==
    /\ pc[t] = "unlockRetry"
    /\ todo[t] = {}
    /\ IF ValidWriteSet(t) /\ tries[t] < MaxRetry
       THEN /\ Goto(t, "lock")
            /\ todo' = [todo EXCEPT ![t] = WriteSet(t)]
            /\ tries' = [tries EXCEPT ![t] = @ + 1]
       ELSE /\ Goto(t, "rollback")
            /\ todo' = [todo EXCEPT ![t] = InsertSet(t)]
            /\ UNCHANGED tries
    /\ UNCHANGED <<csn, sentVars, iso, snap, acc, cur, ops, tcsn, hist, last>>

\* ValidateWriteSet, and the memory reservations that may fail after it.
ValidateWriteSet(t) ==
    /\ pc[t] = "validate"
    /\ \/ ValidWriteSet(t) /\ Goto(t, "validated") /\ UNCHANGED todo
       \/ Goto(t, "unlockAbort") /\ todo' = [todo EXCEPT ![t] = WriteSet(t)]
    /\ UNCHANGED <<csn, sentVars, iso, snap, acc, cur, tries, ops, tcsn, hist, last>>

\* Mutant: the abort of a validated transaction forgets its locks.
AbortValidatedLeaks(t) ==
    /\ pc[t] = "validated"
    /\ FailStatement(t)
    /\ UNCHANGED <<csn, sentVars, iso, snap, acc, tries, ops, tcsn, hist, last>>

\* XACT_EVENT_ABORT or ROLLBACK_PREPARED after validation: release the locks.
AbortValidated(t) ==
    /\ pc[t] = "validated"
    /\ Goto(t, "unlockAbort")
    /\ todo' = [todo EXCEPT ![t] = WriteSet(t)]
    /\ UNCHANGED <<csn, sentVars, iso, snap, acc, cur, tries, ops, tcsn, hist, last>>

-----------------------------------------------------------------------------
(* Commit: CSN, WriteChanges, release. *)

\* The versions t puts in front of the row it replaces.
NewVersions(t, k, c) ==
    LET a == acc[t][k] IN
    IF a.type = "INS" /\ a.upg /\ ~a.iod
    THEN <<[csn |-> c, del |-> FALSE], [csn |-> c, del |-> TRUE]>>
    ELSE <<[csn |-> c, del |-> a.type = "DEL"]>>

\* XACT_EVENT_RECORD_COMMIT / COMMIT_PREPARED: draw the CSN.
GetNextCSN(t) ==
    /\ pc[t] = "validated"
    /\ tcsn' = [tcsn EXCEPT ![t] = csn]
    /\ csn' = csn + 1
    /\ hist' = [k \in Key |-> IF k \in WriteSet(t)
                              THEN NewVersions(t, k, csn) \o hist[k] ELSE hist[k]]
    /\ todo' = [todo EXCEPT ![t] = WriteSet(t)]
    /\ Goto(t, "write")
    /\ UNCHANGED <<sentVars, iso, snap, acc, cur, tries, ops, last>>

\* Access::WriteGlobalChanges: an UPDATE or DELETE is published; an upgrading
\* insert moves the start CSN; the row of an insert follows in the second pass.
WriteGlobalChanges(t) ==
    LET k == First(todo[t])
        a == acc[t][k]
    IN
    /\ pc[t] = "write"
    /\ IF a.type = "INS"
       THEN /\ start' = IF a.upg THEN [start EXCEPT ![k] = tcsn[t]] ELSE start
            /\ UNCHANGED <<chain, wbit>>
       ELSE /\ chain' = [chain EXCEPT ![k] = NewVersions(t, k, tcsn[t]) \o a.base]
            /\ wbit' = [wbit EXCEPT ![k] = TRUE]
            /\ UNCHANGED start
    /\ IF todo[t] # {k}
       THEN todo' = [todo EXCEPT ![t] = @ \ {k}] /\ UNCHANGED pc
       ELSE IF InsertSet(t) # {}
       THEN todo' = [todo EXCEPT ![t] = InsertSet(t)] /\ Goto(t, "sentinel")
       ELSE todo' = [todo EXCEPT ![t] = WriteSet(t)] /\ Goto(t, "release")
    /\ UNCHANGED <<csn, present, refs, dirty, lock,
                   iso, snap, acc, cur, tries, ops, tcsn, hist, last>>

\* WriteSentinelChanges: the inserted rows become reachable.
WriteSentinelChanges(t) ==
    LET k == First(todo[t])
        a == acc[t][k]
    IN
    /\ pc[t] = "sentinel"
    /\ start' = IF a.upg THEN start ELSE [start EXCEPT ![k] = tcsn[t]]
    /\ chain' = [chain EXCEPT ![k] = NewVersions(t, k, tcsn[t]) \o a.base]
    /\ wbit' = [wbit EXCEPT ![k] = TRUE]
    /\ dirty' = [dirty EXCEPT ![k] = FALSE]
    /\ IF todo[t] # {k}
       THEN todo' = [todo EXCEPT ![t] = @ \ {k}] /\ UNCHANGED pc
       ELSE todo' = [todo EXCEPT ![t] = WriteSet(t)] /\ Goto(t, "release")
    /\ UNCHANGED <<csn, present, refs, lock,
                   iso, snap, acc, cur, tries, ops, tcsn, hist, last>>

\* TxnManager::Cleanup: the access set, the CSN and the snapshot are reset.
Cleanup(t) ==
    /\ acc' = [acc EXCEPT ![t] = [k \in Key |-> NoAccess]]
    /\ tcsn' = [tcsn EXCEPT ![t] = 0]
    /\ snap' = [snap EXCEPT ![t] = 0]
    /\ cur' = [cur EXCEPT ![t] = Idle]

EndTransaction(t) ==
    /\ pc[t] = "release"
    /\ todo[t] = {}
    /\ Goto(t, "committed")
    /\ Cleanup(t)
    /\ UNCHANGED <<csn, sentVars, iso, todo, tries, ops, hist, last>>

-----------------------------------------------------------------------------
(* Rollback. *)

\* XACT_EVENT_ABORT of a running transaction.
Rollback(t) ==
    /\ pc[t] = "active"
    /\ FailStatement(t)
    /\ UNCHANGED <<csn, sentVars, iso, snap, acc, tries, ops, tcsn, hist, last>>

\* The locks of a failed commit are gone: go on to undo the inserts.
AbortUnlocked(t) ==
    /\ pc[t] = "unlockAbort"
    /\ todo[t] = {}
    /\ FailStatement(t)
    /\ UNCHANGED <<csn, sentVars, iso, snap, acc, tries, ops, tcsn, hist, last>>

\* UndoLocalDMLChanges / RollbackInsert of one insert.
RollbackInsert(t) ==
    LET k == First(todo[t]) IN
    /\ pc[t] = "rollback"
    /\ todo[t] # {}
    /\ refs' = RollbackRefs(t, k)
    /\ acc' = [acc EXCEPT ![t][k] = NoAccess]
    /\ todo' = [todo EXCEPT ![t] = @ \ {k}]
    /\ IF ~acc[t][k].upg /\ refs'[k] = 0
       THEN Goto(t, "abortRemove") /\ cur' = [cur EXCEPT ![t].key = k]
       ELSE UNCHANGED <<pc, cur>>
    /\ UNCHANGED <<csn, present, dirty, lock, wbit, start, chain,
                   iso, snap, tries, ops, tcsn, hist, last>>

EndRollback(t) ==
    /\ pc[t] = "rollback"
    /\ todo[t] = {}
    /\ Goto(t, "aborted")
    /\ Cleanup(t)
    /\ UNCHANGED <<csn, sentVars, iso, todo, tries, ops, hist, last>>

-----------------------------------------------------------------------------
\* What a client decides: to start, to run a statement, to commit or to abort.
Client(t) ==
    \/ StartTransaction(t)
    \/ SetSnapshot(t)
    \/ \E k \in Key, mode \in Modes : \/ LookupLocal(t, k, mode)
                                      \/ LookupNotVisible(t, k, mode)
                                      \/ LookupGlobal(t, k, mode)
    \/ \E k \in Key : IndexInsert(t, k)
    \/ PreAbortCheck(t)
    \/ Rollback(t)

\* What the engine does by itself once it was asked to.
Engine(t) ==
    \/ GetVisibleRowVersion(t)
    \/ GetVisiblePrimaryHeader(t)
    \/ GetVisibleRowForUpdateEntry(t)
    \/ GetVisibleRow(t)
    \/ AddInsertToLocalAccess(t)
    \/ IndexRemove(t)
    \/ LockHeader(t)
    \/ Unlock(t)
    \/ LockBackoff(t)
    \/ ValidateWriteSet(t)
    \/ GetNextCSN(t)
    \/ AbortValidated(t)
    \/ WriteGlobalChanges(t)
    \/ WriteSentinelChanges(t)
    \/ EndTransaction(t)
    \/ AbortUnlocked(t)
    \/ RollbackInsert(t)
    \/ EndRollback(t)

Finished == \A t \in Txn : pc[t] \in {"committed", "aborted"}

Next == \/ \E t \in Txn : Client(t) \/ Engine(t)
        \/ Finished /\ UNCHANGED vars

Spec == Init /\ [][Next]_vars

\* Every session thread keeps running: a step the engine can take is taken.
FairSpec == Spec /\ \A t \in Txn : WF_vars(Engine(t))

-----------------------------------------------------------------------------
(* Properties. *)

\* The sentinels, the CSN counter and the committed history have their types.
SentinelTypeOK ==
    /\ csn \in Nat
    /\ present \in [Key -> BOOLEAN]
    /\ refs \in [Key -> Int]
    /\ dirty \in [Key -> BOOLEAN]
    /\ lock \in [Key -> Txn \cup {NoTxn}]
    /\ wbit \in [Key -> BOOLEAN]
    /\ start \in [Key -> Nat]
    /\ chain \in [Key -> Seq(Version)]
    /\ hist \in [Key -> Seq(Version)]

\* So does what a TxnManager keeps: access set, snapshot, place in the commit.
TxnTypeOK ==
    /\ pc \in [Txn -> PC]
    /\ iso \in [Txn -> Levels]
    /\ snap \in [Txn -> Nat]
    /\ acc \in [Txn -> [Key -> Access]]
    /\ cur \in [Txn -> Lookup]
    /\ todo \in [Txn -> SUBSET Key]
    /\ tries \in [Txn -> Nat]
    /\ ops \in [Txn -> Nat]
    /\ tcsn \in [Txn -> Nat]
    /\ last \in [Txn -> Result]

\* All of the state is well typed: no access type txnStateMachine does not know,
\* no lock word without an owner, no chain that is not made of versions.
TypeOK == SentinelTypeOK /\ TxnTypeOK

\* The sentinels whose lock transaction t holds, from where it is in its commit.
LockSet(t) ==
    CASE pc[t] = "lock" -> WriteSet(t) \ todo[t]
      [] pc[t] \in {"validate", "validated", "write", "sentinel"} -> WriteSet(t)
      [] pc[t] \in {"unlockRetry", "unlockAbort", "release"} -> todo[t]
      [] OTHER -> {}

\* A transaction owns exactly the locks its place in the commit protocol calls
\* for: all of its write set from validation until the last row is published,
\* and none once it has ended, whichever of LockHeaders' exits it took.
LockOwnership ==
    \A t \in Txn, k \in Key : lock[k] = t <=> k \in LockSet(t)

\* The CSN of key k's row in the committed state as of snapshot s, 0 for none: the
\* versions of a history are ordered, so those before s are its last ones.
CommittedCsn(s, k) ==
    LET h == hist[k]
        n == Cardinality({i \in 1..Len(h) : h[i].csn < s})
    IN  IF n = 0 \/ h[Len(h) - n + 1].del THEN 0 ELSE h[Len(h) - n + 1].csn

\* A row read through the version chain (GetVisibleRowVersion) is the newest
\* version committed before the reader's snapshot, whatever commits were half
\* way through publishing their rows when it was read.
SnapshotReads ==
    \A t \in Txn : last[t].kind = "read" =>
        last[t].csn = CommittedCsn(last[t].snap, last[t].key)

\* A REPEATABLE READ transaction that maps a row for update or delete has mapped
\* the version its snapshot shows.
UpdatesSnapshotRow ==
    \A t \in Txn : iso[t] = "RR" /\ last[t].kind = "update" =>
        last[t].csn = CommittedCsn(last[t].snap, last[t].key)

\* The commit that owns key k and has drawn its CSN but not published k yet.
Pending(t, k) ==
    /\ k \in WriteSet(t)
    /\ \/ pc[t] = "write" /\ (k \in todo[t] \/ k \in InsertSet(t))
       \/ pc[t] = "sentinel" /\ k \in todo[t]

\* No lost update: the published chain of a key is its committed history, but
\* for the one commit that is still publishing; no version is overwritten by a
\* commit that had not read it.
ChainIsHistory ==
    \A k \in Key :
        \/ chain[k] = hist[k] /\ \A t \in Txn : ~Pending(t, k)
        \/ \E t \in Txn : /\ Pending(t, k)
                          /\ lock[k] = t
                          /\ hist[k] = NewVersions(t, k, tcsn[t]) \o chain[k]
                          /\ \A u \in Txn \ {t} : ~Pending(u, k)

\* t's insert of key k has not become a committed row yet: it waits for
\* WriteSentinelChanges, or for the rollback that takes it back.
InsertPending(t, k) ==
    /\ acc[t][k].type = "INS"
    /\ pc[t] # "release"
    /\ pc[t] = "sentinel" => k \in todo[t]

PendingInserts(k) ==
    {t \in Txn : InsertPending(t, k) \/ (pc[t] = "insert" /\ cur[t].key = k)}

\* An insert, and only an insert, keeps its sentinel alive: the reference count
\* covers the committed row and the pending inserts of the key, and a sentinel
\* leaves the index only when there are none.
SentinelKept ==
    \A k \in Key :
        /\ refs[k] = 0 => chain[k] = <<>> /\ PendingInserts(k) = {}
        /\ ~present[k] => refs[k] = 0
        /\ refs[k] >= Cardinality(PendingInserts(k)) + (IF dirty[k] THEN 0 ELSE 1)

\* A published version is never unlinked by a later commit: the chain a step
\* leaves has the previous chain as its tail.
VersionsNeverLost ==
    [][\A k \in Key : present[k] /\ present'[k] =>
         \E n \in 0..Len(chain'[k]) :
             chain[k] = SubSeq(chain'[k], n + 1, Len(chain'[k]))]_vars

\* The detailed protocol implements atomic commits under snapshot isolation.
SI == INSTANCE SnapshotIsolation WITH now <- csn, store <- hist
ImplementsSI == SI!AbsSpec

\* A REPEATABLE READ transaction sees one snapshot: every SELECT, also one that
\* returns without looking at the version chain, reports the row committed
\* before the snapshot.  LookupFilterRow breaks it: it answers for a dirty sentinel
\* without waiting for its inserter (README, section 10).
RepeatableReads ==
    \A t \in Txn : iso[t] = "RR" /\ last[t].kind \in {"read", "dirty"} =>
        last[t].csn = CommittedCsn(last[t].snap, last[t].key)

\* An UPDATE or DELETE of a REPEATABLE READ transaction that reports no row,
\* rather than a serialization failure, had no row in its snapshot.  A key that was
\* deleted and inserted again breaks it: GetVisiblePrimaryHeader takes it for a phantom
\* (README, section 10).
UpdateMissesNoRow ==
    \A t \in Txn : iso[t] = "RR" /\ last[t].kind = "phantom" =>
        CommittedCsn(last[t].snap, last[t].key) = 0

\* A statement or a commit that was started comes to an end: readers do not spin
\* for ever on a lock and writers do not retry for ever.
Busy(t) == pc[t] \notin {"idle", "active", "committed", "aborted"}
NoStall == \A t \in Txn : Busy(t) ~> ~Busy(t)

=============================================================================
