# Formal models of the openGauss storage core

openGauss is a relational DBMS (a PostgreSQL fork, threads instead of
processes). This project models the protocols on which its storage depends and
that are its own work rather than PostgreSQL's:

- **MOT**, the in-memory, multi-version, optimistic engine in
  `src/src/gausskernel/storage/mot`: commits and snapshots (`MotOcc`,
  `SnapshotIsolation`), the checkpoint that runs beside the commits
  (`MotCheckpoint`), the epoch based garbage collector (`MotGc`);
- the **incremental checkpoint** of the disk engine: the lock-free queue of
  dirty pages between backends, page writers and checkpointer (`DirtyPageQueue`);
- the **LWLock**, whose word openGauss has split into bytes so that shared
  lockers do not collide (`LwLock`); the content locks of buffers are LWLocks.

Paths below are relative to `src/src/gausskernel/storage/mot` (MOT parts) or to
`src/src/gausskernel` unless they start with `src/`; a file name with a line is
unique in the part it is about.

## 1. Inventory

| part | state | operations | hard because of |
|---|---|---|---|
| OCC (`core/concurrency_control`) | write-set sizes, `m_rowsLocked` | `ValidateOcc`, `LockHeaders`, `WriteChanges`, `ReleaseHeaderLocks` | partial locking, stale reads, publication in several steps |
| sentinels (`core/storage/sentinel`) | status word (dirty, lock, write bits, row pointer), start/end CSN, reference count, stable row | `GetVisibleRowVersion`, `GetVisibleRowForUpdate`, `GetVisiblePrimaryHeader`, `RefCountUpdate` | lock-free reads racing a commit |
| transactions (`core/system/transaction`) | snapshot CSN, commit CSN, ordered access set, drafts | `RowLookup`, `InsertRow`, `ValidateCommit`, `RecordCommit`, `Prepare`, `CommitPrepared`, `Rollback` | many exits, each with its own undo |
| CSN manager (`core/system/common/csn_manager.h`) | one counter | `GetNextCSN`, `GetCurrentCSN` | order of draw and publication |
| indexes (`core/storage/index`) | masstree of sentinels | `IndexInsert`, `IndexRemove` | insert against removal of the same key |
| checkpoint (`core/system/checkpoint`) | phase, commit counters, available bit, task queue | `CreateSnapShot`, `SnapshotReady`, `BeginCheckpoint`, `BeginCommit`, `EndCommit`, `ApplyWrite` | phases against running commits, crashes |
| garbage collector (`core/memory/garbage_collector`, callbacks in `core/storage/row.h`) | epoch of each session, global minimum, limbo queues, shared counts of sentinels | `GcStartTxn`, `GcEndTxn`, `GcRecordObject`, `RunQuicese`, `GcCleanAll`, `DeleteRowDtor`, `RowVersionDtor` | reclaiming what a reader still reaches; several sessions clean one sentinel |
| redo log and recovery (`core/system/transaction_logger`, `core/system/recovery`) | log buffers, in-process transactions | write, replay, group commit | crash points, replay order |
| FDW adapter (`fdw_adapter`) | callbacks of the kernel's transaction manager | `MOTXactCallback` | order of the callbacks |
| LWLock (`storage/lmgr/lwlock.cpp`) | 64 bit word (flags, six count bytes), wait list, a semaphore per thread | `LWLockAcquire`, `LWLockConditionalAcquire`, `LWLockAcquireOrWait`, `LWLockDowngrade`, `LWLockRelease` | byte-wise against word-wise swaps, lost wake-ups, a semaphore shared with others |
| dirty page queue (`process/postmaster/pagewriter.cpp`, `storage/buffer/bufmgr.cpp`) | ring of slots, head, tail and recovery LSN; per buffer flags, `rec_lsn`, `dirty_queue_loc` | `MarkBufferDirty`, `push_pending_flush_queue`, `FlushBuffer`, `TerminateBufferIO`, `ckpt_move_queue_head`, `ckpt_try_prune_dirty_page_queue` | scans without locks, a ring that fills up, back pressure with content locks held |
| checkpointer (`storage/access/transam/xlog.cpp`) | redo point, `full_ckpt_expected_flush_loc` | `CreateCheckPoint`, `ckpt_get_min_rec_lsn`, `CheckPointBuffers` | the redo point must cover what is dirtied while it is chosen |

Interaction. A client thread runs statements and the commit protocol of its own
transaction; in MOT threads meet only in the sentinels, in the CSN counter, in
the index, in the published epochs and in the checkpoint manager's counters. The
kernel drives a commit through `MOTXactCallback` (`XACT_EVENT_COMMIT` validates
and locks, `RECORD_COMMIT` draws the CSN and publishes, `END_TRANSACTION`
releases, `ABORT`/`ROLLBACK_PREPARED` undo) and MOT's checkpoint through the
callbacks of `CreateCheckPoint`, the function that also chooses the redo point
from the dirty page queue. Backends put pages into the queue under content
locks (LWLocks), page writers take them out, and a queue that fills up makes
backends wait.

What makes it correct: a reader sees exactly the state committed before its
snapshot; a commit is atomic and overwrites only what the transaction read; a
sentinel stays in the index while an insert needs it; every lock is released;
nobody waits for ever; a checkpoint plus the log gives back the committed state,
in memory and on disk; nothing reachable is reclaimed; an exclusive lock
excludes and a release wakes.

The rest of openGauss is listed in `PROJECT.json` with the reason it is not
modelled; see also section 11.

## 2. Plan

| | module | status |
|---|---|---|
| 1 | `MotOcc`, `SnapshotIsolation`; `MotOccProofs`, `MotOccHistoryProofs`, `MotOccSnapshotProofs` | done; every safety property and the refinement proved |
| 2 | `MotCheckpoint`; `MotCheckpointPhaseProofs`, `MotCheckpointDataProofs` | done; every safety property of the passing runs proved (the image without failed commits) |
| 3 | `MotGc`, `MotGcProofs` | done; every safety property the code keeps proved |
| 4 | `LwLock`, `LwLockProofs` | done; every safety property proved |
| 5 | `DirtyPageQueue`, `DirtyPageQueueProofs` | done; order, queueing, types and the redo point proved |
| 6 | parallel replay of MOT, synchronous replication waits, session lists of the thread pool, undo | left |

## 3. MotOcc

### State

| variable | code |
|---|---|
| `csn` | `CSNManager::m_csn` |
| `present`, `refs` | the key's sentinel is in the index; `Sentinel::m_refCount` |
| `dirty`, `lock`, `wbit` | bits of `Sentinel::m_status` (the owner of the lock is added) |
| `start`, `chain` | `m_startCSN`; `GetData()` with the versions behind it, newest first |
| `pc`, `todo`, `cur`, `tries` | where a session thread is: the loop it runs, the lookup in progress, lock rounds |
| `iso`, `snap`, `tcsn` | `m_isolationLevel`, `m_visibleCSN`, `m_csn` of the `TxnManager` |
| `acc` | `TxnAccess::m_rowsSet`: type, upgrade and insert-on-deleted flags, `m_globalRow`, `m_snapshot` |
| `hist`, `last` | history variables: the committed versions in CSN order; what the last SELECT or UPDATE reported |

A `Row*` is the version chain that starts at the row: two pointers are equal
exactly when the chains are. Row contents, key encoding and column bitmaps are
left out: no guard depends on them.

### Actions

One action is what a thread does between two accesses to shared sentinels: a
reader's snapshot, its look at the access set, each spin loop (a guard: the loop
exit condition), each try-lock with the validation under that lock, each unlock,
the CSN draw, the publication of each row. The loops over the ordered access set
visit the keys in order, one step each, so all other threads interleave inside
them. `validated` also stands for a transaction between PREPARE and COMMIT
PREPARED (`Prepare` is `ValidateOcc`; `CommitPrepared` draws the CSN and
publishes; `RollbackPrepared` is `AbortValidated`).

Merged on purpose, with the reason:

- `PreAbortCheck` and `ValidateWriteSet` look at all sentinels in one step: the
  first is only an early exit, repeated under the locks; the second runs while
  every sentinel it looks at is locked by the transaction.
- The new row pointer, the write bit and (for an insert) the start CSN and the
  dirty bit of one sentinel change in one step: readers act on them only through
  the chain, the lock and the dirty bit, and all are written while the lock is
  held.
- `GetVisibleRowVersion` notes at its beginning whether the sentinel is dirty
  and locked; a sentinel locked between that and the first test of the loop
  leaves both of its loops under the same condition.
- A key has one sentinel at a time. A reader that still holds a removed sentinel
  gets no row, which is right: a new sentinel of the key commits after its
  snapshot.

Bounds (named constants): `MaxOps` statements per transaction, `MaxRetry` lock
rounds (`LOCK_TIME_OUT` doublings of `sleepTime`), `SoftLimit` for
`IsCounterReachedSoftLimit` (16 in the code). A transaction runs once.

Not in this module: secondary indexes, DDL, sub-transactions, recovery mode (it
retries for ever and resolves conflicts), the blocking lock mode
(`m_validationNoWait` off), reclamation of old versions, checkpoint hooks,
memory exhaustion other than in the reservations after validation.

### Properties

- `SnapshotReads`: a row read through the chain is the newest one committed
  before the snapshot, although commits draw the CSN first and publish later.
- `UpdatesSnapshotRow`: a REPEATABLE READ update maps the version its snapshot
  shows.
- `ChainIsHistory`: no lost update; the chain of a key is its committed history,
  but for one commit that owns the lock and is still publishing.
- `SentinelKept`: reference counts cover the committed row and the inserts that
  are yet to be published (`InsertPending`), and only a sentinel without any
  leaves the index.
- `LockOwnership`: exactly the locks the place in the protocol calls for.
- `VersionsNeverLost` (action property): a step only adds versions in front.
- `ImplementsSI`: `MotOcc` implements `SnapshotIsolation`, where a transaction
  commits all its writes in one step; `hist` and `csn` are its store and clock.
- `NoStall` (liveness): a statement or a commit that was started ends. Outside it:
  the retry of `IndexInsert` on a sentinel that is being removed, which waits for
  the remover, and a prepared transaction that is never decided (section 8, fairness).
- `RepeatableReads`, `UpdateMissesNoRow`: what the documentation says of
  REPEATABLE READ; the code does not do it (section 10).

`SnapshotReads` and `UpdatesSnapshotRow` are stated with `CommittedCsn`, which
is defined on the history and not with the engine's own `GetRowFromChain`.

## 4. MotCheckpoint

### State

| variable | code |
|---|---|
| `phase`, `cntBit`, `counters`, `avail` | `m_phase`, `m_cntBit`, `m_counters`, `m_availableBit` of `CheckpointManager` |
| `redoLock`, `recLock`, `walHeld` | the writer's side of `RedoLogHandler::m_redo_lock`; `MTLSRecoveryManager::m_lock`; WAL inserts suspended by the kernel |
| `cp`, `todo`, `errorSet`, `lsn`, `id` | where the checkpointer thread is; rows the workers have not visited; `m_errorSet`, `m_lsn`, `m_inProgressId` |
| `dirs`, `ctl` | on disk: checkpoint directories (rows written, end file) and the control file |
| `log` | the redo log |
| `main`, `status`, `stable`, `preAlloc`, `owner` | a primary sentinel: newest row, `STABLE_BIT`, stable row, `PRE_ALLOC_BIT`, lock |
| `pc`, `tphase`, `nabit`, `ops`, `rec`, `seen` | a session: step, `m_checkpointPhase`, `m_checkpointNABit`, write set, its newest log record, `current_phase` of `EndCommit` |

A version of a row is the position of its commit record in the log. What a
recovery rebuilds (`Recovered`) is read off `ctl`, `dirs` and `log`, so the
invariant `Recoverable` speaks of a crash in every state, also between the end
file, the control file and the removal of old directories.

### Actions

The checkpointer thread: `CreateSnapShot` (REST to PREPARE, or through it),
`EnterCapture`, `SnapshotReady`, `BeginCheckpoint`, `Checkpoint(k)` (a worker on
one row), `EndCapture`, `CreateEndFile`, `UpdateControlFile`,
`RemoveOldCheckpoints`, `EnterRest`; `Abort`, `AbortToComplete`, `AbortToRest`.
A session: `BeginCommit`, `ValidateOcc`, then `RedoCommit` or `Prepare` followed
by `CommitPrepared` or `RollbackPrepared`, `WriteChanges`, `EndCommit`,
`TestPhase` and `CompletePhase` (the three parts of `EndCommit` between which it
holds no lock), `EndTransaction`; and the failures `ValidateOccFails`,
`ReserveGcMemoryFails`, `PrepareFails`, `RollbackValidated`.

Merged on purpose, with the reason:

- Locking of the write set and the pre-allocation of stable rows: both concern
  only the worker, which waits for a locked row. The lock protocol is `MotOcc`.
- `ApplyWrite` on all rows and their publication: the rows are locked.
- Waiting for the previous phase, taking the write lock and moving on: outside
  PREPARE the counter of the previous phase only falls.
- The CSN and the redo record: versions are log positions.
- The kernel's suspension of WAL inserts is a step of its own only in `Abort`;
  before `SnapshotReady` the redo lock holds the same sessions back.
- An I/O error of the checkpointer is a PANIC, that is a crash, which
  `Recoverable` covers. The control file is rewritten in place by one small write
  and is taken to be atomic.

Bounds: `MaxCommits`, `MaxCheckpoints`, `MaxAborts`, `MaxFailures`.

`Spec` lets a session be held up anywhere. `PromptSpec` adds an assumption that the
code does not enforce, `Prompt`: the checkpoint does not return to REST while a session
is in `EndCommit` after it left its counter and before it has the write lock (a
checkpoint takes seconds, the window a few instructions). The passing runs and the
theorems are about `PromptSpec`; `ckpt_sleeper` shows what the sleeper does under
`Spec`.

Not in this module: checkpoints on a standby, table tasks and file segments, the
in-process transactions file, removal of tombstones by the garbage collector
(a tombstone stays, which the worker treats as an absent row).

### Properties

- `CountersMatch`, `CutOff`: the two zigzag counters are exact, and no commit
  outlives the phase after its own; hence all commits of CAPTURE are after the
  redo point and all others before it.
- `CheckpointIsSnapshot`: the finished files are the committed rows at the redo
  point, although rows were changed, deleted and inserted meanwhile.
- `Recoverable`: a crash anywhere loses nothing, two-phase commits included.
- `RowsReset`: outside a capture no stable copy is left and every row is marked
  "not captured" in the current meaning of the bit, unless the checkpoint has ended
  in a PANIC.
- `RedoPointBetweenCommits`: the redo lock is held exactly while the kernel chooses the
  redo point, and then no commit is between its record and its rows.
- `PhaseSafety`: `CountersMatch`, `CutOff` and `RedoPointBetweenCommits` when a
  checkpoint is aborted and (in the proof) a commit fails half-way.
- `CheckpointEnds`, `CommitEnds` (liveness): they wait for each other, and end, unless
  an abort is in the way. `AbortBlocks` says how it can be: the kernel is in `Abort` with
  WAL inserts suspended, or the recovery manager is still locked (section 10).
- `RestBetweenCheckpoints`, `NoCalcError`: violated, each in a run of its own.
- `InsertsGoOn`: violated (section 10).

## 5. MotGc

One key of the primary index, with a small pool of sentinel objects, so that a
sentinel that is freed too early is met again as another one. Keys meet only in
the epochs, which is why one key is enough.

### State

| variable | code |
|---|---|
| `csn`, `active`, `glock` | the next CSN (the global epoch), `g_gcActiveEpoch`, `g_gcGlobalEpochLock` |
| `index`, `used` | the sentinel of the key in the index; sentinels that are not in the pool |
| `refs`, `gcRefs`, `minCsn` | `Sentinel::m_refCount`; `m_refCount` and `m_minCsn` of its `GcSharedInfo` |
| `rows`, `tombs` | the version chain, each row named by its commit CSN; which rows are tombstones |
| `epoch`, `limbo`, `dels` | `m_gcEpoch`, the limbo queues and `m_deleteVector` of a session's `GcManager` |
| `pc`, `snap`, `held`, `op`, `mine` | the transaction of the session |
| `closing`, `que`, `perform`, `fresh`, `scan`, `cur` | the clean-up it runs: queue, `m_performGcEpoch`, `m_isThresholdReached`, progress of `MinActiveEpoch`, element being destroyed |
| `hist` | history variable: all rows committed since the sentinel was allocated |

### Actions

A transaction: `TakeSnapshot`, `FindRow`, `GcStartTxn`, `NextStatement`,
`GcEndStatement`, `Write`, `InsertNew`, `InsertOnSentinel`, `Commit`,
`GcMaintenance`, `Rollback`. The collector: `RunQuicese`, `GcCleanAll`,
`NextQueue`, `SetActiveEpoch`, `VisitManager` (one session of the scan per step),
`PublishMinimum`, `SetPerformGcEpoch`, `CleanElement` and then `Dtor` or
`SkipDtor`, `RegisterDeletedSentinels`, `LeaveQueue`, `AddToGcList`,
`RemoveFromGcList`.

Merged on purpose: the CSN draw and the publication of the row (readers wait for
the lock, `MotOcc`). Nondeterministic: the failure of the try-lock on the global
epoch, the limits that start a clean-up and how many elements one takes.
`Delays` names the windows in which a thread may be held up while others run:
`"epoch"` between the kernel's snapshot and `GcStartTxn`, `"dtor"` inside a
callback after its decrement. A window that is not named runs without interruption
(`MayStep`), which is an assumption about scheduling and not something the code
ensures; `gc_epoch` and section 10 show what the delays do. Outside the windows every
step interleaves.

Not in this module: the queue of index columns and secondary indexes, drop and
truncate, elements of the checkpoint worker, a delete of a row with a stable copy
(`GcMaintenance` leaves it to the checkpoint), memory of the limbo groups, a
delete and re-insert in one transaction, an insert that counts itself in and then
finds a live row. That `GcCleanAll` ends is not stated.

### Properties

- `EpochBarrier`: the minimum never passes the epoch of a session in a
  transaction, however its computation interleaves with sessions that start, end
  and clean.
- `VisibleRowKept`: neither the sentinel a transaction found nor the row its
  snapshot shows is reclaimed.
- `GcCountExact`: the shared count of a sentinel is the number of places in the
  limbo queues and delete vectors of all sessions that refer to it
  (`Places(Lists, x)`), and is not zero once the sentinel is out of the index.
- `CountCovers`: the reference count covers inserts under way, the live row and
  the tombstones that are yet to be counted off.
- `LimboRowLive`: an element that was not overtaken finds its row.
- `RollbackFindsDirty`: the branch marked "We can never reach here" is not reached.
- `TombstoneHasOwner`, `DtorOwnsSentinel`: stated, and not kept by the code
  (section 10).

## 6. LwLock

One lock and the threads that use it. Every atomic operation on the word is a
step; a section under the spin bit of the wait list neither reads nor writes
the holders and is one step.

### State

| variable | code |
|---|---|
| `ex`, `shared` | the exclusive bit and the count of each of the bytes |
| `hasW`, `relOk`, `queue` | `LW_FLAG_HAS_WAITERS`, `LW_FLAG_RELEASE_OK`, `LWLock::waiters` |
| `pc`, `call`, `mode`, `old`, `hold` | a thread: step, function, mode, byte read before the swap, mode held |
| `waiting`, `wmode`, `wake`, `post` | `lwWaiting`, `lwWaitMode`; the local list of `LWLockWakeup` and the semaphore it is about to post |
| `sem`, `extra`, `foreign` | the semaphore, `extraWaits`, posts by other parts of the server |

### Actions

`Attempt` and `SwapByte` (the look at the word and the swap of a byte are two
steps for a shared locker, one for an exclusive one, which swaps what it looked
at), `LWLockQueueSelf`, the second attempt, `LWLockDequeueSelf` with
`UndoReleaseOk`, `Absorb` and `FinishUndo`, `Sleep`, `Retry`, `WasFreed` (the end of
`LWLockAcquireOrWait`), `LWLockRelease`, `DowngradeAdd` and `DowngradeSub`,
`LWLockWakeup`, `Unlink`, `Post`, `WakeupDone`; `ForeignPost` is external.

Not in this module: `LWLockAcquireTimeout` (section 10), `LWLockWaitForVar`,
`LWLockUpdateVar` and `LWLockReleaseClearVar` (no callers), deadlock victims,
`LWLockOwn`/`LWLockDisown`, `LWLockReset`.

### Properties

- `MutualExclusion`, `CountsExact`: proved, section 9.
- `WaitListSound`: a thread is in one list at most, as often as `lwWaiting` says,
  and a list that is not empty is announced in the word.
- `SemaphoreBalanced`: a call gives back every wake-up that was not meant for it
  and leaves none of its own.
- `WokenIfFree` (liveness): a thread sleeps for ever only if the lock is, from
  some time on, never free.

## 7. DirtyPageQueue

### State

| variable | code |
|---|---|
| `wal`, `held` | records in the WAL; inserts are suspended |
| `reclsn`, `tail`, `head`, `slot` | `dirty_page_queue_reclsn`, `_tail` (one 128 bit word with it), `_head`; the ring: buffer and `SLOT_VALID` |
| `dirty`, `just`, `recLsn`, `loc` | of a buffer: `BM_DIRTY`, `BM_JUST_DIRTIED`, `rec_lsn`, `dirty_queue_loc` |
| `pend` | a slot taken and not yet filled, under the header lock of the buffer |
| `memory`, `unsynced` | of the page: oldest record whose change is not written, not forced to disk |
| `lock`, `io`, `waitFor` | content lock, progress of `FlushBuffer`, `backend_wait_lock` |
| `pc`, `want`, `start`, `hints` | backends |
| `mpc`, `pr` | main thread of the page writer; packing of the queue |
| `cpc`, `target`, `scan`, `found`, `expected`, `redo`, `ckpts` | checkpointer: step, the queue scan in progress, `full_ckpt_expected_flush_loc`, the redo point |
| `panic` | the PANIC that stopped the server |

### Actions

A backend: `Begin`, `LockBuffer`, `UpdateWaitLockid`, `Push`, `FillPushed`,
`XLogInsert`, `UpdateRecLsn`; and `MarkBufferDirtyHint`, `FillHint`,
`InvalidateBuffer`. A page writer thread: `FlushStart`, `FlushEnd`, `Repush`,
`FillRepushed`. The main thread: `MoveHead`, `Select`, `EndFlush`, `PruneFind`,
`PruneMove`. The checkpointer: `Start`, `ReadTail`, `WriteExpected`, `EndWait`,
`Decide`, `ReadQueueRecLsn`, `ScanSlot`, `ScanRecLsn`, `ScanAgain`, `SetRedo`.

Merged on purpose, with the reason:

- Filling a slot is one step: readers test `SLOT_VALID` first, which is written
  last. Taking it and filling it are two.
- The test for a full queue and the taking of the slot: the reserve of two slots
  is for exactly the pushes that pass the test together.
- The head and the clearing of the slots behind it: a slot is used again only
  after a whole round, which the reserve prevents.
- The batch of a page writer is "any dirty page while threads run"; the order of
  a batch does not matter to the queue. Packing is also possible then
  (`pagewriter.cpp:737`).
- The scan of `ckpt_try_prune_dirty_page_queue` with the comparison and the raise
  of `full_ckpt_expected_flush_loc`; moving the pages is one step each.
- Waiting and `fsync` of a full checkpoint (`EndWait`).
- The insertion of a group of WAL records raises `reclsn` once for the group, as
  one record does.

The choice of a batch (`Select`) does not exclude packing: slots may be emptied
between the test for packing and the batch.

`MarkBufferDirty` on a page that is in the queue and not being written changes
nothing. Full checkpoints are those for shutdown, end of recovery or forced ones;
in all of these `expected` is set.

`Spec` lets the queue be packed at any time. `ApartSpec` adds an assumption that the
code does not enforce, `Apart`: no packing during a full checkpoint. The passing run
is about `ApartSpec` because of `dpq_prune`, which is about `Spec`.

Coarser than the code, and harmless to the properties here: a packing takes all the
pages and slots it finds, not at most as many as the caps of `pagewriter.cpp:1945-1950`;
a hint setter that waits for room holds no shared content lock in the model; a change
counts as written when the write starts (`FlushStart`), while `FlushBuffer` writes
later, but only a sync after the end of the write makes it durable in the code and
`EndWait` comes after that; `update_wait_lockid` is modelled with double write on only
(`bufmgr.cpp:6456`), so `NobodyStuck` says nothing of a server without it.

Not in this module: the rule that WAL is flushed before pages, double write, the
shared-storage paths (DMS, DSS), standby and restart points, segment buffers,
candidate lists.

### Properties

- `RedoCovers`: a change that is not on disk has its record at or after the redo
  point.
- `QueueOrdered`: recovery LSNs rise from the head to the tail, which is why
  `ckpt_get_min_rec_lsn` may stop at the first page.
- `DirtyQueued`: a dirty buffer is in a valid slot and knows which.
- `NoRedoPanic`: the redo point never falls back, a full checkpoint misses no page and
  packing overwrites none; the code PANICs in each case.
- `RepushFindsRoom`: the fourth PANIC, a page that cannot be put back; reachable
  (section 10).
- `NobodyStuck`: while a backend wants room, somebody can go on; the content
  locks and the queue never form a circle. (A state predicate with `ENABLED`,
  checked instead of liveness.)

## 8. Runs

| run | instance | result |
|---|---|---|
| `occ_two` | 2 transactions, RC and RR, 2 keys, 1 row, all statements, 2 each | type and all safety invariants; 651 000 states |
| `occ_refine` | 2 RR transactions, 2 keys | refinement of `SnapshotIsolation`, `VersionsNeverLost`, `NoStall` under `FairSpec` |
| `ckpt_safety` | 2 sessions, 2 rows, 2 commits, 2 checkpoints, one commit may fail late | type and all safety invariants; 1 529 000 states |
| `ckpt_abort` | 1 row, 2 commits, 2 checkpoints, one may be aborted | `PhaseSafety`, and liveness under `FairSpec`; 416 000 states |
| `ckpt_abort_image` | 1 row, 3 commits, 2 checkpoints, one aborted | violates `Recoverable` |
| `ckpt_sleeper` | 1 row, 3 commits, 1 checkpoint, `Spec` | violates `RestBetweenCheckpoints` |
| `ckpt_calc_error` | 1 row, 2 commits, one of which fails late, 1 checkpoint | violates `NoCalcError` |
| `gc_safety` | 2 sessions, 2 sentinels, CSNs up to 4 | type and all safety invariants; 712 000 states |
| `gc_epoch` | the same with a delay in the window `"epoch"` | violates `VisibleRowKept` |
| `lwlock` | 3 threads on 2 bytes, one holder per byte, 1 foreign post | all properties, `WokenIfFree` under `FairSpec`; 381 000 states |
| `dpq` | 2 backends, 2 pages, ring of 7, 2 records, 1 hint, 2 checkpoints, full or asked for | type and all safety invariants; 2 110 000 states |
| `dpq_prune` | 1 full checkpoint, `Spec` | violates `RedoCovers` |

Why the bounds suffice. *MotOcc*: two keys give partial locking and a commit
that is half published; two transactions every pairwise race; two statements let a
transaction delete and re-insert, or look twice at one key. More transactions (the
races of a delete, a re-insert and a reader) are left to the theorems, which hold for
any number. *MotCheckpoint*: rows meet only
in the write set of a commit, so two suffice; the second checkpoint is what the
exchanged counters and the exchanged meaning of the bit need. A failed commit is in
`ckpt_safety`: what it leaves behind may stop a checkpoint (`ckpt_calc_error`), but
never gets into an image that is completed. *MotGc*: a
sentinel's life (insert, delete, re-insert or reclaim) takes three commits, two
sessions clean it in either order; with CSNs up to 5 (6 480 000 states) the
invariants hold too. *LwLock*: a holder, a sleeper and a third thread that
queues, leaves or is woken in between; two threads that share a byte and one that
does not; a cap of 1 makes the byte full. *DirtyPageQueue*: two pages are out of
order as soon as one is flushed and dirtied again; a soft limit of 3 is reached. At most
five slots of the seven are taken, so no position goes round the ring in `dpq`. Order and
queueing are proved for rings of any size that go round as often as they like, and
`DirtyPageQueue_wrap.cfg` checks them with a ring of five and up to ten pushes
(1 600 000 states); the redo point is proved as long as no walk is lapped. Timed
checkpoints differ from those asked for in one assignment; `DirtyPageQueue_timed.cfg`
checks the invariants of `dpq` with both (1 325 000 states).

Symmetry is used in the invariant runs whose threads are interchangeable, never
with a temporal property. The checkpoint runs and `dpq` do not check for
deadlock: commits, records and checkpoints of an instance are used up and a PANIC
ends the program; where threads could wait for each other there is a property
(`CheckpointEnds`, `CommitEnds`, `NobodyStuck`).

Fairness. `FairSpec` of `MotOcc` gives every session thread weak fairness on the
steps the engine takes by itself: a thread that can run is scheduled. Nothing is
assumed of clients, but that a prepared transaction is resolved, since readers of
its rows wait for it without bound. In `MotCheckpoint` the checkpointer with its
worker and every session that has begun a commit are scheduled; commits and
checkpoints need not begin, failures and aborts need not happen. In `LwLock`
every thread takes its own steps, the release of a lock it holds among them;
nobody need ask for the lock. `FairSpec` of `MotCheckpoint` is on top of `PromptSpec`:
the session it waits for is itself scheduled.

Every property of a passing run has a mutant in its module (definitions commented
`Mutant:`), a plausible slip in the code that breaks it.

Findings, each with its run:

- `ckpt_abort_image`: `CheckpointManager::Abort` passes through REST and so
  exchanges the meaning of the status bit, with no row visited. The next
  checkpoint takes all rows for captured and leaves them out.
- `gc_epoch`: a session looks a sentinel up, and the kernel takes its snapshot,
  before `SetSnapshot` publishes the epoch that protects both.
- `ckpt_sleeper`: `EndCommit` (`checkpoint_manager.cpp:342`) compares the phase it read
  with the phase under the write lock. A session that is held up for the rest of a
  checkpoint finds the same value again and moves REST on with no checkpoint running;
  commits then wait for a checkpoint that does not run. The same session can move the
  PREPARE of the next checkpoint on while commits of REST are still counted, so under
  `Spec` it breaks `CountersMatch` and `CutOff` too (4 commits, 2 checkpoints).
- `ckpt_calc_error`: neither the failure of `ReserveGcMemory`
  (`occ_transaction_manager.cpp:362`) nor `RollbackInternal(false)` frees pre-allocated
  stable rows; the worker meets its "should not happen!" (`checkpoint_worker.cpp:203`)
  and the checkpoint fails.
- `dpq_prune`: packing raises `full_ckpt_expected_flush_loc` only if the last
  emptied slot is beyond it; when the two are equal a page is moved to the slot
  the checkpoint waits up to, and is not waited for. With `>=` instead the
  violation stays, since `xlog.cpp:12480` overwrites a raise; with both mended
  `RedoCovers` holds (1 258 000 states). Recovery may still find the page in the double
  write file (`double_write.cpp:657`); the redo point is wrong either way.

## 9. Proofs

### MotOccProofs

For all sets of transactions and keys and all bounds, from `ConstantsAssumption`:

- `TypeCorrect`: `Spec => []TypeOK`;
- `LockSafety`: `Spec => []LockOwnership`.

Neither is inductive. The inductive invariant is
`Inv == TypeOK /\ CurInv /\ TodoInv /\ LockOwnership`: `TodoInv` says what the
loop a transaction is in has left to visit (a lock round or a publication has a
non-empty rest that is part of the write set, a running statement has none),
which ties the locks taken so far to the write set; `CurInv` says that a
statement in progress has a key and a mode. A step of `t` updates only `t`'s
entries (`TxnStep`, one lemma per action), hence for every other transaction
`Inv` depends on the step only through the lock words (`OthersKeep`); these
change only in `LockHeader`, which takes a free lock, and `Unlock`, which by
`LockOwnership` releases an own one.

### MotOccHistoryProofs

For all sets of transactions and keys and all bounds, under `Spec` alone:

- `NoLostUpdate`: `Spec => []ChainIsHistory`;
- `NoSentinelLost`: `Spec => []SentinelKept`;
- `NothingUnlinked`: `Spec => VersionsNeverLost`, an action property.

The inductive invariant `HistInv` adds to `Inv`:

- `RowsInv`: the chain of a key is its history, or the history without the
  versions of the one transaction that is still publishing; both are ordered by
  CSN, and all CSNs are before the next one;
- `AccessesInv`: the row a write was drafted on was committed, is not after the
  published one, and is that one if the CSNs agree. This is what makes the CSN
  comparison of `ValidateOcc` enough;
- `CommitsInv`: from validation to publication the drafted base *is* the
  published row, since the lock is held all the while;
- `RefsInv`: the count of a sentinel is at least the number of pending inserts,
  of statements that are inserting and of the committed row; whoever removes the
  sentinel is alone and finds the count 0;
- `StatementsInv`, `ReadersInv`: what a statement in progress has found, and that
  a reader that has seen a row change does not need a commit still publishing.

`SentinelKept` was too strong as first stated: it also counted an insert that had
been published while its commit had others to publish, and a delete by another
transaction then takes the reference the property asked for. TLC finds the trace
once the instance starts without the rows (two inserts by one commit).
`InsertPending` says what the code needs, and `occ_two` starts from the
key that shows the difference.

### MotOccSnapshotProofs

Under `Spec` alone, from `HistInv`:

- `RefinesSnapshotIsolation`: `Spec => ImplementsSI`;
- `ReadsAreSnapshots`, `UpdatesAreSnapshots`: `SnapshotReads`,
  `UpdatesSnapshotRow`.

The refinement has one step per action: `GetNextCSN` maps to `Commit` of the write
set, whose condition (nothing committed on those keys after the transaction's
snapshot) is `AccessesInv` with `CommitsInv` for a REPEATABLE READ transaction; the
steps that take or drop a snapshot map to `TakeSnapshot` and `DropSnapshot`; the
others stutter. `DraftsInv` (only an insert
builds on a tombstone) makes the new versions those of the abstract step.
`LastsInv` remembers what the last statement returned; it stays true because a
commit draws a CSN that is not before any snapshot (`CommitKeepsSnapshot`).

### MotCheckpointPhaseProofs

For any number of sessions, rows, commits, aborts and failures:

- `CountersAreExact`, `CutOffHolds`, `PhasesAreSafe`: `CountersMatch`, `CutOff`,
  `PhaseSafety`, from `PromptSpec`.

`PromptSpec` leaves out the session that is held up in `EndCommit`, after it left its
counter and before it has the write lock, until the checkpoint is back in REST
(`ckpt_sleeper`). With it `CountersMatch` and `CutOff` are false, so the hypothesis
cannot be dropped. The inductive invariant `PhaseInv` adds the phase that
goes with each step of the checkpointer (`PhaseOfStep`), that no commit begins in
RESOLVE (`NoneBeginsInResolve`), and what a session inside `EndCommit` remembers
(`Sleeper`): it may move the phase only if the previous phase's commits have ended
or somebody else has moved it already. The work is in counting: a counter that is
0 means an empty set, a session that enters or leaves changes one cardinality by
one (`FiniteSetTheorems`).

### MotCheckpointDataProofs

For any number of sessions, rows, commits and checkpoints, from
`Faultless /\ PromptSpec`, where `Faultless` is `MaxAborts = 0 /\ MaxFailures = 0`: no
aborted checkpoints and no commits that fail after validation:

- `CheckpointTypes`, `ImageIsSnapshot`, `CrashLosesNothing`, `RowsAreReset`: `TypeOK`,
  `CheckpointIsSnapshot`, `Recoverable`, `RowsReset`.

An aborted checkpoint really breaks `Recoverable` (`ckpt_abort_image`); with failed
commits only the phases are proved (`PhaseSafety`), and the rest is model-checked
(`ckpt_safety` has one). The inductive
invariant `DataInv` adds to `PhaseInv`:

- `NewestRow`: the newest row of a key is the last one the log commits, but for a
  record that is logged and not yet applied;
- `RowState`: the life of a row through the phases. Before CAPTURE every row is
  *reset*; during CAPTURE a row the worker has not visited is *untouched* (its
  newest version is the one at the redo point; a writer may have pre-allocated the
  copy) or *kept* (its stable copy is that version); a visited row is *captured*;
  when the phase returns to REST the meaning of the bit is exchanged and captured
  rows read as reset;
- `Session`: a write set is locked and its operations apply until they are done,
  its record is where `rec` says, and a session of COMPLETE knows the right
  meaning of the bit;
- `DataAfter`: a commit record after the redo point has its data after it too;
- `Files`: the rows visited so far are in the image as the log up to the redo
  point gives them; the directory the control file names is complete.

`CutOff` is what carries the proof: at the redo point no commit is between its
record and its rows, so the log up to it and the rows say the same.

### MotGcProofs

For all finite sets of sessions and sentinels and all bounds, from `GcAssumption`:

- `EpochIsBarrier`: `"epoch" \notin Delays /\ Spec => []EpochBarrier`;

and, with `Delays = {} /\ Spec` on the left,

- `VisibleRowsStay`: `[]VisibleRowKept`;
- `CountIsExact`: `[]GcCountExact`;
- `CountIsEnough`: `[]CountCovers`;
- `LimboRowsLive`: `[]LimboRowLive`;
- `RollbackIsClean`: `[]RollbackFindsDirty`;
- `GcTypeCorrect`: `[]TypeOK`, which has the two counts in `Nat`.

The hypotheses are the instance `gc_safety` checks. A delay between the snapshot and
the published epoch leaves a transaction without protection (`gc_epoch`); a delay
inside a callback lets another session give its sentinel back (section 10). All other
interleavings are in.

`EpochInv` says that a session in a transaction has an epoch between the minimum and
its snapshot, and that a scan covers every session in a transaction (`Covered`): it is
yet to be visited, or the minimum so far is not after its epoch, or the scanning
session itself, which is in a transaction and is yet to be visited, has an epoch that
is not after it.

None of the other invariants is inductive, nor is their conjunction. `GcInv` adds to
`EpochInv` (TLC checks it on the instance of `gc_safety`):

- `MinimumInv`: the CSN a session cleans up to is not after the epoch of any session in
  a transaction. A closing session that has seen nobody else cleans its generic queue
  without a limit; then whoever is in a transaction started later and holds nothing of
  that queue (`Apart`).
- `HeldInv`: a sentinel out of the index that a transaction holds is in a delete
  vector, or in a generic queue with a CSN that the transaction's epoch holds back.
- `PoolInv`: a sentinel is in the index exactly while its reference count is positive;
  in the pool it has no rows and no elements; anywhere else it has an element.
- `CountInv`: `GcCountExact`, for sentinels in the pool too.
- `ChainInv`: the chain still has the row that each open snapshot shows and the newest
  one, and the newest clean-up (`m_minCsn`) is before every epoch in use.
- `LimboInv`, `DtorInv` (with `ElementInv`): nothing was committed between the row of an
  element and the CSN of the element, and the row is in the chain unless a newer
  clean-up came first.
- `OpInv`, `ControlInv`: which write goes with which row and step.
- `CoverInv`: `CountCovers` and one more while the tombstone on top has an element of a
  rolled-back insert waiting (`Claim`), whose clean-up takes one count off. All elements
  that claim one tombstone have one CSN, so the first to be cleaned overtakes the others.

The argument for `VisibleRowKept` runs through all of them: what is cleaned is older than
every epoch (`MinimumInv`), so a clean-up removes only rows under one that every snapshot
sees (`ChainInv`); a sentinel goes back to the pool with its last element (`CountInv`),
which for one that is held is the element the epoch holds back (`HeldInv`), and it gets
into limbo only when its count is zero, which no insert, row or tombstone still relies
on (`CoverInv`, `PoolInv`). The lemmas on `Places` (`PlacesAppend`, `PlacesTail`,
`PlacesMove`) say what appending to a list, taking its head and moving
a whole list do to the number of places, by bijections.

### LwLockProofs

For any finite set of threads, any finite set of bytes, any assignment of threads
to bytes and any cap, from `LwLockAssumption`:

- `LockExcludes`: `Spec => []MutualExclusion`;
- `CountsAreExact`: `Spec => []CountsExact`;
- `ListsSound`: `Spec => []WaitListSound`;
- `PostsBalance`: `Spec => []SemaphoreBalanced`;
- `TypeCorrect`: `Spec => []TypeOK`.

For the word, the inductive invariant `WordInv` adds to the first two: `WordTypes` (only the
variables the argument reads), `StageOf` (which steps go with which mode held:
a thread that is still trying holds nothing, one that takes its queue entry
back holds the lock, one that downgrades holds it exclusively) and `ExclusiveWord` (the exclusive bits are all set, when
somebody holds the lock exclusively, or all clear). That last part is the heart
of the matter: a shared locker's swap succeeds only if its own byte is as it was
read, which says nothing of the other bytes, but since all exclusive bits are set
together its own byte is enough. The lemmas sort the steps: those that leave
word, modes and stages alone (`QuietMove`, `QuietStay`), those that take the lock
(`ExclusiveTaken`, `SharedTaken`, with `OneMore` on the count), those that give it
back (`ExclusiveGiven`, `ReleaseStep`, with `OneLess`).

For the wait lists, `ListInv` says without counting what `WaitListSound` counts: a
thread is linked iff `lwWaiting` is set, never into the queue and a waker's list, never
into two wakers' lists (`Link`); no list has a thread twice; and only at the steps
between queueing and the end of the wait may a thread be linked (`ListStage`), which
is why it never queues again while a waker still has it. `LWLockWakeup` splits the queue
(`Waiters`), for which the lemmas need that the rank of a place numbers the chosen
places without gaps (`RankIsBijective`); that it takes somebody from a list that is not
empty (`SomebodyWoken`) is what lets it clear the waiters flag when it took nobody.

For the semaphores, `SemInv` is an account: posts there, absorbed and on their way are
the foreign ones plus one if the thread has been unlinked and has not yet had its post
(`Owed`). A thread that consumes a foreign post in place of its own leaves that one for
the other user, so the sum is right whichever comes first.

### DirtyPageQueueProofs

For any number of backends, pages, records, hints and checkpoints and any size of
the ring that the module's assumption allows:

- `QueueIsOrdered`, `DirtyIsQueued`, `TypeCorrect`: `QueueOrdered`, `DirtyQueued`,
  `TypeOK`, from `Spec` alone;
- `RedoPointCovers`: `RedoCovers`, from `ApartSpec /\ []Unlapped`;
- `OnlyRoomPanics`: `NoRedoPanic`, from the same: of the four PANICs only that of a
  re-push without room is left.

The assumption on the constants is weak: a ring of at least three slots and limits in
their order (`QueueAssumption`).

`Unlapped` says that the tail does not come within a ring's length of the slot the
walk of the checkpointer is at. It is needed: `ckpt_get_min_rec_lsn`
(`xlog.cpp:19290`) goes from slot to slot without comparing its place with the
head, so if the queue goes once round under one walk it meets slots of the next
round (section 10). In the server the ring has five slots for every buffer (`buf_init.cpp:142`), and the walk
must be overtaken by a whole round of pushes and flushes.

`QueueInv` is the inductive invariant of the queue: which slot a position has
(`RingInv`), recovery LSNs in the order of positions and none after the word that
holds `reclsn` (`OrderInv`), what packing has emptied and where it writes next
(`PruneInv`), and who is between taking a slot and filling it (`UserInv`). A step of
a backend or page writer either leaves the queue, takes the slot at the tail, fills
one, empties one or moves a page toward the tail; the lemmas `Carries` and
`Appends` say so once, and the invariants are shown for these.

`CkptInv` adds the redo point:

- `RecordInv`: the oldest change of a page that is not written is not before the
  recovery LSN of its buffer, and a record that is still to come is not before `reclsn`;
- `RedoInv`: `redo` and, while a checkpoint is in progress, its candidate are not
  after any recovery LSN in the queue, nor after `reclsn` and the page changes not yet
  forced to disk;
- `ScanInv`: slots the walk has passed are empty and stay so, since packing moves
  pages only toward the tail; the positions a full checkpoint does not wait for have
  recovery LSNs not before its target, because they were pushed after it was read.

`Apart` keeps that last part true: packing during a full checkpoint is
`dpq_prune`. `BoundInv` bounds the WAL by the records written and those being
written, which is what the types need.

### Model-checked only

Out of the prover's reach: the liveness properties (`NoStall`, `CheckpointEnds`,
`CommitEnds`, `WokenIfFree`) and `NobodyStuck` (`ENABLED`). The image and the rows of a
checkpoint with commits that fail late (`ckpt_safety`). The properties that the code
does not keep (`RestBetweenCheckpoints`, `NoCalcError`, and those of section 10) are in
no theorem.

## 10. Deviations

Places where the models show, or reading shows, that the code does not keep a
statement, beyond the five violation runs of section 8. Where a configuration is
named, `tlc -config <it> MC<module>` finds the violation; these need a rarer schedule
than those of section 8 or are less severe, and `PROJECT.json` does not list them as
runs.

- `RepeatableReads` (`MotOcc_repeatable.cfg`). `TxnAccess::LookupFilterRow`
  (`txn_access.cpp:685`) reports a key as not visible when its sentinel is dirty and the
  access set is not empty. It does not wait for the inserter as `GetVisibleRowVersion`
  does, so an insert whose CSN is before the snapshot is missed by one SELECT and seen
  by the next (`src/doc/src/sgml/mvcc.sgmlin:477`: successive SELECTs "see the same
  data").
- `UpdateMissesNoRow` (`MotOcc_missed.cfg`). `GetVisiblePrimaryHeader`
  (`primary_sentinel.cpp:186`) takes a key that was deleted and inserted again after
  the snapshot for a phantom; the UPDATE reports no row where `mvcc.sgmlin:499` promises
  a serialization failure.
- `InsertsGoOn` (`MotCheckpoint_abort_live.cfg`). When the kernel skips a checkpoint it
  calls `Abort` (`xlog.cpp:12466`) before it lets WAL inserts go on (12469), and `Abort`
  waits for commits of CAPTURE that wait to insert, although the comment at
  `checkpoint_manager.cpp:241` lets "other transactions" continue. `Abort` also leaves
  the recovery manager locked, on which the next checkpoint then waits. Both are the
  exceptions (`AbortBlocks`) in `CheckpointEnds` and `CommitEnds`; `ckpt_abort` shows
  that there is no third one.
- `TombstoneHasOwner` (`MotGc_tombstone.cfg`). The roll-back of an insert over a
  tombstone registers an element without a CSN of its own (`txn.cpp:637-649`), against
  the comment at 629 ("with the original CSN!"); if the callback then skips it as
  overtaken (`row.h:601`, `659`) nobody is left to take the sentinel out of the index.
- `DtorOwnsSentinel` (`MotGc_dtor.cfg`). After `RefCountUpdate(DEC)` the callback goes on
  to read and lock the sentinel (`row.h:555-572`), which another session may have given
  back.
- `RedoCovers` with a walk that is lapped (`DirtyPageQueue_lap.cfg`).
  `ckpt_get_min_rec_lsn` never compares its place with the head again (`xlog.cpp:19307`).
  If the queue goes once round under it, it reads a page of the next round and takes
  its later recovery LSN for the smallest one. The ring of the server has five slots for
  every buffer, so the walk has to be held up for that many pushes. It is the hypothesis
  `[]Unlapped` of `RedoPointCovers`.
- `RepushFindsRoom` (`DirtyPageQueue_room.cfg`, a ring for three buffers). A page that is
  dirtied during its write is put back past the soft limit (`bufmgr.cpp:7168`), while the
  head stays until all threads of the batch are through; a page may be written several
  times meanwhile by others who flush (`bufmgr.cpp:3307`, `4831`, `6097`). The push is
  refused when the two reserved slots are left (`pagewriter.cpp:450`), of which the
  comment at 71 says "one used to push the dirty page": PANIC.
- `LWLockAcquireTimeout` (`lwlock.cpp:1616`) gives up although it was woken and does
  not pass the wake-up on, against the comment at 1789; it counts `extraWaits` (1614)
  for a timeout that consumed no post. Read, not modelled.
- `ckpt_try_prune_dirty_page_queue` (`pagewriter.cpp:2025`) tests `slot->buffer` and
  reads it again without the header lock. `PruneMove` reads it once.

## 11. Not modelled

The repository has about 2.8 million lines: a SQL front end, optimizer,
executors, two disk storage formats, replication, security, AI functions, tools,
extensions. Most of it is data transformation with no protocol of its own, inherited
PostgreSQL code, or clients of external libraries; a model of a third of it would not be
a model. The modules cover the storage protocols above, and `PROJECT.json` gives
the reason for every component that is left out. Protocols that could be modelled
and are not yet: parallel replay and in-process transactions of MOT recovery,
secondary indexes of MOT, undo and the Ustore's rollback workers, synchronous
replication waits, the thread pool's session lists, the heavyweight lock manager,
double write and candidate lists of the buffer manager.
