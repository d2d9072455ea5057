--------------------------- MODULE MotCheckpoint ---------------------------
(***************************************************************************)
(* The fuzzy checkpoint of the MOT engine (a variant of CALC) against the  *)
(* commits that run meanwhile.                                             *)
(*                                                                         *)
(* The checkpointer thread drives five phases.  A commit remembers the     *)
(* phase it began in; two zigzag counters tell the checkpointer when the   *)
(* commits of the previous phase are over.  A row that a commit of the     *)
(* CAPTURE phase is about to change keeps a stable copy for the worker;    *)
(* a status bit per row, whose meaning flips at the end of a checkpoint,   *)
(* says whether the row has been dealt with.                               *)
(*                                                                         *)
(* A version of a row is the position in the redo log of the record that   *)
(* committed it.  What recovery would rebuild is defined from the control  *)
(* file, the checkpoint directories and the log, so that an invariant on   *)
(* it speaks of a crash in any state.                                      *)
(***************************************************************************)
EXTENDS Integers, Sequences, FiniteSets, FiniteSetsExt, Functions, TLC

CONSTANTS
    Txn,            \* sessions that commit
    Key,            \* rows
    MaxCommits,     \* bound: commits begun
    MaxCheckpoints, \* bound: checkpoints begun
    MaxAborts,      \* bound: checkpoints aborted by the kernel
    MaxFailures,    \* bound: commits that fail after their stable rows exist
    NoTxn           \* no owner of a sentinel lock

ASSUME CheckpointAssumption ==
    /\ IsFiniteSet(Txn)
    /\ IsFiniteSet(Key)
    /\ {MaxCommits, MaxCheckpoints, MaxAborts, MaxFailures} \subseteq Nat
    /\ NoTxn \notin Txn

VARIABLES
    phase,      \* CheckpointManager::m_phase
    cntBit,     \* m_cntBit, the counter of the current phase
    counters,   \* m_counters
    avail,      \* m_availableBit
    redoLock,   \* the write lock of RedoLogHandler::m_redo_lock is taken
    recLock,    \* MTLSRecoveryManager::m_lock is taken
    walHeld,    \* the kernel has suspended WAL inserts
    cp,         \* step of the checkpointer thread
    todo,       \* rows the workers have not visited
    errorSet,   \* m_errorSet
    lsn,        \* m_lsn, the redo point of the checkpoint in progress
    id,         \* m_inProgressId
    dirs,       \* checkpoint directories: id -> rows written, end file
    ctl,        \* the control file: id and lsn of the last valid checkpoint
    log,        \* the redo log
    main,       \* [Key -> version and tombstone flag]: Sentinel::GetData()
    status,     \* [Key -> BOOLEAN]: STABLE_BIT
    stable,     \* [Key -> version of the stable row, 0 for none]
    preAlloc,   \* [Key -> BOOLEAN]: PRE_ALLOC_BIT
    owner,      \* [Key -> Txn \cup {NoTxn}]: the sentinel lock
    pc,         \* [Txn -> step of the commit]
    tphase,     \* [Txn -> TxnManager::m_checkpointPhase]
    nabit,      \* [Txn -> TxnManager::m_checkpointNABit]
    ops,        \* [Txn -> the writes of the commit, by key]
    rec,        \* [Txn -> its newest log record, 0 for none]
    seen,       \* [Txn -> current_phase of EndCommit]
    left        \* what the bounds still allow

mgrVars  == <<phase, cntBit, avail, redoLock>>
cpVars   == <<recLock, walHeld, cp, todo, errorSet, lsn, id>>
diskVars == <<dirs, ctl>>
rowVars  == <<main, status, stable, preAlloc, owner>>
txnVars  == <<tphase, nabit, ops, rec, seen>>
vars == <<mgrVars, counters, cpVars, diskVars, log, rowVars, pc, txnVars, left>>

-----------------------------------------------------------------------------
(* Phases, rows and log records. *)

Phases == {"REST", "PREPARE", "RESOLVE", "CAPTURE", "COMPLETE"}

NextPhase(p) == CASE p = "REST"     -> "PREPARE"
                  [] p = "PREPARE"  -> "RESOLVE"
                  [] p = "RESOLVE"  -> "CAPTURE"
                  [] p = "CAPTURE"  -> "COMPLETE"
                  [] p = "COMPLETE" -> "REST"

\* A write of a commit: RPL is an insert over a row the same transaction deleted,
\* INS any other insert (an upgrade insert too when it finds a tombstone).
OpKind == {"INS", "WR", "DEL", "RPL"}
IsInsert(op) == op \in {"INS", "RPL"}

\* No row was ever committed for the key, or a tombstone.
RowVersion == [pos : Nat, del : BOOLEAN]
Absent == [pos |-> 0, del |-> TRUE]
Applicable(op, row) == (op = "INS") = row.del

Writes == UNION {[S -> OpKind] : S \in SUBSET Key}
NoWrites == [k \in {} |-> "WR"]

\* data: the record that carries the row data (the prepare record for 2PC).
Record == [kind : {"commit", "prepare", "rollback"}, ops : Writes, data : Nat]

PC == {"idle", "validate", "validated", "prepared", "logged", "applied",
       "test", "move", "release", "rollback"}

CP == {"idle", "preparing", "snapshot", "ready", "capturing", "end", "control",
       "remove", "completed", "aborting", "abortRest", "panic"}

EmptyImage == [k \in Key |-> 0]

\* A commit the counters have to count.
InCommit(t) == pc[t] \in {"validate", "validated", "prepared", "logged", "applied"}

\* Mutant: the commits of the previous phase are not waited for.
PrevDoneAlways == TRUE

\* WaitPrevPhaseCommittedTxnComplete lets the checkpointer go on.
PrevDone == counters[1 - cntBit] = 0

-----------------------------------------------------------------------------
(* Initially the engine is up, with the rows of one earlier load. *)

Init ==
    \E L \in SUBSET Key :
        /\ phase = "REST" /\ cntBit = 0 /\ avail = TRUE
        /\ counters = [b \in 0..1 |-> 0]
        /\ redoLock = FALSE /\ recLock = FALSE /\ walHeld = FALSE
        /\ cp = "idle" /\ todo = {} /\ errorSet = FALSE /\ lsn = 0 /\ id = 0
        /\ dirs = [i \in {} |-> 0]
        /\ ctl = [id |-> 0, lsn |-> 0]
        /\ log = IF L = {} THEN <<>>
                 ELSE <<[kind |-> "commit", ops |-> [k \in L |-> "INS"], data |-> 1]>>
        /\ main = [k \in Key |-> IF k \in L THEN [pos |-> 1, del |-> FALSE] ELSE Absent]
        /\ status = [k \in Key |-> FALSE]
        /\ stable = [k \in Key |-> 0]
        /\ preAlloc = [k \in Key |-> FALSE]
        /\ owner = [k \in Key |-> NoTxn]
        /\ pc = [t \in Txn |-> "idle"]
        /\ tphase = [t \in Txn |-> "NONE"]
        /\ nabit = [t \in Txn |-> FALSE]
        /\ ops = [t \in Txn |-> NoWrites]
        /\ rec = [t \in Txn |-> 0]
        /\ seen = [t \in Txn |-> "NONE"]
        /\ left = [commits |-> MaxCommits, checkpoints |-> MaxCheckpoints,
                   aborts |-> MaxAborts, failures |-> MaxFailures]

Spend(what) == /\ left[what] > 0
               /\ left' = [left EXCEPT ![what] = @ - 1]

-----------------------------------------------------------------------------
(* CheckpointManager: moving from phase to phase. *)

\* Mutant: the counters are not exchanged.
MoveToNextPhaseOneCounter ==
    LET next == NextPhase(phase)
        auto == next = "PREPARE" /\ counters[cntBit] = 0
    IN  /\ phase' = IF auto THEN "RESOLVE" ELSE next
        /\ avail' = (avail # (next = "REST"))
        /\ redoLock' = (redoLock \/ next = "CAPTURE")
        /\ UNCHANGED cntBit

\* The next phase, the other counter; entering REST swaps the available bit,
\* entering CAPTURE takes the redo lock.  PREPARE completes by itself when no
\* commit of the REST phase is left.
MoveToNextPhase ==
    LET next == NextPhase(phase)
        auto == next = "PREPARE" /\ counters[cntBit] = 0
    IN  /\ phase' = IF auto THEN "RESOLVE" ELSE next
        /\ cntBit' = IF auto THEN cntBit ELSE 1 - cntBit
        /\ avail' = (avail # (next = "REST"))
        /\ redoLock' = (redoLock \/ next = "CAPTURE")

-----------------------------------------------------------------------------
(* A commit.  Go moves transaction t to the next step of its commit. *)

Go(t, step) == pc' = [pc EXCEPT ![t] = step]

\* BeginCommit waits out the RESOLVE phase.
BeginCommit(t) ==
    /\ pc[t] = "idle"
    /\ phase # "RESOLVE"
    /\ Spend("commits")
    /\ tphase' = [tphase EXCEPT ![t] = phase]
    /\ nabit' = [nabit EXCEPT ![t] = ~avail]
    /\ counters' = [counters EXCEPT ![cntBit] = @ + 1]
    /\ Go(t, "validate")
    /\ UNCHANGED <<mgrVars, cpVars, diskVars, log, rowVars, ops, rec, seen>>

\* PreAllocStableRow: a commit of the CAPTURE phase keeps a copy of the row it is
\* going to change, unless the worker has dealt with the row already.
NeedsStable(t, k) ==
    /\ tphase[t] = "CAPTURE"
    /\ ~main[k].del
    /\ status[k] = ~avail

PreAllocStableRows(t, S) ==
    LET copied == {k \in S : NeedsStable(t, k)}
    IN  /\ stable' = [k \in Key |-> IF k \in copied THEN main[k].pos ELSE stable[k]]
        /\ preAlloc' = [k \in Key |-> k \in copied \/ preAlloc[k]]

\* FreePreAllocStableRows leaves a stable row that is in use alone, and an insert
\* that is not an upgrade has none.
FreePreAllocStableRows(S) ==
    LET freed == {k \in S : preAlloc[k]}
    IN  /\ stable' = [k \in Key |-> IF k \in freed THEN 0 ELSE stable[k]]
        /\ preAlloc' = [k \in Key |-> k \notin freed /\ preAlloc[k]]

\* The sentinels of a write set can be locked and the writes are valid.
Lockable(w) == \A k \in DOMAIN w : owner[k] = NoTxn /\ Applicable(w[k], main[k])

\* ValidateOcc succeeds: all sentinels locked, stable rows allocated.
ValidateOcc(t) ==
    /\ pc[t] = "validate"
    /\ \E w \in Writes \ {NoWrites} :
          /\ Lockable(w)
          /\ ops' = [ops EXCEPT ![t] = w]
          /\ owner' = [k \in Key |-> IF k \in DOMAIN w THEN t ELSE owner[k]]
          /\ PreAllocStableRows(t, DOMAIN w)
    /\ Go(t, "validated")
    /\ UNCHANGED <<mgrVars, counters, cpVars, diskVars, log, main, status,
                   tphase, nabit, rec, seen, left>>

\* ValidateOcc fails before the stable rows are allocated, or while they are, in
\* which case PreAllocStableRow frees them again.
ValidateOccFails(t) ==
    /\ pc[t] = "validate"
    /\ \E S \in SUBSET {k \in Key : owner[k] = NoTxn /\ main[k].pos # 0} :
          FreePreAllocStableRows(S)
    /\ Go(t, "applied")
    /\ UNCHANGED <<mgrVars, counters, cpVars, diskVars, log, main, status, owner,
                   txnVars, left>>

\* ReserveGcMemory fails after PreAllocStableRow: the locks are released.
ReserveGcMemoryFails(t) ==
    /\ pc[t] = "validate"
    /\ Spend("failures")
    /\ \E w \in Writes \ {NoWrites} :
          /\ Lockable(w)
          /\ PreAllocStableRows(t, DOMAIN w)
    /\ Go(t, "applied")
    /\ UNCHANGED <<mgrVars, counters, cpVars, diskVars, log, main, status, owner,
                   txnVars>>

\* RedoLog::WriteToLog: readers of the redo lock, then an insert into the WAL.
LogOpen == ~redoLock /\ ~walHeld

WriteToLog(t, kind, w, data) ==
    /\ LogOpen
    /\ log' = Append(log, [kind |-> kind, ops |-> w, data |-> data])
    /\ rec' = [rec EXCEPT ![t] = Len(log) + 1]

\* CommitInternal draws the CSN and writes the redo record before the rows.
RedoCommit(t) ==
    /\ pc[t] = "validated"
    /\ WriteToLog(t, "commit", ops[t], Len(log) + 1)
    /\ Go(t, "logged")
    /\ UNCHANGED <<mgrVars, counters, cpVars, diskVars, rowVars, tphase, nabit,
                   ops, seen, left>>

\* Prepare writes the row data into a prepare record.
Prepare(t) ==
    /\ pc[t] = "validated"
    /\ WriteToLog(t, "prepare", NoWrites, 0)
    /\ Go(t, "prepared")
    /\ UNCHANGED <<mgrVars, counters, cpVars, diskVars, rowVars, tphase, nabit,
                   ops, seen, left>>

\* CommitPrepared only adds a record that refers to the prepare record.
CommitPrepared(t) ==
    /\ pc[t] = "prepared"
    /\ WriteToLog(t, "commit", ops[t], rec[t])
    /\ Go(t, "logged")
    /\ UNCHANGED <<mgrVars, counters, cpVars, diskVars, rowVars, tphase, nabit,
                   ops, seen, left>>

\* The rows FreePreAllocStableRows visits: all but those of inserts that are not
\* upgrades, which found no sentinel in the index.
PreAllocated(t) == {k \in DOMAIN ops[t] : ops[t][k] # "INS" \/ main[k].pos # 0}

\* Prepare fails to serialise the transaction and takes the stable rows back.
PrepareFails(t) ==
    /\ pc[t] = "validated"
    /\ Spend("failures")
    /\ FreePreAllocStableRows(PreAllocated(t))
    /\ ops' = [ops EXCEPT ![t] = NoWrites]
    /\ Go(t, "applied")
    /\ UNCHANGED <<mgrVars, counters, cpVars, diskVars, log, main, status, owner,
                   tphase, nabit, rec, seen>>

\* RollbackInternal of a prepared transaction, up to EndCommit.
RollbackPrepared(t) ==
    /\ pc[t] = "prepared"
    /\ FreePreAllocStableRows(PreAllocated(t))
    /\ ops' = [ops EXCEPT ![t] = NoWrites]
    /\ Go(t, "applied")
    /\ UNCHANGED <<mgrVars, counters, cpVars, diskVars, log, main, status, owner,
                   tphase, nabit, rec, seen, left>>

\* RollbackInternal of a validated transaction: ReleaseLocks, and EndCommit from
\* Cleanup.
RollbackValidated(t) ==
    /\ pc[t] = "validated"
    /\ Spend("failures")
    /\ owner' = [k \in Key |-> IF owner[k] = t THEN NoTxn ELSE owner[k]]
    /\ ops' = [ops EXCEPT ![t] = NoWrites]
    /\ Go(t, "applied")
    /\ UNCHANGED <<mgrVars, counters, cpVars, diskVars, log, main, status, stable,
                   preAlloc, tphase, nabit, rec, seen>>

\* Mutant: an insert of the CAPTURE phase is not marked.
StatusAfterUnmarked(t, k) ==
    LET op == ops[t][k]
    IN  CASE tphase[t] = "CAPTURE" -> IF op = "INS" THEN ~avail ELSE avail
          [] tphase[t] = "COMPLETE" /\ IsInsert(op) -> ~nabit[t]
          [] tphase[t] \in {"REST", "PREPARE"} /\ IsInsert(op) -> ~avail
          [] OTHER -> status[k]

\* Mutant: an insert of the COMPLETE phase is treated as one of REST.
StatusAfterCurrentBit(t, k) ==
    CASE tphase[t] = "CAPTURE" -> avail
      [] tphase[t] # "CAPTURE" /\ IsInsert(ops[t][k]) -> ~avail
      [] OTHER -> status[k]

\* ApplyWrite: the status bit of a row written by a commit.
StatusAfter(t, k) ==
    LET op == ops[t][k]
    IN  CASE tphase[t] = "CAPTURE" -> avail
          [] tphase[t] = "COMPLETE" /\ IsInsert(op) -> ~nabit[t]
          [] tphase[t] \in {"REST", "PREPARE"} /\ IsInsert(op) -> ~avail
          [] OTHER -> status[k]

\* WriteChanges: ApplyWrite on every row, then the rows are published.
WriteChanges(t) ==
    /\ pc[t] = "logged"
    /\ LET S == DOMAIN ops[t]
           used == {k \in S : tphase[t] = "CAPTURE" /\ ops[t][k] # "INS"
                              /\ status[k] = ~avail}
       IN  /\ status' = [k \in Key |-> IF k \in S THEN StatusAfter(t, k) ELSE status[k]]
           /\ preAlloc' = [k \in Key |-> k \notin used /\ preAlloc[k]]
           /\ main' = [k \in Key |->
                         IF k \in S THEN [pos |-> rec[t], del |-> ops[t][k] = "DEL"]
                         ELSE main[k]]
    /\ Go(t, "applied")
    /\ UNCHANGED <<mgrVars, counters, cpVars, diskVars, log, stable, owner,
                   txnVars, left>>

\* Mutant: always the counter of the current phase.
CommitCounterCurrent(t) == cntBit

\* EndCommit, under the read lock: the counter of the phase the commit began in.
CommitCounter(t) == IF tphase[t] = phase THEN cntBit ELSE 1 - cntBit

EndCommit(t) ==
    /\ pc[t] = "applied"
    /\ counters' = [counters EXCEPT ![CommitCounter(t)] = @ - 1]
    /\ seen' = [seen EXCEPT ![t] = phase]
    /\ Go(t, "test")
    /\ UNCHANGED <<mgrVars, cpVars, diskVars, log, rowVars, tphase, nabit, ops,
                   rec, left>>

\* Mutant: IsAutoCompletePhase is not asked.
LeavePrepareAnyPhase == PrevDone

\* Mutant: the last commit of REST does not leave PREPARE.
LeavePrepareNever == FALSE

\* EndCommit, without a lock: is it for this session to leave PREPARE?
LeavePrepare == PrevDone /\ phase = "PREPARE"

TestPhase(t) ==
    /\ pc[t] = "test"
    /\ Go(t, IF LeavePrepare THEN "move" ELSE "release")
    /\ UNCHANGED <<mgrVars, counters, cpVars, diskVars, log, rowVars, txnVars, left>>

\* EndCommit, under the write lock.
CompletePhase(t) ==
    /\ pc[t] = "move"
    /\ IF seen[t] = phase THEN MoveToNextPhase ELSE UNCHANGED mgrVars
    /\ Go(t, "release")
    /\ UNCHANGED <<counters, cpVars, diskVars, log, rowVars, txnVars, left>>

\* EndTransaction, or the rest of a rollback: the locks go, the TxnManager is
\* cleaned.  Only a transaction rolled back after Prepare still has to log it.
EndTransaction(t) ==
    /\ pc[t] = "release"
    /\ owner' = [k \in Key |-> IF owner[k] = t THEN NoTxn ELSE owner[k]]
    /\ tphase' = [tphase EXCEPT ![t] = "NONE"]
    /\ nabit' = [nabit EXCEPT ![t] = FALSE]
    /\ seen' = [seen EXCEPT ![t] = "NONE"]
    /\ ops' = [ops EXCEPT ![t] = NoWrites]
    /\ rec' = [rec EXCEPT ![t] = 0]
    /\ Go(t, IF rec[t] # 0 /\ ops[t] = NoWrites THEN "rollback" ELSE "idle")
    /\ UNCHANGED <<mgrVars, counters, cpVars, diskVars, log, main, status, stable,
                   preAlloc, left>>

\* RedoLog::RollbackPrepared.
RedoRollback(t) ==
    /\ pc[t] = "rollback"
    /\ LogOpen
    /\ log' = Append(log, [kind |-> "rollback", ops |-> NoWrites, data |-> 0])
    /\ Go(t, "idle")
    /\ UNCHANGED <<mgrVars, counters, cpVars, diskVars, rowVars, txnVars, left>>

-----------------------------------------------------------------------------
(* The checkpointer thread and its worker. *)

\* CreateSnapShot up to the wait for RESOLVE.  Finding another checkpoint running
\* is fatal.
CreateSnapShot ==
    /\ cp = "idle"
    /\ Spend("checkpoints")
    /\ IF phase # "REST"
       THEN /\ errorSet' = TRUE
            /\ cp' = "panic"
            /\ UNCHANGED <<mgrVars, id, dirs>>
       ELSE /\ PrevDone
            /\ errorSet' = FALSE
            /\ id' = id + 1
            /\ dirs' = [i \in DOMAIN dirs \cup {id + 1} |->
                          IF i = id + 1 THEN [image |-> EmptyImage, end |-> FALSE]
                          ELSE dirs[i]]
            /\ MoveToNextPhase
            /\ cp' = "preparing"
    /\ UNCHANGED <<counters, recLock, walHeld, todo, lsn, ctl, log, rowVars, pc, txnVars>>

\* Mutant: the commits of PREPARE are not waited for.
CutOffReachedNoWait == phase = "RESOLVE"

\* The rest of CreateSnapShot: the cut-off.
CutOffReached == phase = "RESOLVE" /\ PrevDone

EnterCapture ==
    /\ cp = "preparing"
    /\ CutOffReached
    /\ ~recLock
    /\ recLock' = TRUE
    /\ todo' = Key
    /\ MoveToNextPhase
    /\ cp' = "snapshot"
    /\ UNCHANGED <<counters, walHeld, errorSet, lsn, id, diskVars, log, rowVars, pc,
                   txnVars, left>>

\* Mutant: the recovery manager stays locked.
ReleaseSnapshotRedoOnly == redoLock' = FALSE /\ UNCHANGED recLock

\* Mutant: the redo lock stays taken.
ReleaseSnapshotRecoveryOnly == recLock' = FALSE /\ UNCHANGED redoLock

ReleaseSnapshot == redoLock' = FALSE /\ recLock' = FALSE

\* The kernel reads the redo point and hands it to SnapshotReady, for which
\* another phase than CAPTURE is fatal.
SnapshotReady ==
    /\ cp = "snapshot"
    /\ IF phase = "CAPTURE"
       THEN lsn' = Len(log) /\ ReleaseSnapshot /\ cp' = "ready" /\ UNCHANGED errorSet
       ELSE errorSet' = TRUE /\ cp' = "panic" /\ UNCHANGED <<lsn, redoLock, recLock>>
    /\ UNCHANGED <<phase, cntBit, avail, counters, walHeld, todo, id, diskVars, log,
                   rowVars, pc, txnVars, left>>

\* BeginCheckpoint wakes the workers.
BeginCheckpoint ==
    /\ cp = "ready"
    /\ cp' = "capturing"
    /\ UNCHANGED <<mgrVars, counters, recLock, walHeld, todo, errorSet, lsn, id, diskVars,
                   log, rowVars, pc, txnVars, left>>

\* CheckpointWorkerPool::Checkpoint on one row: the version it writes (0 for none),
\* whether it marks the row, whether it drops the stable row, and the CALC error.
RowOutcome(k) ==
    LET exists == main[k].pos # 0
        done == status[k] = avail
        held == stable[k] # 0
        mark == exists /\ ~done /\ ~held /\ ~main[k].del
    IN  [write |-> IF mark THEN main[k].pos ELSE IF exists /\ done THEN stable[k] ELSE 0,
         mark  |-> mark,
         drop  |-> exists /\ held /\ (done \/ main[k].del),
         error |-> exists /\ held /\ ~done]

Checkpoint(k) ==
    /\ cp = "capturing" /\ ~errorSet
    /\ k \in todo
    /\ owner[k] = NoTxn
    /\ LET r == RowOutcome(k)
       IN  /\ dirs' = [dirs EXCEPT ![id].image[k] = r.write]
           /\ status' = [status EXCEPT ![k] = IF r.mark THEN avail ELSE @]
           /\ stable' = [stable EXCEPT ![k] = IF r.drop THEN 0 ELSE @]
           /\ errorSet' = r.error
    /\ todo' = todo \ {k}
    /\ UNCHANGED <<mgrVars, counters, recLock, walHeld, cp, lsn, id, ctl, log, main,
                   preAlloc, owner, pc, txnVars, left>>

\* Mutant: m_errorSet is not looked at.
AfterCaptureAnyway == "end"

\* CompleteCheckpoint only if no worker has reported an error.
AfterCapture == IF errorSet THEN "completed" ELSE "end"

\* BeginCheckpoint goes on: the workers are through, COMPLETE.
EndCapture ==
    /\ cp = "capturing"
    /\ todo = {} \/ errorSet
    /\ PrevDone
    /\ MoveToNextPhase
    /\ cp' = AfterCapture
    /\ UNCHANGED <<counters, recLock, walHeld, todo, errorSet, lsn, id, diskVars, log,
                   rowVars, pc, txnVars, left>>

\* Mutant: the old directories go before the control file changes.
WithEndFileOnly == Restrict([dirs EXCEPT ![id].end = TRUE], {id})

\* CompleteCheckpoint: the end file, the control file, the old directories.
WithEndFile == [dirs EXCEPT ![id].end = TRUE]

CreateEndFile ==
    /\ cp = "end"
    /\ dirs' = WithEndFile
    /\ cp' = "control"
    /\ UNCHANGED <<mgrVars, counters, recLock, walHeld, todo, errorSet, lsn, id, ctl, log,
                   rowVars, pc, txnVars, left>>

UpdateControlFile ==
    /\ cp = "control"
    /\ ctl' = [id |-> id, lsn |-> lsn]
    /\ cp' = "remove"
    /\ UNCHANGED <<mgrVars, counters, recLock, walHeld, todo, errorSet, lsn, id, dirs, log,
                   rowVars, pc, txnVars, left>>

RemoveOldCheckpoints ==
    /\ cp = "remove"
    /\ dirs' = Restrict(dirs, {id})
    /\ cp' = "completed"
    /\ UNCHANGED <<mgrVars, counters, recLock, walHeld, todo, errorSet, lsn, id, ctl, log,
                   rowVars, pc, txnVars, left>>

\* The end of BeginCheckpoint; MOTCheckpointCallback treats an error fatally.
EnterRest ==
    /\ cp = "completed"
    /\ PrevDone
    /\ MoveToNextPhase
    /\ todo' = {}
    /\ cp' = IF errorSet THEN "panic" ELSE "idle"
    /\ UNCHANGED <<counters, recLock, walHeld, errorSet, lsn, id, diskVars, log, rowVars,
                   pc, txnVars, left>>

\* Abort, which does nothing unless the phase is CAPTURE.  The kernel skips a
\* checkpoint when nothing was logged since the last one, with WAL inserts
\* suspended, or its checkpointer fails before BeginCheckpoint.
Abort ==
    /\ \/ cp = "snapshot" /\ Len(log) = ctl.lsn
       \/ cp = "ready"
    /\ Spend("aborts")
    /\ LET capture == phase = "CAPTURE"
       IN  /\ walHeld' = (capture /\ cp = "snapshot")
           /\ redoLock' = (redoLock /\ ~capture)
           /\ cp' = IF capture THEN "aborting" ELSE "idle"
    /\ UNCHANGED <<phase, cntBit, avail, counters, recLock, todo, errorSet, lsn, id,
                   diskVars, log, rowVars, pc, txnVars>>

AbortToComplete ==
    /\ cp = "aborting"
    /\ PrevDone
    /\ MoveToNextPhase
    /\ cp' = "abortRest"
    /\ UNCHANGED <<counters, recLock, walHeld, todo, errorSet, lsn, id, diskVars, log,
                   rowVars, pc, txnVars, left>>

AbortToRest ==
    /\ cp = "abortRest"
    /\ PrevDone
    /\ MoveToNextPhase
    /\ todo' = {}
    /\ walHeld' = FALSE
    /\ cp' = "idle"
    /\ UNCHANGED <<counters, recLock, errorSet, lsn, id, diskVars, log, rowVars, pc,
                   txnVars, left>>

-----------------------------------------------------------------------------
(* The specification. *)

\* Steps a session takes by itself once its commit has begun.
Advance(t) ==
    \/ ValidateOcc(t) \/ ValidateOccFails(t)
    \/ RedoCommit(t) \/ Prepare(t) \/ CommitPrepared(t) \/ RollbackPrepared(t)
    \/ WriteChanges(t) \/ EndCommit(t) \/ TestPhase(t) \/ CompletePhase(t)
    \/ EndTransaction(t) \/ RedoRollback(t)

Fail(t) == ReserveGcMemoryFails(t) \/ RollbackValidated(t) \/ PrepareFails(t)

Checkpointer ==
    \/ EnterCapture \/ SnapshotReady \/ BeginCheckpoint
    \/ \E k \in Key : Checkpoint(k)
    \/ EndCapture \/ CreateEndFile \/ UpdateControlFile \/ RemoveOldCheckpoints
    \/ EnterRest \/ AbortToComplete \/ AbortToRest

Next ==
    \/ \E t \in Txn : BeginCommit(t) \/ Advance(t) \/ Fail(t)
    \/ CreateSnapShot \/ Checkpointer \/ Abort

Spec == Init /\ [][Next]_vars

\* An assumption about scheduling, which the code does not enforce: no session is
\* held up inside EndCommit, after it left its counter and before it has the write
\* lock, until the checkpoint returns to REST.
Prompt ==
    phase # "REST" /\ phase' = "REST" => \A t \in Txn : pc[t] \notin {"test", "move"}

PromptSpec == Init /\ [][Next /\ Prompt]_vars

\* Every thread that can run does; a prepared transaction is decided.
FairSpec ==
    /\ PromptSpec
    /\ \A t \in Txn : WF_vars(Advance(t))
    /\ WF_vars(Checkpointer)

-----------------------------------------------------------------------------
(* What the log and a recovery give. *)

\* The newest commit record among the given positions that writes k gives the
\* row: its position, 0 after a delete; base when there is none.
RowFrom(positions, k, base) ==
    LET touching == {i \in positions : log[i].kind = "commit" /\ k \in DOMAIN log[i].ops}
        last == Max(touching)
    IN  IF touching = {} THEN base
        ELSE IF log[last].ops[k] = "DEL" THEN 0 ELSE last

\* The committed row after the first n records.
Replay(n, k) == RowFrom(1..n, k, 0)

\* CheckpointRecovery loads the directory the control file names if it has an end
\* file; ApplyRedoLog then ignores the records up to the redo point.  A commit of
\* a prepared transaction has no data when its prepare record was ignored.
CheckpointValid == ctl.id # 0 => ctl.id \in DOMAIN dirs /\ dirs[ctl.id].end
Recovered(k) ==
    RowFrom({i \in 1..Len(log) : i > ctl.lsn /\ log[i].data > ctl.lsn}, k,
            IF ctl.id = 0 THEN 0 ELSE dirs[ctl.id].image[k])

-----------------------------------------------------------------------------
(* Properties. *)

PrevPhase(p) == CHOOSE q \in Phases : NextPhase(q) = p

\* The types of the variables; in particular no counter of CheckpointManager goes
\* below zero, where the code's uint32 would wrap around.
TypeOK ==
    /\ phase \in Phases /\ cntBit \in 0..1 /\ avail \in BOOLEAN
    /\ counters \in [0..1 -> Nat]
    /\ {redoLock, recLock, walHeld, errorSet} \subseteq BOOLEAN
    /\ cp \in CP /\ todo \subseteq Key /\ lsn \in Nat /\ id \in Nat
    /\ \A i \in DOMAIN dirs : dirs[i] \in [image : [Key -> Nat], end : BOOLEAN]
    /\ ctl \in [id : Nat, lsn : Nat]
    /\ \A i \in DOMAIN log : log[i] \in Record
    /\ main \in [Key -> RowVersion] /\ stable \in [Key -> Nat]
    /\ status \in [Key -> BOOLEAN] /\ preAlloc \in [Key -> BOOLEAN]
    /\ owner \in [Key -> Txn \cup {NoTxn}]
    /\ pc \in [Txn -> PC]
    /\ tphase \in [Txn -> Phases \cup {"NONE"}] /\ seen \in [Txn -> Phases \cup {"NONE"}]
    /\ nabit \in [Txn -> BOOLEAN] /\ ops \in [Txn -> Writes] /\ rec \in [Txn -> Nat]

\* The zigzag counters are exact: the current one counts the commits in progress
\* that began in this phase, the other one all the others (BeginCommit and
\* EndCommit against MoveToNextPhase).
CountersMatch ==
    /\ counters[cntBit] = Cardinality({t \in Txn : InCommit(t) /\ tphase[t] = phase})
    /\ counters[1 - cntBit] = Cardinality({t \in Txn : InCommit(t) /\ tphase[t] # phase})

\* No commit outlives the phase after its own, so that in CAPTURE every commit in
\* progress began after the cut-off (WaitPrevPhaseCommittedTxnComplete).
CutOff == \A t \in Txn : InCommit(t) => tphase[t] \in {phase, PrevPhase(phase)}

\* Although commits went on while the workers ran, the finished files hold exactly
\* the rows that were committed at the redo point.
CheckpointIsSnapshot ==
    cp \in {"end", "control", "remove"} => \A k \in Key : dirs[id].image[k] = Replay(lsn, k)

\* A crash in any state loses nothing: the control file names a complete
\* checkpoint, and it and the records after its redo point give the committed rows.
Recoverable ==
    CheckpointValid /\ \A k \in Key : Recovered(k) = Replay(Len(log), k)

\* Outside a capture no row has a stable copy, and every row is marked "not captured",
\* whatever phase the commits that wrote it belonged to and whether they failed
\* (SwapAvailableAndNotAvailable against ApplyWrite); a checkpoint that cannot see to it
\* ends in a PANIC.
RowsReset ==
    phase \in {"REST", "PREPARE", "RESOLVE"} /\ cp # "panic" =>
        \A k \in Key : /\ stable[k] = 0 /\ ~preAlloc[k]
                       /\ ~main[k].del => status[k] = ~avail

\* The worker never meets a row with a stable copy that is not marked, its "should
\* not happen" branch, which ends in a PANIC.
NoCalcError == ~errorSet

\* Only the checkpointer starts a checkpoint: between two of them the phase is REST,
\* whatever the sessions that end a commit do to it (EndCommit).
RestBetweenCheckpoints == cp = "idle" => phase = "REST"

\* The redo point falls between commits: the redo lock is held exactly while the kernel
\* chooses it, and then no commit has its record in the log and its rows not written
\* (MoveToNextPhase, SnapshotReady and Abort against RedoLog::WriteToLog).
RedoPointBetweenCommits ==
    /\ redoLock = (cp = "snapshot")
    /\ cp = "snapshot" => \A t \in Txn : pc[t] \notin {"prepared", "logged"}

\* The phases stay sound when checkpoints are aborted and commits fail half-way: counters
\* exact, no commit older than the previous phase, the redo point between commits (Abort
\* and the error paths of ValidateCommit against EndCommit).
PhaseSafety == CountersMatch /\ CutOff /\ RedoPointBetweenCommits

\* What Abort may leave behind for good: it waits for commits with WAL inserts suspended
\* (CreateCheckPoint), or the next checkpoint finds the recovery manager still locked.
AbortBlocks == left.aborts < MaxAborts /\ (walHeld \/ (cp = "preparing" /\ recLock))

\* A checkpoint that has begun ends, although commits keep it waiting
\* (WaitPrevPhaseCommittedTxnComplete), unless an abort is in the way.
CheckpointEnds == cp # "idle" ~> cp \in {"idle", "panic"} \/ AbortBlocks

\* A commit that has begun ends, although it waits for RESOLVE and the redo lock
\* (BeginCommit, RedoLog::WriteToLog), unless an abort is in the way.
CommitEnds == \A t \in Txn : pc[t] # "idle" ~> pc[t] = "idle" \/ AbortBlocks

\* CreateCheckPoint, StopSuspendWalInsert: WAL inserts that were suspended go on.  Abort
\* breaks it (README, section 10).
InsertsGoOn == walHeld ~> ~walHeld

=============================================================================
