--------------------------- MODULE DirtyPageQueue ---------------------------
(***************************************************************************)
(* The dirty page queue of the incremental checkpoint: a ring of slots     *)
(* with the dirty buffers in the order in which they became dirty, each    *)
(* with a recovery LSN.  Backends append, the page writer flushes pages in *)
(* any order, moves the head and packs the queue; the checkpointer takes   *)
(* the recovery LSN of the first page in the queue as its redo point       *)
(* (incremental checkpoint) or waits until the pages that are in the queue *)
(* now have been flushed (full checkpoint).                                *)
(*                                                                         *)
(* An LSN is the number of a WAL record.  Of the content of a page the     *)
(* model keeps the oldest record whose change is not on disk.  A slot is   *)
(* filled, emptied and moved under the header lock of the buffer, which    *)
(* the scans of the queue do not take.                                     *)
(***************************************************************************)
EXTENDS Integers, FiniteSets, FiniteSetsExt

CONSTANTS
    Backends,    \* sessions that change pages
    Pages,       \* buffers: numbers, locked in this order
    Size,        \* dirty_page_queue_size
    SoftFull,    \* slots in use at which a backend has to wait
    PruneAt,     \* slots in use at which the queue is packed
    MaxRecords,  \* bound: WAL records
    MaxHints,    \* bound: hint bit changes and dropped buffers
    MaxCkpts,    \* bound: checkpoints
    Kinds,       \* checkpoints taken: "full", "timed", "asked"
    None         \* no buffer, no backend

ASSUME QueueAssumption ==
    /\ IsFiniteSet(Backends) /\ Pages \subseteq Nat \ {0} /\ IsFiniteSet(Pages)
    /\ None \notin Backends \cup Pages /\ Backends \cap {"none", "hint", "flush"} = {}
    /\ {Size, SoftFull, PruneAt, MaxRecords, MaxHints, MaxCkpts} \subseteq Nat
    /\ 3 <= Size /\ PruneAt <= SoftFull /\ SoftFull <= Size
    /\ Kinds \subseteq {"full", "timed", "asked"}

VARIABLES
    wal,     \* records in the WAL
    held,    \* WAL inserts are suspended
    reclsn,  \* dirty_page_queue_reclsn
    head,    \* dirty_page_queue_head
    tail,    \* dirty_page_queue_tail
    slot,    \* the ring: buffer and SLOT_VALID
    memory,  \* [Pages -> oldest record with a change that is not written, 0: none]
    unsynced, \* [Pages -> oldest record with a change that is not forced to disk, 0: none]
    dirty,   \* buffers with BM_DIRTY
    just,    \* buffers with BM_JUST_DIRTIED
    recLsn,  \* [Pages -> rec_lsn, 0 when it is invalid]
    loc,     \* [Pages -> dirty_queue_loc, -1 when it is invalid]
    pend,    \* [Pages -> slot taken and not filled, under the header lock]
    lock,    \* [Pages -> exclusive owner of the content lock]
    io,      \* [Pages -> progress of FlushBuffer]
    waitFor, \* backend_wait_lock
    pc, want, start, \* [Backends -> step, pages of its change, its record]
    hints,   \* hint bit changes and dropped buffers so far
    mpc, pr, \* main thread of the page writer: step, packing of the queue
    cpc, target, scan, found, expected, redo, ckpts, \* checkpointer
    panic    \* the PANIC that has stopped the server

queueVars  == <<reclsn, head, tail, slot, recLsn, loc, pend>>
pageVars   == <<memory, unsynced, dirty, just>>
lockVars   == <<lock, io, waitFor>>
backVars   == <<pc, want, start, hints>>
writerVars == <<mpc, pr>>
ckptVars   == <<cpc, target, scan, found, expected, redo, ckpts>>
vars == <<wal, held, queueVars, pageVars, lockVars, backVars, writerVars, ckptVars, panic>>

NoPend == [by |-> "none", at |-> 0, lsn |-> 0]
Empty == [buf |-> None, valid |-> FALSE]
NoPrune == [seen |-> {}, last |-> 0]
NoScan == [at |-> 0, buf |-> None, lsn |-> -1]

\* get_dirty_page_num
DirtyPageNum == tail - head

\* The slot of a position.
At(n) == slot[n % Size]

Init ==
    /\ wal = 0 /\ held = FALSE
    /\ reclsn = 1 /\ head = 0 /\ tail = 0
    /\ slot = [i \in 0..Size - 1 |-> Empty]
    /\ memory = [p \in Pages |-> 0] /\ unsynced = memory
    /\ dirty = {} /\ just = {}
    /\ recLsn = [p \in Pages |-> 0] /\ loc = [p \in Pages |-> -1]
    /\ pend = [p \in Pages |-> NoPend]
    /\ lock = [p \in Pages |-> None] /\ io = [p \in Pages |-> "none"] /\ waitFor = None
    /\ pc = [b \in Backends |-> "idle"] /\ want = [b \in Backends |-> {}]
    /\ start = [b \in Backends |-> 0] /\ hints = 0
    /\ mpc = "main" /\ pr = NoPrune
    /\ cpc = "idle" /\ target = 0 /\ scan = NoScan /\ found = 0
    /\ expected = 0 /\ redo = 1 /\ ckpts = 0
    /\ panic = "none"

-----------------------------------------------------------------------------
(* The queue. *)

\* Nobody works on the header of the buffer.
HeaderFree(p) == pend[p] = NoPend /\ io[p] # "repush"

\* PAGE_QUEUE_SLOT_MIN_RESERVE_NUM
HasRoom == DirtyPageNum + 2 < Size

\* atomic_push_pending_flush_queue: the recovery LSN and the slot in one operation.
TakeSlot(p, by) ==
    /\ tail' = tail + 1
    /\ pend' = [pend EXCEPT ![p] = [by |-> by, at |-> tail, lsn |-> reclsn]]
    /\ UNCHANGED <<reclsn, head, slot, recLsn, loc>>

\* Mutant: the recovery LSN of the queue is read when the slot is filled.
PushedLsnLate(p) == reclsn

PushedLsn(p) == pend[p].lsn

\* The rest of push_pending_flush_queue; slot_state is written last.
Fill(p) ==
    /\ slot' = [slot EXCEPT ![pend[p].at % Size] = [buf |-> p, valid |-> TRUE]]
    /\ loc' = [loc EXCEPT ![p] = pend[p].at % Size]
    /\ recLsn' = [recLsn EXCEPT ![p] = PushedLsn(p)]
    /\ pend' = [pend EXCEPT ![p] = NoPend]
    /\ UNCHANGED <<reclsn, head, tail>>

\* Mutant: rec_lsn is left as it is.
RemoveKeepsRecLsn(p) ==
    /\ slot' = [slot EXCEPT ![loc[p]].buf = None]
    /\ loc' = [loc EXCEPT ![p] = -1]
    /\ UNCHANGED <<reclsn, head, tail, pend, recLsn>>

RemoveDirtyPageFromQueue(p) ==
    /\ slot' = [slot EXCEPT ![loc[p]].buf = None]
    /\ recLsn' = [recLsn EXCEPT ![p] = 0]
    /\ loc' = [loc EXCEPT ![p] = -1]
    /\ UNCHANGED <<reclsn, head, tail, pend>>

HeadBuffer == At(head).buf

\* Mutant: the holder of the page at the head waits like everybody else.
HoldsHeadNever(b) == FALSE

HoldsHead(b) == HeadBuffer # None /\ lock[HeadBuffer] = b /\ b # None

\* is_dirty_page_queue_full, asked by b; None holds no content lock in exclusive mode.
IsDirtyPageQueueFull(b, p) ==
    DirtyPageNum >= SoftFull /\ waitFor # p /\ ~HoldsHead(b)

\* update_dirty_page_queue_rec_lsn
RaiseRecLsn(lsn) == reclsn' = IF lsn > reclsn THEN lsn ELSE reclsn

-----------------------------------------------------------------------------
(* A backend: lock the pages, MarkBufferDirty each, XLogInsert, unlock. *)

Locked(b) == {p \in Pages : lock[p] = b}
Goto(b, from, to) == pc[b] = from /\ pc' = [pc EXCEPT ![b] = to]

\* Nobody else holds the content lock in any mode.
Lockable(p) == lock[p] = None /\ io[p] = "none" /\ pend[p] = NoPend

Begin(b) ==
    /\ Goto(b, "idle", "lock")
    /\ wal + Cardinality({c \in Backends : pc[c] \notin {"idle", "update"}}) < MaxRecords
    /\ \E S \in (SUBSET Pages) \ {{}} :
        /\ Lockable(Min(S))
        /\ want' = [want EXCEPT ![b] = S]
        /\ lock' = [lock EXCEPT ![Min(S)] = b]
    /\ UNCHANGED <<wal, held, queueVars, pageVars, io, waitFor, start, hints, writerVars,
                   ckptVars, panic>>

LockBuffer(b) ==
    /\ pc[b] = "lock"
    /\ \E p \in want[b] \ Locked(b) :
        /\ Lockable(p) /\ p = Min(want[b] \ Locked(b))
        /\ lock' = [lock EXCEPT ![p] = b]
    /\ UNCHANGED <<wal, held, queueVars, pageVars, io, waitFor, backVars, writerVars,
                   ckptVars, panic>>

\* LWLockAcquire before it sleeps: update_wait_lockid, with double write on.
UpdateWaitLockid(b) ==
    /\ pc[b] = "lock"
    /\ \E p \in want[b] \ Locked(b) :
        /\ ~Lockable(p) /\ p = Min(want[b] \ Locked(b)) /\ waitFor # p
        /\ waitFor' = p
    /\ DirtyPageNum >= PruneAt /\ HoldsHead(b)
    /\ UNCHANGED <<wal, held, queueVars, pageVars, lock, io, backVars, writerVars, ckptVars, panic>>

\* Pages of the change that MarkBufferDirty has something to do for: a page that is in the queue
\* and that nobody writes has BM_DIRTY and BM_JUST_DIRTIED already.
Unmarked(b) == {p \in want[b] : p \notin dirty \/ p \notin just}

MayMark(b) == pc[b] = "lock" /\ want[b] = Locked(b) /\ Unmarked(b) # {}

\* MarkBufferDirty: it waits for room and takes a slot, ...
Push(b) ==
    /\ MayMark(b)
    /\ LET p == Min(Unmarked(b))
       IN /\ recLsn[p] = 0 /\ ~IsDirtyPageQueueFull(b, p) /\ HasRoom
          /\ TakeSlot(p, b)
    /\ pc' = [pc EXCEPT ![b] = "fill"]
    /\ UNCHANGED <<wal, held, pageVars, lockVars, want, start, hints, writerVars, ckptVars, panic>>

\* ... and fills it.
FillPushed(b) ==
    /\ Goto(b, "fill", "lock")
    /\ \E p \in Pages :
        /\ pend[p].by = b
        /\ Fill(p)
        /\ dirty' = dirty \cup {p} /\ just' = just \cup {p}
    /\ UNCHANGED <<wal, held, memory, unsynced, lockVars, want, start, hints, writerVars,
                   ckptVars, panic>>

MarkedAll(b) == Unmarked(b) = {}

\* The next record changes the pages in S.
Owes(oldest, S) ==
    [p \in Pages |-> IF p \in S /\ oldest[p] = 0 THEN wal + 1 ELSE oldest[p]]

XLogInsert(b) ==
    /\ Goto(b, "lock", "update") /\ want[b] = Locked(b) /\ MarkedAll(b) /\ ~held
    /\ wal' = wal + 1
    /\ start' = [start EXCEPT ![b] = wal + 1]
    /\ memory' = Owes(memory, want[b]) /\ unsynced' = Owes(unsynced, want[b])
    /\ UNCHANGED <<held, queueVars, dirty, just, lockVars, want, hints, writerVars, ckptVars,
                   panic>>

\* The end of XLogInsert, with the start of the record if that is far enough ahead.
UpdateRecLsn(b) ==
    /\ Goto(b, "update", "idle")
    /\ RaiseRecLsn(start[b]) \/ UNCHANGED reclsn
    /\ lock' = [p \in Pages |-> IF lock[p] = b THEN None ELSE lock[p]]
    /\ want' = [want EXCEPT ![b] = {}] /\ start' = [start EXCEPT ![b] = 0]
    /\ UNCHANGED <<wal, held, head, tail, slot, recLsn, loc, pend, pageVars, io, waitFor, hints,
                   writerVars, ckptVars, panic>>

-----------------------------------------------------------------------------
(* Hint bits, and buffers that are dropped. *)

\* MarkBufferDirtyHint, by somebody who holds the content lock in shared mode.
MarkBufferDirtyHint(p) ==
    /\ hints < MaxHints /\ lock[p] = None /\ HeaderFree(p)
    /\ p \notin dirty \cap just
    /\ hints' = hints + 1
    /\ IF recLsn[p] # 0
       THEN dirty' = dirty \cup {p} /\ just' = just \cup {p} /\ UNCHANGED queueVars
       ELSE /\ ~IsDirtyPageQueueFull(None, p) /\ HasRoom /\ TakeSlot(p, "hint")
            /\ UNCHANGED <<dirty, just>>
    /\ UNCHANGED <<wal, held, memory, unsynced, lockVars, pc, want, start, writerVars,
                   ckptVars, panic>>

FillHint(p) ==
    /\ pend[p].by = "hint"
    /\ Fill(p)
    /\ dirty' = dirty \cup {p} /\ just' = just \cup {p}
    /\ UNCHANGED <<wal, held, memory, unsynced, lockVars, backVars, writerVars, ckptVars, panic>>

\* InvalidateBuffer: the relation is gone, and with it what was to be recovered.
InvalidateBuffer(p) ==
    /\ hints < MaxHints /\ p \in dirty /\ Lockable(p)
    /\ hints' = hints + 1
    /\ RemoveDirtyPageFromQueue(p)
    /\ dirty' = dirty \ {p} /\ just' = just \ {p}
    /\ memory' = [memory EXCEPT ![p] = 0] /\ unsynced' = [unsynced EXCEPT ![p] = 0]
    /\ UNCHANGED <<wal, held, lockVars, pc, want, start, writerVars, ckptVars, panic>>

-----------------------------------------------------------------------------
(* The page writer's threads write pages and take them out of the queue. *)

\* SyncFlushOneBuffer up to the write: content lock in shared mode, BM_JUST_DIRTIED cleared.
FlushStart(p) ==
    /\ mpc # "main" /\ p \in dirty /\ Lockable(p)
    /\ io' = [io EXCEPT ![p] = "io"]
    /\ just' = just \ {p}
    /\ memory' = [memory EXCEPT ![p] = 0]
    /\ UNCHANGED <<wal, held, queueVars, unsynced, dirty, lock, waitFor, backVars, writerVars,
                   ckptVars, panic>>

\* Mutant: a change during the write is not noticed.
RedirtiedNever(p) == FALSE

Redirtied(p) == p \in just

\* TerminateBufferIO_common takes the header lock ...
FlushEnd(p) ==
    /\ io[p] = "io" /\ pend[p] = NoPend
    /\ RemoveDirtyPageFromQueue(p)
    /\ IF Redirtied(p)
       THEN io' = [io EXCEPT ![p] = "repush"] /\ UNCHANGED dirty
       ELSE io' = [io EXCEPT ![p] = "none"] /\ dirty' = dirty \ {p}
    /\ UNCHANGED <<wal, held, memory, unsynced, just, lock, waitFor, backVars, writerVars, ckptVars,
                   panic>>

\* ... and puts a page that has been changed meanwhile back.
Repush(p) ==
    /\ io[p] = "repush" /\ pend[p] = NoPend
    /\ IF HasRoom
       THEN TakeSlot(p, "flush") /\ UNCHANGED panic
       ELSE panic' = "repush" /\ UNCHANGED queueVars
    /\ UNCHANGED <<wal, held, pageVars, lockVars, backVars, writerVars, ckptVars>>

FillRepushed(p) ==
    /\ pend[p].by = "flush"
    /\ Fill(p)
    /\ io' = [io EXCEPT ![p] = "none"]
    /\ UNCHANGED <<wal, held, pageVars, lock, waitFor, backVars, writerVars, ckptVars, panic>>

-----------------------------------------------------------------------------
(* The main thread: move the head, pack the queue, have a batch flushed. *)

\* Positions up to the first slot that is not filled.
Window == {n \in head..tail - 1 : \A m \in head..n : At(m).valid}
Occupied == {n \in Window : At(n).buf # None}
Emptied == Window \ Occupied

\* The slot can be taken again, and is not valid until it is filled.
SlotLeft(n) == [slot EXCEPT ![n % Size].valid = FALSE]

\* ckpt_try_skip_invalid_elem_in_queue_head and ckpt_move_queue_head_after_flush.
MoveHead ==
    /\ mpc = "main" /\ pr = NoPrune /\ head \in Emptied
    /\ head' = head + 1
    /\ slot' = SlotLeft(head)
    /\ UNCHANGED <<wal, held, reclsn, tail, recLsn, loc, pend, pageVars, lockVars, backVars,
                   writerVars,
                   ckptVars, panic>>

\* ckpt_found_valid_and_invalid_buffer_loc finds pages and emptied slots.
CanPrune == DirtyPageNum >= PruneAt /\ Occupied # {} /\ Emptied # {}

\* A batch of pages from the head on is given to the threads; slots may have been emptied since
\* the queue was packed.
Select ==
    /\ mpc = "main" /\ pr = NoPrune /\ DirtyPageNum > 0 /\ head \notin Emptied
    /\ mpc' = "flush"
    /\ UNCHANGED <<wal, held, queueVars, pageVars, lockVars, backVars, pr, ckptVars, panic>>

\* They are done: running_num is 0.
EndFlush ==
    /\ mpc = "flush" /\ pr = NoPrune /\ \A p \in Pages : io[p] = "none"
    /\ mpc' = "main"
    /\ UNCHANGED <<wal, held, queueVars, pageVars, lockVars, backVars, pr, ckptVars, panic>>

-----------------------------------------------------------------------------
(* ckpt_try_prune_dirty_page_queue: pages are moved to the emptied slots behind them. *)

\* The pages before the last emptied slot; full_ckpt_expected_flush_loc is kept behind that.
PruneFind ==
    /\ pr = NoPrune /\ CanPrune
    /\ LET last == Max(Emptied)
           seen == {n \in Occupied : n < last}
       IN /\ pr' = IF seen = {} THEN NoPrune ELSE [seen |-> seen, last |-> last]
          /\ expected' = IF last > expected THEN last + 1 ELSE expected
    /\ UNCHANGED <<wal, held, queueVars, pageVars, lockVars, backVars, mpc,
                   cpc, target, scan, found, redo, ckpts, panic>>

\* From the last page to the first.
NextToMove == Max(pr.seen)

PruneMove ==
    /\ pr.seen # {}
    /\ LET from == NextToMove % Size
           to   == pr.last % Size
           p    == slot[from].buf
           rest == pr.seen \ {NextToMove}
           Go(last) == pr' = IF rest = {} THEN NoPrune ELSE [seen |-> rest, last |-> last]
       IN CASE p = None -> Go(pr.last) /\ UNCHANGED <<slot, loc, panic>>
            [] p # None /\ slot[to].buf # None -> panic' = "prune" /\ UNCHANGED <<slot, loc, pr>>
            [] OTHER -> /\ HeaderFree(p)
                        /\ slot' = [slot EXCEPT ![to].buf = p, ![from].buf = None]
                        /\ loc' = [loc EXCEPT ![p] = to]
                        /\ Go(pr.last - 1)
                        /\ UNCHANGED panic
    /\ UNCHANGED <<wal, held, reclsn, head, tail, recLsn, pend, pageVars, lockVars, backVars, mpc,
                   ckptVars>>

-----------------------------------------------------------------------------
(* CreateCheckPoint. *)

\* WAL inserts are suspended; the queue gets the insert position as its recovery LSN.
Start(k) ==
    /\ cpc = "idle" /\ ckpts < MaxCkpts
    /\ held' = TRUE /\ target' = wal + 1 /\ ckpts' = ckpts + 1
    /\ IF k \in {"full", "timed"} THEN RaiseRecLsn(wal + 1) ELSE UNCHANGED reclsn
    /\ IF k = "full" THEN cpc' = "tail" /\ UNCHANGED scan
                     ELSE cpc' = "scan1" /\ scan' = [NoScan EXCEPT !.at = head]
    /\ UNCHANGED <<wal, head, tail, slot, recLsn, loc, pend, pageVars, lockVars, backVars,
                   writerVars,
                   found, expected, redo, panic>>

\* Full: full_ckpt_expected_flush_loc is the tail ...
ReadTail ==
    /\ cpc = "tail" /\ cpc' = "expect"
    /\ found' = tail
    /\ UNCHANGED <<wal, held, queueVars, pageVars, lockVars, backVars, writerVars,
                   target, scan, expected, redo, ckpts, panic>>

\* ... written without prune_queue_lock; WAL inserts go on.
WriteExpected ==
    /\ cpc = "expect" /\ cpc' = "wait"
    /\ expected' = found /\ found' = 0 /\ held' = FALSE
    /\ UNCHANGED <<wal, queueVars, pageVars, lockVars, backVars, writerVars,
                   target, scan, redo, ckpts, panic>>

\* Mutant: off by one.
FlushedAlmost == head + 1 >= expected \/ DirtyPageNum = 0

\* CheckPointBuffers
Flushed == head >= expected \/ DirtyPageNum = 0

\* PageWriterSync forces to disk what has been written by now.
EndWait ==
    /\ cpc = "wait" /\ Flushed
    /\ unsynced' = memory
    /\ cpc' = "scan3" /\ scan' = [NoScan EXCEPT !.at = head]
    /\ UNCHANGED <<wal, held, queueVars, memory, dirty, just, lockVars, backVars, writerVars,
                   target, found, expected, redo, ckpts, panic>>

\* The incremental checkpoint with the minimum m: `later' when a commit remains to be done.
Decide(m) ==
    /\ held' = FALSE
    /\ \E later \in BOOLEAN :
        \/ /\ m = redo \/ later
           /\ cpc' = "idle" /\ UNCHANGED <<target, panic>>
        \/ /\ m # redo /\ ~later
           /\ IF m < redo THEN panic' = "regress" /\ UNCHANGED <<cpc, target>>
                          ELSE cpc' = "sync" /\ target' = m /\ UNCHANGED panic

\* ckpt_get_min_rec_lsn has returned lsn.
EndScan(lsn) ==
    /\ scan' = NoScan
    /\ CASE cpc = "scan1" /\ lsn = 0 ->
                cpc' = "queue" /\ UNCHANGED <<held, target, found, redo, panic>>
         [] cpc = "scan1" /\ lsn # 0 -> Decide(lsn) /\ UNCHANGED <<found, redo>>
         [] cpc = "scan2" -> /\ Decide(IF lsn = 0 \/ found < lsn THEN found ELSE lsn)
                             /\ found' = 0 /\ UNCHANGED redo
         [] cpc = "scan3" -> /\ IF lsn # 0 /\ lsn < target
                                THEN panic' = "behind" /\ UNCHANGED <<cpc, redo>>
                                ELSE cpc' = "idle" /\ redo' = target /\ UNCHANGED panic
                             /\ UNCHANGED <<held, target, found>>

\* The queue is empty: its recovery LSN, and the first page again.
ReadQueueRecLsn ==
    /\ cpc = "queue" /\ cpc' = "scan2"
    /\ found' = reclsn
    /\ scan' = [NoScan EXCEPT !.at = head]
    /\ UNCHANGED <<wal, held, queueVars, pageVars, lockVars, backVars, writerVars,
                   target, expected, redo, ckpts, panic>>

\* ckpt_get_min_rec_lsn: the slot, ...
ScanSlot ==
    /\ cpc \in {"scan1", "scan2", "scan3"} /\ scan.buf = None
    /\ IF scan.at >= tail
       THEN EndScan(0)
       ELSE /\ scan' = IF At(scan.at).valid
                       THEN [scan EXCEPT !.at = @ + 1, !.buf = At(scan.at).buf]
                       ELSE [scan EXCEPT !.at = head]
            /\ UNCHANGED <<cpc, held, target, found, redo, panic>>
    /\ UNCHANGED <<wal, queueVars, pageVars, lockVars, backVars, writerVars,
                   expected, ckpts>>

\* ... the rec_lsn of its page, ...
ScanRecLsn ==
    /\ scan.buf # None /\ scan.lsn = -1
    /\ scan' = [scan EXCEPT !.lsn = recLsn[scan.buf]]
    /\ UNCHANGED <<wal, held, queueVars, pageVars, lockVars, backVars, writerVars,
                   cpc, target, found, expected, redo, ckpts, panic>>

\* Mutant: the slot is not looked at again.
StillInSlotAlways == TRUE

StillInSlot == At(scan.at - 1).buf # None

\* ... and the slot again, which must not have been emptied meanwhile.
ScanAgain ==
    /\ scan.buf # None /\ scan.lsn # -1
    /\ IF StillInSlot /\ scan.lsn # 0
       THEN EndScan(scan.lsn)
       ELSE /\ scan' = [scan EXCEPT !.buf = None, !.lsn = -1]
            /\ UNCHANGED <<cpc, held, target, found, redo, panic>>
    /\ UNCHANGED <<wal, queueVars, pageVars, lockVars, backVars, writerVars,
                   expected, ckpts>>

\* Incremental: what has been written is forced to disk, and the control file is updated.
SetRedo ==
    /\ cpc = "sync" /\ cpc' = "idle"
    /\ unsynced' = memory
    /\ redo' = target
    /\ UNCHANGED <<wal, held, queueVars, memory, dirty, just, lockVars, backVars, writerVars,
                   target, scan, found, expected, ckpts, panic>>

-----------------------------------------------------------------------------
Backend(b) ==
    \/ LockBuffer(b) \/ UpdateWaitLockid(b) \/ Push(b) \/ FillPushed(b)
    \/ XLogInsert(b) \/ UpdateRecLsn(b)

Thread(p) == FlushStart(p) \/ FlushEnd(p) \/ Repush(p) \/ FillRepushed(p)

PageWriter == MoveHead \/ Select \/ EndFlush \/ PruneFind \/ PruneMove

Checkpointer ==
    \/ ReadTail \/ WriteExpected \/ EndWait \/ ReadQueueRecLsn
    \/ ScanSlot \/ ScanRecLsn \/ ScanAgain \/ SetRedo

Next ==
    /\ panic = "none"
    /\ \/ \E b \in Backends : Begin(b) \/ Backend(b)
       \/ \E p \in Pages : MarkBufferDirtyHint(p) \/ FillHint(p) \/ InvalidateBuffer(p) \/ Thread(p)
       \/ PageWriter
       \/ \E k \in Kinds : Start(k)
       \/ Checkpointer

Spec == Init /\ [][Next]_vars

\* A full checkpoint that has begun and not ended.
FullRuns == cpc \in {"tail", "expect", "wait", "scan3"}

\* An assumption the code does not enforce: the queue is not packed during a full checkpoint.
Apart == (FullRuns => ~PruneFind) /\ (pr # NoPrune => ~FullRuns')

ApartSpec == Init /\ [][Next /\ Apart]_vars

-----------------------------------------------------------------------------
\* The types of the variables; a queue that is not longer than the ring.
TypeOK ==
    /\ wal \in 0..MaxRecords /\ held \in BOOLEAN /\ hints \in 0..MaxHints /\ ckpts \in 0..MaxCkpts
    /\ head <= tail /\ tail <= head + Size
    /\ slot \in [0..Size - 1 -> [buf : Pages \cup {None}, valid : BOOLEAN]]
    /\ memory \in [Pages -> 0..wal] /\ unsynced \in [Pages -> 0..wal]
    /\ dirty \subseteq Pages /\ just \subseteq dirty
    /\ loc \in [Pages -> -1..Size - 1] /\ recLsn \in [Pages -> 0..wal + 1]
    /\ lock \in [Pages -> Backends \cup {None}] /\ io \in [Pages -> {"none", "io", "repush"}]
    /\ pc \in [Backends -> {"idle", "lock", "fill", "update"}]
    /\ mpc \in {"main", "flush"} /\ pr.seen \subseteq 0..tail
    /\ cpc \in {"idle", "tail", "expect", "wait", "scan1", "queue", "scan2", "scan3", "sync"}
    /\ panic \in {"none", "repush", "prune", "regress", "behind"}

\* CreateCheckPoint: a change that is not on disk has its record at or after the redo point, so
\* that recovery repeats it, whatever was dirtied, flushed and moved while the point was chosen.
RedoCovers == \A p \in Pages : unsynced[p] # 0 => unsynced[p] >= redo

\* push_pending_flush_queue, ckpt_try_prune_dirty_page_queue: the recovery LSNs of the pages rise
\* from the head to the tail; ckpt_get_min_rec_lsn looks only at the first page.
QueueOrdered ==
    \A m, n \in head..tail - 1 :
        m < n /\ At(m).buf # None /\ At(n).buf # None => recLsn[At(m).buf] <= recLsn[At(n).buf]

\* MarkBufferDirty, TerminateBufferIO_common, InvalidateBuffer: a dirty buffer is in a valid slot
\* between head and tail, and knows which (the code PANICs when it is not in the queue).
DirtyQueued ==
    \A p \in dirty : HeaderFree(p) =>
        /\ recLsn[p] # 0
        /\ \E n \in head..tail - 1 : n % Size = loc[p] /\ At(n) = [buf |-> p, valid |-> TRUE]

\* CreateCheckPoint, ckpt_try_prune_dirty_page_queue: the redo point never falls back, a full
\* checkpoint leaves no page behind its redo point, and no page is moved onto another one; the
\* code PANICs in each case.  The PANIC for want of room is RepushFindsRoom.
NoRedoPanic == panic \in {"none", "repush"}

\* PAGE_QUEUE_SLOT_MIN_RESERVE_NUM: a page that was dirtied while it was written finds a slot when
\* TerminateBufferIO_common puts it back, where it cannot wait.
RepushFindsRoom == panic # "repush"

\* A backend waits in MarkBufferDirty for room in the queue, or the full checkpoint for the head.
RoomWanted ==
    \/ \E b \in Backends : /\ MayMark(b)
                           /\ LET p == Min(Unmarked(b))
                              IN recLsn[p] = 0 /\ (IsDirtyPageQueueFull(b, p) \/ ~HasRoom)
    \/ cpc = "wait" /\ ~Flushed

\* The page writer can take a page or an emptied slot out of the queue.
QueueShrinks ==
    \/ pr # NoPrune \/ head \in Emptied
    \/ CanPrune /\ ~FullRuns /\ \E m \in Occupied, n \in Emptied : m < n
    \/ \E p \in Pages : io[p] # "none" \/ pend[p] # NoPend \/ (p \in dirty /\ lock[p] = None)

\* is_dirty_page_queue_full, update_wait_lockid: whoever waits for room, some backend, the page
\* writer or the checkpointer can go on; the holders of content locks never wait in a circle
\* with the queue.
NobodyStuck ==
    RoomWanted => QueueShrinks \/ ENABLED Checkpointer \/ \E b \in Backends : ENABLED Backend(b)
=============================================================================
