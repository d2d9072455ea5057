------------------------------- MODULE MotGc -------------------------------
(***************************************************************************)
(* The epoch based garbage collector of the MOT engine, for one key of the *)
(* primary index.  Keys meet only in the epochs, so one is enough.         *)
(*                                                                         *)
(* A session publishes the CSN of its snapshot as its epoch.  A commit     *)
(* puts what it has made obsolete in a limbo queue of its own session,     *)
(* tagged with its CSN.  At the end of a transaction the session computes  *)
(* the minimum of the published epochs and destroys the elements of its    *)
(* queues that are older.  Elements of several sessions refer to the same  *)
(* sentinel: a count of them, kept in the sentinel, says who is the last.  *)
(*                                                                         *)
(* A row is named by the CSN of the commit that published it, so that the  *)
(* version chain of a sentinel is a set of numbers, newest first.          *)
(***************************************************************************)
EXTENDS Integers, Sequences, FiniteSets, FiniteSetsExt

CONSTANTS
    Sessions,   \* sessions, each with a GcManager
    Sentinels,  \* objects of the sentinel pool
    Nobody,     \* no sentinel, no session
    MaxCsn,     \* bound: CSNs
    SkipEvery,  \* GC_MAX_ELEMENTS_TO_SKIP
    Delays      \* windows a thread may be delayed in: "epoch", "dtor"

ASSUME GcAssumption ==
    /\ IsFiniteSet(Sessions) /\ IsFiniteSet(Sentinels)
    /\ Nobody \notin Sessions \cup Sentinels
    /\ MaxCsn \in Nat \ {0} /\ SkipEvery \in Nat \ {0}
    /\ Delays \subseteq {"epoch", "dtor"}

VARIABLES
    csn,     \* nextCommitSeqNo: the global epoch
    active,  \* g_gcActiveEpoch
    glock,   \* owner of g_gcGlobalEpochLock
    index,   \* the sentinel of the key in the primary index
    used,    \* sentinels that are not in the pool
    refs,    \* [Sentinels -> Sentinel::m_refCount]
    gcRefs,  \* [Sentinels -> GcSharedInfo::m_refCount]
    minCsn,  \* [Sentinels -> GcSharedInfo::m_minCsn]
    rows,    \* [Sentinels -> the rows of the version chain]
    tombs,   \* rows that are tombstones
    hist,    \* history: [Sentinels -> all rows committed since it was allocated]
    pc,      \* [Sessions -> step]
    epoch,   \* [Sessions -> m_gcEpoch, 0 when it holds nothing back]
    snap,    \* [Sessions -> m_visibleCSN, 0 outside a transaction]
    held,    \* [Sessions -> sentinel the transaction found]
    op,      \* [Sessions -> the write of the transaction]
    mine,    \* [Sessions -> row it committed; tombstone it inserts over]
    limbo,   \* [Sessions -> [Queues -> elements]]
    dels,    \* [Sessions -> m_deleteVector]
    closing, \* [Sessions -> in GcCleanAll]
    que,     \* [Sessions -> queue being cleaned]
    perform, \* [Sessions -> m_performGcEpoch]
    fresh,   \* [Sessions -> m_isThresholdReached: the minimum is its own]
    scan,    \* [Sessions -> progress of MinActiveEpoch]
    cur      \* [Sessions -> element being destroyed, with gcSlot]

sentVars == <<index, used, refs, gcRefs, minCsn, rows, tombs, hist>>
txnVars  == <<snap, held, op, mine>>
gcVars   == <<dels, closing, que, perform, fresh, scan, cur>>
vars == <<csn, active, glock, sentVars, pc, epoch, txnVars, limbo, gcVars>>

-----------------------------------------------------------------------------
(* Limbo elements, rows. *)

\* DELETE_QUEUE, VERSION_QUEUE and GENERIC_QUEUE, in the order they are cleaned.
Queues == 1..3
QueueOf(kind) == CASE kind = "delete" -> 1 [] kind = "version" -> 2 [] kind = "sentinel" -> 3

Csn == 1..MaxCsn
Element == [kind : {"delete", "version", "sentinel"}, sent : Sentinels, row : 0..MaxCsn, csn : Csn]
NoElement == [kind |-> "none", sent |-> Nobody, row |-> 0, csn |-> 0, slot |-> 0]
NoScan == [left |-> {}, min |-> 0, others |-> FALSE]

NewestOf(S) == IF S = {} THEN 0 ELSE Max(S)

\* Sentinel::GetData
Top(x) == NewestOf(rows[x])

\* GetRowFromChain: the newest row older than the snapshot.
VisibleRow(s, x) == NewestOf({r \in rows[x] : r < snap[s]})

Elements(s) == UNION {{limbo[s][q][i] : i \in DOMAIN limbo[s][q]} : q \in Queues}

-----------------------------------------------------------------------------
Init ==
    /\ csn = 1 /\ active = 0 /\ glock = Nobody
    /\ index = Nobody /\ used = {} /\ tombs = {}
    /\ refs = [x \in Sentinels |-> 0]
    /\ gcRefs = [x \in Sentinels |-> 0]
    /\ minCsn = [x \in Sentinels |-> 0]
    /\ rows = [x \in Sentinels |-> {}]
    /\ hist = [x \in Sentinels |-> {}]
    /\ pc = [s \in Sessions |-> "closed"]
    /\ epoch = [s \in Sessions |-> 0]
    /\ snap = [s \in Sessions |-> 0]
    /\ held = [s \in Sessions |-> Nobody]
    /\ op = [s \in Sessions |-> "none"]
    /\ mine = [s \in Sessions |-> 0]
    /\ limbo = [s \in Sessions |-> [q \in Queues |-> <<>>]]
    /\ dels = [s \in Sessions |-> <<>>]
    /\ closing = [s \in Sessions |-> FALSE]
    /\ que = [s \in Sessions |-> 1]
    /\ perform = [s \in Sessions |-> 0]
    /\ fresh = [s \in Sessions |-> FALSE]
    /\ scan = [s \in Sessions |-> NoScan]
    /\ cur = [s \in Sessions |-> NoElement]

Goto(s, from, to) == pc[s] = from /\ pc' = [pc EXCEPT ![s] = to]

-----------------------------------------------------------------------------
(* A transaction.  Its first statement gets the kernel's snapshot, finds   *)
(* the sentinel and only then, in SetSnapshot, publishes its epoch.        *)

TakeSnapshot(s) ==
    /\ Goto(s, "idle", "snap")
    /\ snap' = [snap EXCEPT ![s] = csn]
    /\ UNCHANGED <<csn, active, glock, sentVars, epoch, held, op, mine, limbo, gcVars>>

FindRow(s) ==
    /\ Goto(s, "snap", "found")
    /\ held' = [held EXCEPT ![s] = index]
    /\ UNCHANGED <<csn, active, glock, sentVars, epoch, snap, op, mine, limbo, gcVars>>

\* GetCurrentSnapshotCSN
PublishedEpoch(s) == snap[s]

GcStartTxn(s) ==
    /\ Goto(s, "found", "open")
    /\ epoch' = [epoch EXCEPT ![s] = PublishedEpoch(s)]
    /\ UNCHANGED <<csn, active, glock, sentVars, txnVars, limbo, gcVars>>

\* The next statement of a READ COMMITTED transaction that has written or will:
\* FinishStatement, SetSnapshot; the epoch stays.
NextStatement(s) ==
    /\ pc[s] = "open" /\ op[s] = "none" /\ snap[s] # csn
    /\ snap' = [snap EXCEPT ![s] = csn]
    /\ held' = [held EXCEPT ![s] = index]
    /\ UNCHANGED <<csn, active, glock, sentVars, pc, epoch, op, mine, limbo, gcVars>>

\* FinishStatement of a READ COMMITTED transaction that has only read.
GcEndStatement(s) ==
    /\ Goto(s, "open", "idle") /\ op[s] = "none"
    /\ epoch' = [epoch EXCEPT ![s] = 0]
    /\ snap' = [snap EXCEPT ![s] = 0]
    /\ held' = [held EXCEPT ![s] = Nobody]
    /\ UNCHANGED <<csn, active, glock, sentVars, op, mine, limbo, gcVars>>

\* An UPDATE or a DELETE of the row the snapshot shows.
Write(s, o) ==
    /\ pc[s] = "open" /\ op[s] = "none" /\ held[s] # Nobody
    /\ VisibleRow(s, held[s]) \notin tombs \cup {0}
    /\ op' = [op EXCEPT ![s] = o]
    /\ mine' = [mine EXCEPT ![s] = VisibleRow(s, held[s])]
    /\ UNCHANGED <<csn, active, glock, sentVars, pc, epoch, snap, held, limbo, gcVars>>

\* IndexInsert of a key that has no sentinel.
InsertNew(s) ==
    /\ pc[s] = "open" /\ op[s] = "none" /\ index = Nobody
    /\ \E x \in Sentinels \ used :
        /\ index' = x /\ used' = used \cup {x}
        /\ refs' = [refs EXCEPT ![x] = 1]
        /\ gcRefs' = [gcRefs EXCEPT ![x] = 0]
        /\ minCsn' = [minCsn EXCEPT ![x] = 0]
        /\ rows' = [rows EXCEPT ![x] = {}]
        /\ hist' = [hist EXCEPT ![x] = {}]
        /\ held' = [held EXCEPT ![s] = x]
    /\ op' = [op EXCEPT ![s] = "insert"]
    /\ UNCHANGED <<csn, active, glock, tombs, pc, epoch, snap, mine, limbo, gcVars>>

\* IndexInsert on a sentinel that is there: nothing committed yet, or a tombstone
\* on top (GetNewInsertAccess).  A count of zero is RC_INDEX_RETRY_INSERT.
InsertOnSentinel(s) ==
    /\ pc[s] = "open" /\ op[s] = "none" /\ index # Nobody
    /\ refs[index] > 0
    /\ Top(index) \in tombs \cup {0}
    /\ refs' = [refs EXCEPT ![index] = @ + 1]
    /\ held' = [held EXCEPT ![s] = index]
    /\ op' = [op EXCEPT ![s] = IF rows[index] = {} THEN "insert" ELSE "upgrade"]
    /\ mine' = [mine EXCEPT ![s] = Top(index)]
    /\ UNCHANGED <<csn, active, glock, index, used, gcRefs, minCsn, rows, tombs, hist,
                   pc, epoch, snap, limbo, gcVars>>

\* ValidateOcc finds the row on top that the statement saw; the CSN is drawn and
\* the new row published under the sentinel lock.
Commit(s) ==
    /\ Goto(s, "open", "committed") /\ op[s] # "none" /\ csn < MaxCsn
    /\ Top(held[s]) = mine[s]
    /\ csn' = csn + 1
    /\ rows' = [rows EXCEPT ![held[s]] = @ \cup {csn}]
    /\ hist' = [hist EXCEPT ![held[s]] = @ \cup {csn}]
    /\ tombs' = IF op[s] = "delete" THEN tombs \cup {csn} ELSE tombs
    /\ mine' = [mine EXCEPT ![s] = csn]
    /\ UNCHANGED <<active, glock, index, used, refs, gcRefs, minCsn, epoch, snap, held, op,
                   limbo, gcVars>>

\* GcRecordObject
GcRecord(s, kind, x, row, at) ==
    /\ gcRefs' = [gcRefs EXCEPT ![x] = @ + 1]
    /\ limbo' = [limbo EXCEPT ![s][QueueOf(kind)] =
                    Append(@, [kind |-> kind, sent |-> x, row |-> row, csn |-> at])]

EndTxn(s) ==
    /\ snap' = [snap EXCEPT ![s] = 0]
    /\ held' = [held EXCEPT ![s] = Nobody]
    /\ op' = [op EXCEPT ![s] = "none"]
    /\ mine' = [mine EXCEPT ![s] = 0]

LimboKind(o) == CASE o \in {"update", "upgrade"} -> "version"
                  [] o = "delete" -> "delete"
                  [] o = "insert" -> "none"

\* Cleanup after a commit: TxnAccess::GcMaintenance.
GcMaintenance(s) ==
    /\ Goto(s, "committed", "end")
    /\ IF LimboKind(op[s]) = "none" THEN UNCHANGED <<gcRefs, limbo>>
       ELSE GcRecord(s, LimboKind(op[s]), held[s], mine[s], mine[s])
    /\ EndTxn(s)
    /\ UNCHANGED <<csn, active, glock, index, used, refs, minCsn, rows, tombs, hist, epoch, gcVars>>

\* RollbackInsert over a tombstone, RollBackUnique: the last one to leave does the
\* work of the original DELETE.
RollbackUpgrade(s) ==
    IF refs[held[s]] = 1
    THEN GcRecord(s, "delete", held[s], mine[s], csn) /\ UNCHANGED <<index, refs>>
    ELSE /\ refs' = [refs EXCEPT ![held[s]] = @ - 1]
         /\ UNCHANGED <<index, gcRefs, limbo>>

\* RollbackInsert of a key of its own: the last one takes the sentinel out of the index.
RollbackNew(s) ==
    /\ refs' = [refs EXCEPT ![held[s]] = @ - 1]
    /\ IF refs[held[s]] = 1
       THEN GcRecord(s, "sentinel", held[s], 0, csn) /\ index' = Nobody
       ELSE UNCHANGED <<index, gcRefs, limbo>>

\* The end of a transaction that has not committed: read-only, or rolled back.
Rollback(s) ==
    /\ Goto(s, "open", "end")
    /\ CASE op[s] = "insert"  -> RollbackNew(s)
         [] op[s] = "upgrade" -> RollbackUpgrade(s)
         [] OTHER             -> UNCHANGED <<index, refs, gcRefs, limbo>>
    /\ EndTxn(s)
    /\ UNCHANGED <<csn, active, glock, used, minCsn, rows, tombs, hist, epoch, gcVars>>

-----------------------------------------------------------------------------
(* GcEndTxn, RunQuicese and GcCleanAll. *)

\* GcEndTxn whose try_lock of m_managerLock fails.
SkipQuiesce(s) ==
    /\ Goto(s, "end", "idle")
    /\ epoch' = [epoch EXCEPT ![s] = 0]
    /\ UNCHANGED <<csn, active, glock, sentVars, txnVars, limbo, gcVars>>

StartCleaning(s, from, close) ==
    /\ Goto(s, from, "queue")
    /\ epoch' = [epoch EXCEPT ![s] = csn]
    /\ closing' = [closing EXCEPT ![s] = close]
    /\ que' = [que EXCEPT ![s] = 1]
    /\ UNCHANGED <<csn, active, glock, sentVars, txnVars, limbo, dels, perform, fresh, scan, cur>>

RunQuicese(s) == StartCleaning(s, "end", FALSE)

\* GcRemoveSession begins.
GcCleanAll(s) == StartCleaning(s, "idle", TRUE)

\* The next queue of the loop, or its end (where the values of this round, written
\* before they are read in the next, are cleared).
NextQueue(s) ==
    IF que[s] < 3
    THEN /\ que' = [que EXCEPT ![s] = @ + 1]
         /\ pc' = [pc EXCEPT ![s] = "queue"]
         /\ epoch' = [epoch EXCEPT ![s] = IF closing[s] THEN @ ELSE csn]
         /\ UNCHANGED <<perform, fresh, closing>>
    ELSE /\ que' = [que EXCEPT ![s] = 1]
         /\ pc' = [pc EXCEPT ![s] = IF closing[s] THEN "remove" ELSE "idle"]
         /\ epoch' = [epoch EXCEPT ![s] = 0]
         /\ perform' = [perform EXCEPT ![s] = 0]
         /\ fresh' = [fresh EXCEPT ![s] = FALSE]
         /\ closing' = [closing EXCEPT ![s] = FALSE]

\* RunQuicese finds a queue below its limit, GcCleanAll an empty one.
PassQueue(s) ==
    /\ pc[s] = "queue"
    /\ closing[s] => limbo[s][que[s]] = <<>>
    /\ NextQueue(s)
    /\ UNCHANGED <<csn, active, glock, sentVars, txnVars, limbo, dels, scan, cur>>

\* AddToGcList, RemoveFromGcList: the list of managers changes under the global lock.
ChangeGcList(s, from, to) ==
    /\ Goto(s, from, to) /\ glock = Nobody
    /\ UNCHANGED <<csn, active, glock, sentVars, epoch, txnVars, limbo, gcVars>>

AddToGcList(s) == ChangeGcList(s, "closed", "idle")
RemoveFromGcList(s) == ChangeGcList(s, "remove", "closed")

\* A queue above its limit: the known minimum is taken if something is older; else,
\* and always in GcCleanAll, a new minimum is computed.
NeedsMinimum(s) ==
    closing[s] \/ (~fresh[s] /\ active <= Head(limbo[s][que[s]]).csn)

CleanWithKnown(s) ==
    /\ Goto(s, "queue", "clean") /\ limbo[s][que[s]] # <<>>
    /\ ~NeedsMinimum(s)
    /\ epoch' = [epoch EXCEPT ![s] = csn]
    /\ perform' = [perform EXCEPT ![s] = IF fresh[s] THEN @ ELSE active]
    /\ UNCHANGED <<csn, active, glock, sentVars, txnVars, limbo, dels, closing, que, fresh,
                   scan, cur>>

\* SetActiveEpoch gets the global lock.
SetActiveEpoch(s) ==
    /\ Goto(s, "queue", "scan") /\ limbo[s][que[s]] # <<>>
    /\ NeedsMinimum(s) /\ glock = Nobody
    /\ epoch' = [epoch EXCEPT ![s] = csn]
    /\ glock' = s
    /\ scan' = [scan EXCEPT ![s] = [left   |-> {t \in Sessions : pc[t] # "closed"},
                                    min    |-> 0,
                                    others |-> FALSE]]
    /\ UNCHANGED <<csn, active, sentVars, txnVars, limbo, dels, closing, que, perform, fresh, cur>>

\* SetActiveEpoch finds the lock taken and lets the other session do it.
SetActiveEpochBusy(s) ==
    /\ Goto(s, "queue", "perform") /\ limbo[s][que[s]] # <<>>
    /\ NeedsMinimum(s) /\ glock # Nobody
    /\ epoch' = [epoch EXCEPT ![s] = csn]
    /\ scan' = [scan EXCEPT ![s] = [NoScan EXCEPT !.others = TRUE]]
    /\ UNCHANGED <<csn, active, glock, sentVars, txnVars, limbo, dels, closing, que, perform,
                   fresh, cur>>

\* Mutant: the maximum of the epochs.
LowerEpochMax(m, e) == IF e > m THEN e ELSE m

LowerEpoch(m, e) == IF m = 0 \/ e < m THEN e ELSE m

\* MinActiveEpoch looks at one manager of the list.
VisitManager(s, t) ==
    /\ pc[s] = "scan" /\ t \in scan[s].left
    /\ scan' = [scan EXCEPT ![s] =
                  [left   |-> @.left \ {t},
                   min    |-> IF epoch[t] = 0 THEN @.min ELSE LowerEpoch(@.min, epoch[t]),
                   others |-> @.others \/ (epoch[t] # 0 /\ t # s)]]
    /\ UNCHANGED <<csn, active, glock, sentVars, pc, epoch, txnVars, limbo, dels, closing, que,
                   perform, fresh, cur>>

PublishMinimum(s) ==
    /\ Goto(s, "scan", "perform") /\ scan[s].left = {}
    /\ active' = IF scan[s].min = 0 THEN csn ELSE scan[s].min
    /\ glock' = Nobody
    /\ UNCHANGED <<csn, sentVars, epoch, txnVars, limbo, gcVars>>

\* Mutant: what is tagged with the current epoch goes as well.
PerformEpochLate(s) == active + 1

\* g_gcActiveEpoch read back after the lock is free; GcCleanAll adds one in the
\* generic queue when it has seen no other active session.
PerformEpoch(s) ==
    IF closing[s] /\ que[s] = 3 /\ ~scan[s].others THEN active + 1 ELSE active

SetPerformGcEpoch(s) ==
    /\ Goto(s, "perform", "clean")
    /\ perform' = [perform EXCEPT ![s] = PerformEpoch(s)]
    /\ fresh' = [fresh EXCEPT ![s] = TRUE]
    /\ scan' = [scan EXCEPT ![s] = NoScan]
    /\ UNCHANGED <<csn, active, glock, sentVars, epoch, txnVars, limbo, dels, closing, que, cur>>

\* CleanUntil: the oldest element of the queue is before the minimum.
Ripe(s) == limbo[s][que[s]] # <<>> /\ Head(limbo[s][que[s]]).csn < perform[s]

\* Mutant: the collector forgets what the index still counts on.
RemovableUncounted(x) == gcRefs[x] = 1

\* gcSlot says last, and IsSentinelRemovable.
Removable(x) == gcRefs[x] = 1 /\ refs[x] = 0

\* The callbacks begin alike: RefCountUpdate(DEC), and the last one reclaims the
\* sentinel with its rows.
CleanElement(s) ==
    /\ pc[s] = "clean" /\ Ripe(s)
    /\ LET e == Head(limbo[s][que[s]])
           last == Removable(e.sent)
       IN /\ gcRefs' = [gcRefs EXCEPT ![e.sent] = @ - 1]
          /\ IF last
             THEN /\ used' = used \ {e.sent}
                  /\ rows' = [rows EXCEPT ![e.sent] = {}]
                  /\ hist' = [hist EXCEPT ![e.sent] = {}]
                  /\ minCsn' = [minCsn EXCEPT ![e.sent] = 0]
             ELSE UNCHANGED <<used, rows, hist, minCsn>>
          /\ IF last \/ e.kind = "sentinel" THEN UNCHANGED <<pc, cur>>
             ELSE /\ pc' = [pc EXCEPT ![s] = "dtor"]
                  /\ cur' = [cur EXCEPT ![s] = 
                        [kind |-> e.kind, sent |-> e.sent, row |-> e.row, csn |-> e.csn,
                         slot |-> gcRefs[e.sent] - 1]]
    /\ limbo' = [limbo EXCEPT ![s][que[s]] = Tail(@)]
    /\ UNCHANGED <<csn, active, glock, index, refs, tombs, epoch, txnVars, dels,
                   closing, que, perform, fresh, scan>>

\* Mutant: tombstones an earlier clean-up has counted off are counted off again.
UncountedAll(x, gone, since) ==
    {r \in gone \cap tombs : \E q \in rows[x] : q < r}

\* Tombstones among the rows that go which no earlier clean-up has counted off.
Uncounted(x, gone, since) ==
    {r \in gone \cap tombs : r > since /\ \E q \in rows[x] : q < r}

\* GCRemoveRow for n tombstones: each gives up one count of the sentinel, and at
\* zero the sentinel leaves the index for the delete vector.
GCRemoveRow(s, x, n) ==
    /\ refs' = [refs EXCEPT ![x] = @ - n]
    /\ IF n > 0 /\ refs[x] = n
       THEN /\ index' = Nobody
            /\ gcRefs' = [gcRefs EXCEPT ![x] = @ + 1]
            /\ dels' = [dels EXCEPT ![s] = Append(@, x)]
       ELSE UNCHANGED <<index, gcRefs, dels>>

\* Row::RowVersionDtor: everything below the row goes.
RowVersionDtor(s) ==
    LET e == cur[s]
        x == e.sent
        gone == {r \in rows[x] : r < e.row}
    IN /\ minCsn' = [minCsn EXCEPT ![x] = e.csn]
       /\ rows' = [rows EXCEPT ![x] = @ \ gone]
       /\ GCRemoveRow(s, x, Cardinality(Uncounted(x, gone, minCsn[x])))

\* Row::DeleteRowDtor: the tombstone stays with the row below it, the rest goes.
DeleteRowDtor(s) ==
    LET e == cur[s]
        x == e.sent
        next == NewestOf({r \in rows[x] : r < e.row})
        gone == {r \in rows[x] : r < next}
        own == IF next = 0 THEN {} ELSE {e.row}
    IN /\ minCsn' = [minCsn EXCEPT ![x] = e.csn]
       /\ rows' = [rows EXCEPT ![x] = @ \ gone]
       /\ GCRemoveRow(s, x, Cardinality(own \cup Uncounted(x, gone, minCsn[x])))

\* A clean-up of a newer row of the chain has been here.
Overtaken(e) == e.csn <= minCsn[e.sent]

\* DeleteRowDtor: a key was inserted on top.
MaySkipDelete(e) == Top(e.sent) # e.row

\* RowVersionDtor: only every so many elements of a row that was updated since.
MaySkipVersion(e) == e.slot % SkipEvery # 0 /\ Top(e.sent) # e.row

SkipDtor(s) ==
    /\ Goto(s, "dtor", "clean")
    /\ LET e == cur[s]
       IN \/ Overtaken(e)
          \/ e.kind = "delete" /\ MaySkipDelete(e)
          \/ e.kind = "version"  \* MaySkipVersion, or TryLock fails
    /\ cur' = [cur EXCEPT ![s] = NoElement]
    /\ UNCHANGED <<csn, active, glock, sentVars, epoch, txnVars, limbo, dels, closing, que,
                   perform, fresh, scan>>

Dtor(s) ==
    /\ Goto(s, "dtor", "clean")
    /\ ~Overtaken(cur[s])
    /\ \/ cur[s].kind = "version" /\ ~MaySkipVersion(cur[s]) /\ RowVersionDtor(s)
       \/ cur[s].kind = "delete" /\ ~MaySkipDelete(cur[s]) /\ DeleteRowDtor(s)
    /\ cur' = [cur EXCEPT ![s] = NoElement]
    /\ UNCHANGED <<csn, active, glock, used, tombs, hist, epoch, txnVars, limbo, closing, que,
                   perform, fresh, scan>>

\* RegisterDeletedSentinels, with the global epoch.
RegisterDeletedSentinels(s) ==
    /\ limbo' = [limbo EXCEPT ![s][3] =
                    @ \o [i \in DOMAIN dels[s] |->
                            [kind |-> "sentinel", sent |-> dels[s][i], row |-> 0, csn |-> csn]]]
    /\ dels' = [dels EXCEPT ![s] = <<>>]

\* The queue has nothing ripe left; RunQuiesce may also stop at m_rcuFreeCount.
\* GcCleanAll sleeps and looks at the queue again.
LeaveQueue(s) ==
    /\ pc[s] = "clean"
    /\ closing[s] => ~Ripe(s)
    /\ RegisterDeletedSentinels(s)
    /\ IF closing[s]
       THEN /\ pc' = [pc EXCEPT ![s] = "queue"]
            /\ epoch' = [epoch EXCEPT ![s] = 0]
            /\ UNCHANGED <<que, perform, fresh, closing>>
       ELSE NextQueue(s)
    /\ UNCHANGED <<csn, active, glock, sentVars, txnVars, scan, cur>>

-----------------------------------------------------------------------------
Transaction(s) ==
    \/ TakeSnapshot(s) \/ FindRow(s) \/ GcStartTxn(s)
    \/ NextStatement(s) \/ GcEndStatement(s)
    \/ \E o \in {"update", "delete"} : Write(s, o)
    \/ InsertNew(s) \/ InsertOnSentinel(s)
    \/ Commit(s) \/ Rollback(s)

Collector(s) ==
    \/ GcMaintenance(s)
    \/ SkipQuiesce(s) \/ RunQuicese(s)
    \/ PassQueue(s) \/ CleanWithKnown(s)
    \/ SetActiveEpoch(s) \/ SetActiveEpochBusy(s)
    \/ \E t \in Sessions : VisitManager(s, t)
    \/ PublishMinimum(s) \/ SetPerformGcEpoch(s)
    \/ CleanElement(s) \/ SkipDtor(s) \/ Dtor(s) \/ LeaveQueue(s)
    \/ RemoveFromGcList(s)

\* Not in the code: unless Delays names the window, the other threads do nothing while one
\* is in it.  What happens if they do: the run gc_epoch, README section 10.
Window == [epoch |-> {"snap", "found"}, dtor |-> {"dtor"}]
MayStep(s) ==
    \A w \in DOMAIN Window \ Delays : \A t \in Sessions \ {s} : pc[t] \notin Window[w]

Next ==
    \E s \in Sessions :
        /\ MayStep(s)
        /\ \/ AddToGcList(s) \/ GcCleanAll(s)
           \/ Transaction(s) \/ Collector(s)

Spec == Init /\ [][Next]_vars

-----------------------------------------------------------------------------
(* Properties. *)

PC == {"idle", "snap", "found", "open", "committed", "end", "queue", "scan", "perform",
       "clean", "dtor", "remove", "closed"}

\* The types of the variables; the two counts of a sentinel, which RefCountUpdate and
\* GcSharedInfo take down from several sessions, do not fall below zero.
TypeOK ==
    /\ csn \in Csn /\ active \in 0..MaxCsn /\ glock \in Sessions \cup {Nobody}
    /\ index \in Sentinels \cup {Nobody} /\ used \subseteq Sentinels /\ tombs \subseteq Csn
    /\ refs \in [Sentinels -> Nat] /\ gcRefs \in [Sentinels -> Nat]
    /\ minCsn \in [Sentinels -> 0..MaxCsn]
    /\ rows \in [Sentinels -> SUBSET Csn] /\ hist \in [Sentinels -> SUBSET Csn]
    /\ pc \in [Sessions -> PC]
    /\ epoch \in [Sessions -> 0..MaxCsn] /\ snap \in [Sessions -> 0..MaxCsn]
    /\ held \in [Sessions -> Sentinels \cup {Nobody}]
    /\ op \in [Sessions -> {"none", "update", "delete", "insert", "upgrade"}]
    /\ mine \in [Sessions -> 0..MaxCsn]
    /\ limbo \in [Sessions -> [Queues -> Seq(Element)]]
    /\ dels \in [Sessions -> Seq(Sentinels)]
    /\ closing \in [Sessions -> BOOLEAN] /\ fresh \in [Sessions -> BOOLEAN]
    /\ que \in [Sessions -> Queues] /\ perform \in [Sessions -> 0..MaxCsn + 1]
    /\ \A s \in Sessions : scan[s].left \subseteq Sessions /\ scan[s].min \in 0..MaxCsn

\* A session that works on rows.
InTxn(s) == pc[s] \in {"open", "committed"}

\* The minimum the collectors work with never passes the epoch of a session that is
\* in a transaction, however the scan of MinActiveEpoch interleaves with sessions that
\* start, end and clean; and the epoch never passes the snapshot the session reads with.
EpochBarrier ==
    \A s \in Sessions : InTxn(s) => active <= epoch[s] /\ epoch[s] <= snap[s]

\* What a transaction found stays: no session reclaims the sentinel it has looked up,
\* nor the row of the chain that its snapshot shows (GetVisibleRowVersion would follow
\* a pointer to a destroyed row, or miss the row).
VisibleRowKept ==
    \A s \in Sessions : InTxn(s) /\ held[s] # Nobody =>
        /\ held[s] \in used
        /\ LET r == NewestOf({q \in hist[held[s]] : q < snap[s]})
           IN r # 0 => r \in rows[held[s]]

\* The sentinels the lists of the sessions refer to: the delete vector is list 0, the
\* limbo queues are 1..3.
Lists ==
    [k \in Sessions \X (0..3) |->
        IF k[2] = 0 THEN dels[k[1]]
        ELSE [i \in DOMAIN limbo[k[1]][k[2]] |-> limbo[k[1]][k[2]][i].sent]]

\* The places of a family of lists where x is.
Places(lists, x) ==
    {p \in UNION {{k} \X DOMAIN lists[k] : k \in DOMAIN lists} : lists[p[1]][p[2]] = x}

\* GcSharedInfo counts the elements of all sessions that refer to the sentinel: too
\* low and the "last owner" frees it under another, too high and nobody frees it.
\* A sentinel that left the index is in some session's limbo.
GcCountExact ==
    \A x \in used :
        /\ gcRefs[x] = Cardinality(Places(Lists, x))
        /\ x # index => gcRefs[x] > 0

\* Transactions that have counted themselves in and not committed.
Inserters(x) ==
    {s \in Sessions : pc[s] = "open" /\ held[s] = x /\ op[s] \in {"insert", "upgrade"}}

\* The count of the sentinel covers everybody who relies on it: inserts under way, the
\* row on top unless it is a tombstone, and the tombstones the collector has yet to
\* count off.  GCRemoveRow and RollbackInsert take the sentinel out of the index at zero.
CountCovers ==
    \A x \in used :
        refs[x] >= Cardinality(Inserters(x))
                   + (IF Top(x) \in tombs \cup {0} THEN 0 ELSE 1)
                   + Cardinality({r \in rows[x] \cap tombs : r > minCsn[x]})

\* The clean-up of an element that no newer clean-up has overtaken finds its row in
\* place: RowVersionDtor and DeleteRowDtor follow the pointer kept in the element.
LimboRowLive ==
    \A s \in Sessions : \A e \in Elements(s) :
        e.kind # "sentinel" => e.csn <= minCsn[e.sent] \/ e.row \in rows[e.sent]

\* RollbackInsert, "We can never reach here": the last count of a sentinel is given
\* up by an insert only if nothing was ever committed on it.
RollbackFindsDirty ==
    \A s \in Sessions : pc[s] = "open" /\ op[s] = "insert" /\ refs[held[s]] = 1 =>
        hist[held[s]] = {}

\* A key that was deleted has somebody to take its sentinel out of the index: an element
\* in limbo, a transaction that will leave one, or the collector at work on it.  The
\* roll-back of an insert over a tombstone breaks it (RollbackInsert; README, section 10).
TombstoneHasOwner ==
    index # Nobody /\ Top(index) \in tombs =>
        \E s \in Sessions :
            \/ \E e \in Elements(s) : e.kind = "delete" /\ e.row = Top(index)
            \/ held[s] = index /\ op[s] \in {"upgrade", "delete"}
            \/ cur[s].kind = "delete" /\ cur[s].row = Top(index)

\* The callbacks use a sentinel that nobody has given back to the pool meanwhile:
\* after RefCountUpdate(DEC) they go on to read and lock it.  A thread that is delayed
\* there breaks it (RowVersionDtor; README, section 10).
DtorOwnsSentinel ==
    \A s \in Sessions : pc[s] = "dtor" => cur[s].sent \in used
=============================================================================
