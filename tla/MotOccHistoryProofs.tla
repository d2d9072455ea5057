------------------------ MODULE MotOccHistoryProofs ------------------------
(***************************************************************************)
(* Proofs that MOT's commit protocol loses no update, frees no sentinel    *)
(* under an insert and unlinks no version, for every number of             *)
(* transactions and keys.                                                  *)
(*                                                                         *)
(* HistInv is inductive.  The argument: a row version a transaction drafts *)
(* its write on is never newer than the newest version of its key, and is  *)
(* that version when the CSNs agree (AccessInv), which is all that         *)
(* QuickVersionCheck compares; so a validated write set is drafted on the  *)
(* published rows (CommitInv), which only the owner of the sentinel's lock *)
(* replaces; the chain of a key is its history except for what the owner   *)
(* has still to publish (RowInv).  A sentinel that leaves the index, and   *)
(* is created empty later, has no committed row, because its reference     *)
(* count covers the row and every insert that may still become one         *)
(* (RefInv).  A reader that stops spinning on a sentinel that is being     *)
(* published has seen the row of its key change since its statement began, *)
(* so the commit it meets drew its CSN after the snapshot (ReaderInv).     *)
(***************************************************************************)
EXTENDS MotOccProofs, FiniteSetTheorems

-----------------------------------------------------------------------------
(* The inductive invariant. *)

\* The versions of a key, newest first.
Ordered(h) == \A i, j \in 1..Len(h) : i <= j => h[i].csn >= h[j].csn

\* The published row of a key and its history.
RowInv(k) ==
    /\ dirty[k] <=> chain[k] = <<>>
    /\ chain[k] # <<>> => RowCsn(chain[k]) < csn
    /\ \A i \in 1..Len(hist[k]) : hist[k][i].csn < csn
    /\ Ordered(hist[k])
    /\ \A t \in Txn : Pending(t, k) => hist[k] = NewVersions(t, k, tcsn[t]) \o chain[k]
    /\ (\A t \in Txn : ~Pending(t, k)) => chain[k] = hist[k]

\* The access is drafted on a row that was committed.
Based(a) == a.type \in {"RD_FOR_UPDATE", "WR", "DEL"} \/ (a.type = "INS" /\ a.upg)

BaseOK(a, row) ==
    /\ a.base # <<>>
    /\ row # <<>>
    /\ RowCsn(a.base) <= RowCsn(row)
    /\ RowCsn(a.base) = RowCsn(row) => a.base = row
    /\ Deleted(a.base) <=> a.iod

\* What a transaction drafted its write of key k on.
AccessInv(t, k) ==
    LET a == acc[t][k] IN
    /\ Based(a) => BaseOK(a, chain[k])
    /\ Based(a) /\ ~a.iod /\ iso[t] = "RR" => RowCsn(a.base) < snap[t]
    /\ a.type = "INS" /\ ~a.upg => a.base = <<>>

\* A validated write, until it is published, replaces the published row.
Ready(t, k) == (pc[t] = "validated" /\ k \in WriteSet(t)) \/ Pending(t, k)

CommitInv(t) ==
    /\ \A k \in Key : Ready(t, k) => acc[t][k].base = chain[k]
    /\ \A k \in Key : Pending(t, k) /\ chain[k] # <<>> => RowCsn(chain[k]) < tcsn[t]
    /\ pc[t] \in {"write", "sentinel"} => tcsn[t] < csn

\* The row a statement for update found, the inserts a rollback has to undo and
\* the snapshot.
StatementInv(t) ==
    /\ pc[t] \in {"entry", "update"} => chain[cur[t].key] # <<>>
    /\ pc[t] \in {"rollback", "abortRemove"} => todo[t] \subseteq InsertSet(t)
    /\ snap[t] <= csn

\* Who holds a reference to the sentinel of key k, and who removes it.
Holders(k) == {t \in Txn : InsertPending(t, k)}
Inserters(k) == {t \in Txn : pc[t] = "insert" /\ cur[t].key = k}
Removes(t, k) == pc[t] \in {"filterRemove", "abortRemove"} /\ cur[t].key = k

Count(k) == Cardinality(Holders(k)) + Cardinality(Inserters(k)) + (IF dirty[k] THEN 0 ELSE 1)

RefInv(k) ==
    /\ IsFiniteSet(Holders(k))
    /\ IsFiniteSet(Inserters(k))
    /\ refs[k] >= Count(k)
    /\ ~present[k] => refs[k] = 0
    /\ \A t \in Txn : Removes(t, k) => refs[k] = 0 /\ present[k]
    /\ \A t, u \in Txn : Removes(t, k) /\ Removes(u, k) => t = u

\* The reader of key k has seen a newer row than the one it found at first.
SeenChange(t, k) ==
    \/ pc[t] = "read" /\ cur[t].key = k /\ cur[t].spun /\ ~dirty[k]
    \/ pc[t] = "read" /\ cur[t].key = k /\ ~cur[t].spun /\ chain[k] # cur[t].top
    \/ pc[t] = "update" /\ cur[t].key = k /\ chain[k] # cur[t].top

ReaderInv(t) ==
    \A k \in Key, u \in Txn : SeenChange(t, k) /\ Pending(u, k) => snap[t] <= tcsn[u]

RowsInv == \A k \in Key : RowInv(k)
AccessesInv == \A t \in Txn, k \in Key : AccessInv(t, k)
CommitsInv == \A t \in Txn : CommitInv(t)
StatementsInv == \A t \in Txn : StatementInv(t)
RefsInv == \A k \in Key : RefInv(k)
ReadersInv == \A t \in Txn : ReaderInv(t)

HistInv == /\ Inv
           /\ RowsInv
           /\ AccessesInv
           /\ CommitsInv
           /\ StatementsInv
           /\ RefsInv
           /\ ReadersInv

-----------------------------------------------------------------------------
(* What a step leaves alone. *)

\* A step of t keeps what belongs to the other transactions.
OwnStep(t) ==
    /\ iso' = iso
    /\ \A u \in Txn : u # t => /\ pc'[u] = pc[u]
                               /\ acc'[u] = acc[u]
                               /\ todo'[u] = todo[u]
                               /\ cur'[u] = cur[u]
                               /\ snap'[u] = snap[u]
                               /\ tcsn'[u] = tcsn[u]
                               /\ last'[u] = last[u]

\* TxnStep, shown for every action in MotOccProofs, says so.
LEMMA TxnStepIsOwn ==
    ASSUME TxnTypeOK, NEW t \in Txn, TxnStep(t)
    PROVE  OwnStep(t)
<1>1. \A u \in Txn : u # t => snap'[u] = snap[u]
  BY DEF TxnTypeOK, TxnStep, Upd
<1>2. \A u \in Txn : u # t => tcsn'[u] = tcsn[u]
  BY DEF TxnTypeOK, TxnStep, Upd
<1>3. \A u \in Txn : u # t => last'[u] = last[u]
  BY DEF TxnTypeOK, TxnStep, Upd
<1>4. iso' = iso
  BY DEF TxnStep
<1> QED  BY <1>1, <1>2, <1>3, <1>4, TxnStepType DEF OwnStep

\* The steps of a client are steps of its transaction.
LEMMA ClientStep ==
    ASSUME Inv, NEW t \in Txn, Client(t)
    PROVE  OwnStep(t)
<1>1. TypeOK /\ SentinelTypeOK /\ TxnTypeOK /\ CurInv /\ TodoInv
  BY DEF Inv, TypeOK
<1>2. TxnStep(t)
  BY <1>1, StartTransactionStep, SetSnapshotStep, LookupLocalStep, LookupNotVisibleStep,
     LookupGlobalStep, IndexInsertStep, PreAbortCheckStep, RollbackStep
  DEF Client
<1> QED  BY <1>1, <1>2, TxnStepIsOwn

\* So are those of the engine.
LEMMA EngineStep ==
    ASSUME Inv, NEW t \in Txn, Engine(t)
    PROVE  OwnStep(t)
<1>1. TypeOK /\ SentinelTypeOK /\ TxnTypeOK /\ CurInv /\ TodoInv
  BY DEF Inv, TypeOK
<1>2. TxnStep(t)
  BY <1>1, GetVisibleRowVersionStep, GetVisiblePrimaryHeaderStep,
     GetVisibleRowForUpdateEntryStep, GetVisibleRowStep, AddInsertToLocalAccessStep,
     IndexRemoveStep, LockHeaderStep, UnlockStep, LockBackoffStep, ValidateWriteSetStep,
     GetNextCSNStep, AbortValidatedStep, WriteGlobalChangesStep, WriteSentinelChangesStep,
     EndTransactionStep, AbortUnlockedStep, RollbackInsertStep, EndRollbackStep
  DEF Engine
<1> QED  BY <1>1, <1>2, TxnStepIsOwn

\* The rows and the history stay, and t is not publishing.
Quiet(t) ==
    /\ OwnStep(t)
    /\ csn' = csn
    /\ chain' = chain
    /\ dirty' = dirty
    /\ hist' = hist
    /\ pc[t] \notin {"write", "sentinel"}
    /\ pc'[t] \notin {"write", "sentinel"}

\* Only a transaction that publishes has something pending.
LEMMA PendingPc ==
    ASSUME NEW t, NEW k, pc[t] \notin {"write", "sentinel"}
    PROVE  ~Pending(t, k)
BY DEF Pending

\* What is pending depends on these variables of the transaction.
LEMMA PendingKept ==
    ASSUME NEW t, NEW k \in Key, pc'[t] = pc[t], acc'[t] = acc[t], todo'[t] = todo[t]
    PROVE  (Pending(t, k)' <=> Pending(t, k)) /\ (k \in WriteSet(t)' <=> k \in WriteSet(t))
<1>1. WriteSet(t)' = WriteSet(t) /\ InsertSet(t)' = InsertSet(t)
  BY DEF WriteSet, InsertSet
<1> QED  BY <1>1 DEF Pending

\* A quiet step leaves everything pending as it is.
LEMMA QuietPending ==
    ASSUME NEW t \in Txn, Quiet(t), NEW u \in Txn, NEW k \in Key
    PROVE  /\ Pending(u, k)' <=> Pending(u, k)
           /\ Pending(u, k) => /\ u # t
                               /\ NewVersions(u, k, tcsn[u])' = NewVersions(u, k, tcsn[u])
<1>1. CASE u = t
  BY <1>1 DEF Quiet, Pending
<1>2. CASE u # t
  BY <1>2, PendingKept DEF Quiet, OwnStep, NewVersions
<1> QED  BY <1>1, <1>2

\* A quiet step keeps the rows.
LEMMA QuietRows ==
    ASSUME RowsInv, NEW t \in Txn, Quiet(t)
    PROVE  RowsInv'
<1> SUFFICES ASSUME NEW k \in Key PROVE RowInv(k)'
  BY DEF RowsInv
<1>1. RowInv(k)
  BY DEF RowsInv
<1>2. \A u \in Txn : Pending(u, k)' <=> Pending(u, k)
  BY QuietPending
<1>3. \A u \in Txn : Pending(u, k) =>
          NewVersions(u, k, tcsn[u])' = NewVersions(u, k, tcsn[u])
  BY QuietPending
<1>4. chain' = chain /\ hist' = hist /\ csn' = csn /\ dirty' = dirty
  BY DEF Quiet
<1>5. (\A u \in Txn : Pending(u, k) => hist[k] = NewVersions(u, k, tcsn[u]) \o chain[k])'
  BY <1>1, <1>2, <1>3, <1>4 DEF RowInv
<1>6. ((\A u \in Txn : ~Pending(u, k)) => chain[k] = hist[k])'
  BY <1>1, <1>2, <1>4 DEF RowInv
<1> QED  BY <1>1, <1>4, <1>5, <1>6 DEF RowInv, Ordered

\* The other transactions keep their part of the invariant when the rows stay.
LEMMA QuietOthers ==
    ASSUME AccessesInv, CommitsInv, StatementsInv, ReadersInv,
           NEW t \in Txn, Quiet(t), NEW u \in Txn, u # t
    PROVE  /\ \A k \in Key : AccessInv(u, k)'
           /\ CommitInv(u)'
           /\ StatementInv(u)'
           /\ ReaderInv(u)'
<1>0. /\ chain' = chain /\ dirty' = dirty /\ csn' = csn /\ iso' = iso
      /\ pc'[u] = pc[u] /\ acc'[u] = acc[u] /\ todo'[u] = todo[u] /\ cur'[u] = cur[u]
      /\ snap'[u] = snap[u] /\ tcsn'[u] = tcsn[u]
  BY DEF Quiet, OwnStep
<1>1. ASSUME NEW k \in Key PROVE AccessInv(u, k)'
  BY <1>0 DEF AccessesInv, AccessInv
<1>2. \A k \in Key : (Pending(u, k)' <=> Pending(u, k)) /\ (Ready(u, k)' <=> Ready(u, k))
  BY <1>0, PendingKept DEF Ready
<1>3. CommitInv(u)'
  BY <1>0, <1>2 DEF CommitsInv, CommitInv
<1>4. StatementInv(u)'
  BY <1>0 DEF StatementsInv, StatementInv, InsertSet
<1>5. ReaderInv(u)'
  <2> SUFFICES ASSUME NEW k \in Key, NEW v \in Txn, SeenChange(u, k)', Pending(v, k)'
               PROVE  snap'[u] <= tcsn'[v]
    BY DEF ReaderInv
  <2>1. SeenChange(u, k)
    BY <1>0 DEF SeenChange
  <2>2. Pending(v, k) /\ v # t
    BY QuietPending
  <2>3. tcsn'[v] = tcsn[v]
    BY <2>2 DEF Quiet, OwnStep
  <2> QED  BY <1>0, <2>1, <2>2, <2>3 DEF ReadersInv, ReaderInv
<1> QED  BY <1>1, <1>3, <1>4, <1>5

-----------------------------------------------------------------------------
(* Steps that leave the rows alone. *)

\* What the invariant says of t itself.
OwnInv(t) == /\ \A k \in Key : AccessInv(t, k)
             /\ CommitInv(t)
             /\ StatementInv(t)
             /\ ReaderInv(t)

\* With that and the reference counts, a quiet step keeps the invariant.
LEMMA QuietKeeps ==
    ASSUME HistInv, Inv', NEW t \in Txn, Quiet(t), OwnInv(t)', RefsInv'
    PROVE  HistInv'
<1>1. RowsInv'
  BY QuietRows DEF HistInv
<1>2. \A u \in Txn : u # t => /\ \A k \in Key : AccessInv(u, k)'
                              /\ CommitInv(u)'
                              /\ StatementInv(u)'
                              /\ ReaderInv(u)'
  BY QuietOthers DEF HistInv
<1>3. AccessesInv' /\ CommitsInv' /\ StatementsInv' /\ ReadersInv'
  BY <1>2 DEF OwnInv, AccessesInv, CommitsInv, StatementsInv, ReadersInv
<1> QED  BY <1>1, <1>3 DEF HistInv

\* The newest version of a row has a CSN and a deleted flag.
LEMMA RowCsnType ==
    ASSUME NEW row \in Seq(Version), row # <<>>
    PROVE  RowCsn(row) \in Nat /\ Deleted(row) \in BOOLEAN
<1>1. 1 \in 1..Len(row)
  BY EmptySeq
<1>2. row[1] \in Version
  BY <1>1, ElementOfSeq
<1> QED  BY <1>2 DEF RowCsn, Deleted, Version

\* An access t keeps stays as good as its snapshot.
LEMMA AccessKept ==
    ASSUME HistInv, NEW t \in Txn, NEW k \in Key, chain' = chain, iso' = iso,
           acc'[t][k] = acc[t][k],
           snap'[t] = snap[t] \/ iso[t] = "RC" \/ snap[t] = 0
    PROVE  AccessInv(t, k)'
<1> DEFINE a == acc[t][k]
<1>1. AccessInv(t, k)
  BY DEF HistInv, AccessesInv
<1>2. a.base \in Seq(Version)
  BY DEF HistInv, Inv, TypeOK, TxnTypeOK, Access
<1>3. a.base # <<>> => RowCsn(a.base) \in Nat
  BY <1>2, RowCsnType
<1>4. Based(a) /\ ~a.iod /\ iso[t] = "RR" => RowCsn(a.base) < snap'[t]
  <2> SUFFICES ASSUME Based(a), ~a.iod, iso[t] = "RR" PROVE RowCsn(a.base) < snap'[t]
    OBVIOUS
  <2>1. RowCsn(a.base) < snap[t] /\ a.base # <<>>
    BY <1>1 DEF AccessInv, BaseOK
  <2>2. snap[t] # 0
    BY <1>3, <2>1
  <2> QED  BY <2>1, <2>2
<1> HIDE DEF a
<1>5. acc'[t][k] = a /\ acc[t][k] = a
  BY DEF a
<1> QED  BY <1>1, <1>4, <1>5 DEF AccessInv

\* The references to the sentinels stay, except that t may give some up.
LEMMA RefsKept ==
    ASSUME RefsInv, NEW t \in Txn, OwnStep(t), SentinelTypeOK,
           refs' = refs, present' = present, dirty' = dirty,
           \A k \in Key : InsertPending(t, k)' => InsertPending(t, k),
           pc'[t] \notin {"insert", "filterRemove", "abortRemove"}
    PROVE  RefsInv'
<1> SUFFICES ASSUME NEW k \in Key PROVE RefInv(k)'
  BY DEF RefsInv
<1>1. RefInv(k)
  BY DEF RefsInv
<1>2. \A u \in Txn : u # t => /\ InsertPending(u, k)' <=> InsertPending(u, k)
                              /\ pc'[u] = pc[u] /\ cur'[u] = cur[u]
  BY DEF OwnStep, InsertPending
<1>3. Holders(k)' \in SUBSET Holders(k)
  BY <1>2 DEF Holders
<1>4. Inserters(k)' \in SUBSET Inserters(k)
  BY <1>2 DEF Inserters
<1>5. IsFiniteSet(Holders(k)) /\ IsFiniteSet(Inserters(k))
  BY <1>1 DEF RefInv
<1>6. /\ IsFiniteSet(Holders(k)') /\ IsFiniteSet(Inserters(k)')
      /\ Cardinality(Holders(k)') <= Cardinality(Holders(k))
      /\ Cardinality(Inserters(k)') <= Cardinality(Inserters(k))
  BY <1>3, <1>4, <1>5, FS_Subset
<1>7. /\ Cardinality(Holders(k)) \in Nat /\ Cardinality(Inserters(k)) \in Nat
      /\ Cardinality(Holders(k)') \in Nat /\ Cardinality(Inserters(k)') \in Nat
  BY <1>5, <1>6, FS_CardinalityType
<1>8. refs[k] >= Count(k) /\ refs'[k] = refs[k] /\ dirty'[k] = dirty[k] /\ refs[k] \in Int
  BY <1>1 DEF RefInv, SentinelTypeOK
<1>9. Count(k)' = Cardinality(Holders(k)') + Cardinality(Inserters(k)')
                    + (IF dirty'[k] THEN 0 ELSE 1)
  BY DEF Count
<1>10. refs'[k] >= Count(k)'
  BY <1>6, <1>7, <1>8, <1>9 DEF Count
<1>11. \A u \in Txn : Removes(u, k)' => Removes(u, k)
  BY <1>2 DEF Removes
<1> QED  BY <1>1, <1>6, <1>10, <1>11 DEF RefInv

\* A step that neither touches rows nor sentinels nor looks at a row.
LEMMA PlainStep ==
    ASSUME HistInv, Inv', NEW t \in Txn, OwnStep(t),
           csn' = csn, chain' = chain, dirty' = dirty, hist' = hist,
           refs' = refs, present' = present,
           pc[t] \notin {"write", "sentinel"},
           pc'[t] \notin {"write", "sentinel", "validated", "read", "entry", "update",
                          "insert", "filterRemove", "abortRemove"},
           snap'[t] <= csn,
           pc'[t] = "rollback" => todo'[t] \subseteq InsertSet(t)',
           \A k \in Key : AccessInv(t, k)',
           \A k \in Key : InsertPending(t, k)' => InsertPending(t, k)
    PROVE  HistInv'
<1>1. Quiet(t)
  BY DEF Quiet
<1>2. CommitInv(t)'
  BY DEF CommitInv, Ready, Pending
<1>3. StatementInv(t)'
  BY DEF StatementInv
<1>4. ReaderInv(t)'
  BY DEF ReaderInv, SeenChange
<1>5. RefsInv'
  BY RefsKept DEF HistInv, Inv, TypeOK
<1> QED  BY <1>1, <1>2, <1>3, <1>4, <1>5, QuietKeeps DEF OwnInv

\* The same when t keeps its access set.
LEMMA PlainStepKeepsAccesses ==
    ASSUME HistInv, Inv', NEW t \in Txn, OwnStep(t),
           csn' = csn, chain' = chain, dirty' = dirty, hist' = hist,
           refs' = refs, present' = present, acc' = acc,
           pc[t] \notin {"write", "sentinel"},
           pc[t] = "release" => pc'[t] = "release",
           pc'[t] \notin {"write", "sentinel", "validated", "read", "entry", "update",
                          "insert", "filterRemove", "abortRemove"},
           snap'[t] <= csn,
           snap'[t] = snap[t] \/ iso[t] = "RC" \/ snap[t] = 0,
           pc'[t] = "rollback" => todo'[t] \subseteq InsertSet(t)
    PROVE  HistInv'
<1>1. \A k \in Key : AccessInv(t, k)'
  BY AccessKept DEF OwnStep
<1>2. \A k \in Key : InsertPending(t, k)' => InsertPending(t, k)
  BY DEF InsertPending
<1>3. InsertSet(t)' = InsertSet(t)
  BY DEF InsertSet
<1> QED  BY <1>1, <1>2, <1>3, PlainStep

\* The snapshot of t is not in the future, nor is the one a statement leaves.
LEMMA SnapshotPast ==
    ASSUME HistInv, NEW t \in Txn
    PROVE  /\ snap[t] \in Nat /\ csn \in Nat /\ snap[t] <= csn /\ 0 <= csn
           /\ iso[t] = "RC" \/ iso[t] = "RR"
           /\ AfterStatement(t)[t] = snap[t] \/ (AfterStatement(t)[t] = 0 /\ iso[t] = "RC")
<1>1. snap[t] \in Nat /\ csn \in Nat /\ iso[t] \in {"RC", "RR"}
  BY ConstantsAssumption DEF HistInv, Inv, TypeOK, TxnTypeOK, SentinelTypeOK
<1>2. snap[t] <= csn
  BY DEF HistInv, StatementsInv, StatementInv
<1>3. snap \in [Txn -> Nat]
  BY DEF HistInv, Inv, TypeOK, TxnTypeOK
<1> QED  BY <1>1, <1>2, <1>3 DEF AfterStatement

-----------------------------------------------------------------------------
(* The plain actions. *)

\* StartTransaction keeps the invariant.
LEMMA StartTransactionHist ==
    ASSUME HistInv, Inv', NEW t \in Txn, OwnStep(t), StartTransaction(t)
    PROVE  HistInv'
<1>1. pc[t] = "idle" /\ pc'[t] = "active"
  BY DEF StartTransaction, Goto, HistInv, Inv, TypeOK, TxnTypeOK
<1> QED  BY <1>1, SnapshotPast, PlainStepKeepsAccesses
         DEF StartTransaction, sentVars, txnVars

\* SetSnapshot keeps the invariant.
LEMMA SetSnapshotHist ==
    ASSUME HistInv, Inv', NEW t \in Txn, OwnStep(t), SetSnapshot(t)
    PROVE  HistInv'
<1>1. snap'[t] = csn
  BY DEF SetSnapshot, HistInv, Inv, TypeOK, TxnTypeOK
<1> QED  BY <1>1, SnapshotPast, PlainStepKeepsAccesses
         DEF SetSnapshot, sentVars, txnVars

\* LookupNotVisible keeps the invariant.
LEMMA LookupNotVisibleHist ==
    ASSUME HistInv, Inv', NEW t \in Txn, OwnStep(t), NEW k \in Key, NEW mode \in Modes,
           LookupNotVisible(t, k, mode)
    PROVE  HistInv'
<1>1. snap'[t] = snap[t] \/ (snap'[t] = 0 /\ iso[t] = "RC")
  BY SnapshotPast DEF LookupNotVisible
<1>2. pc[t] = "active" /\ pc' = pc
  BY DEF LookupNotVisible, BeginStatement
<1> QED  BY <1>1, <1>2, SnapshotPast, PlainStepKeepsAccesses
         DEF LookupNotVisible, sentVars

\* Rollback keeps the invariant.
LEMMA RollbackHist ==
    ASSUME HistInv, Inv', NEW t \in Txn, OwnStep(t), Rollback(t)
    PROVE  HistInv'
<1>1. pc[t] = "active" /\ pc'[t] = "rollback" /\ todo'[t] = InsertSet(t)
  BY DEF Rollback, FailStatement, Goto, HistInv, Inv, TypeOK, TxnTypeOK
<1> QED  BY <1>1, SnapshotPast, PlainStepKeepsAccesses DEF Rollback, sentVars

\* AbortUnlocked keeps the invariant.
LEMMA AbortUnlockedHist ==
    ASSUME HistInv, Inv', NEW t \in Txn, OwnStep(t), AbortUnlocked(t)
    PROVE  HistInv'
<1>1. pc[t] = "unlockAbort" /\ pc'[t] = "rollback" /\ todo'[t] = InsertSet(t)
  BY DEF AbortUnlocked, FailStatement, Goto, HistInv, Inv, TypeOK, TxnTypeOK
<1> QED  BY <1>1, SnapshotPast, PlainStepKeepsAccesses DEF AbortUnlocked, sentVars

\* AbortValidated keeps the invariant.
LEMMA AbortValidatedHist ==
    ASSUME HistInv, Inv', NEW t \in Txn, OwnStep(t), AbortValidated(t)
    PROVE  HistInv'
<1>1. pc[t] = "validated" /\ pc'[t] = "unlockAbort"
  BY DEF AbortValidated, Goto, HistInv, Inv, TypeOK, TxnTypeOK
<1> QED  BY <1>1, SnapshotPast, PlainStepKeepsAccesses DEF AbortValidated, sentVars

\* Unlock keeps the invariant.
LEMMA UnlockHist ==
    ASSUME HistInv, Inv', NEW t \in Txn, OwnStep(t), Unlock(t)
    PROVE  HistInv'
<1>1. pc[t] \in {"unlockRetry", "unlockAbort", "release"} /\ pc' = pc
  BY DEF Unlock
<1> QED  BY <1>1, SnapshotPast, PlainStepKeepsAccesses DEF Unlock

\* LockHeader keeps the invariant.
LEMMA LockHeaderHist ==
    ASSUME HistInv, Inv', NEW t \in Txn, OwnStep(t), LockHeader(t)
    PROVE  HistInv'
<1>1. pc[t] = "lock" /\ pc'[t] \in {"validate", "lock", "unlockAbort", "unlockRetry"}
  BY DEF LockHeader, Goto, HistInv, Inv, TypeOK, TxnTypeOK
<1> QED  BY <1>1, SnapshotPast, PlainStepKeepsAccesses DEF LockHeader

\* LockBackoff keeps the invariant.
LEMMA LockBackoffHist ==
    ASSUME HistInv, Inv', NEW t \in Txn, OwnStep(t), LockBackoff(t)
    PROVE  HistInv'
<1>1. /\ pc[t] = "unlockRetry" /\ pc'[t] \in {"lock", "rollback"}
      /\ pc'[t] = "rollback" => todo'[t] = InsertSet(t)
  BY DEF LockBackoff, Goto, HistInv, Inv, TypeOK, TxnTypeOK
<1> QED  BY <1>1, SnapshotPast, PlainStepKeepsAccesses DEF LockBackoff, sentVars

\* GetVisibleRowVersion keeps the invariant.
LEMMA GetVisibleRowVersionHist ==
    ASSUME HistInv, Inv', NEW t \in Txn, OwnStep(t), GetVisibleRowVersion(t)
    PROVE  HistInv'
<1>1. snap'[t] = snap[t] \/ (snap'[t] = 0 /\ iso[t] = "RC")
  BY SnapshotPast DEF GetVisibleRowVersion, FinishStatement
<1>2. pc[t] = "read" /\ pc'[t] = "active"
  BY DEF GetVisibleRowVersion, FinishStatement, Goto, HistInv, Inv, TypeOK, TxnTypeOK
<1> QED  BY <1>1, <1>2, SnapshotPast, PlainStepKeepsAccesses
         DEF GetVisibleRowVersion, sentVars

\* The accesses of t are dropped: nothing is drafted any more.
LEMMA NoAccessInv ==
    ASSUME NEW t \in Txn, NEW k \in Key, acc'[t][k] = NoAccess
    PROVE  AccessInv(t, k)' /\ ~InsertPending(t, k)'
<1>1. acc'[t][k].type = "NONE"
  BY DEF NoAccess
<1> QED  BY <1>1 DEF AccessInv, Based, InsertPending

\* EndTransaction keeps the invariant.
LEMMA EndTransactionHist ==
    ASSUME HistInv, Inv', NEW t \in Txn, OwnStep(t), EndTransaction(t)
    PROVE  HistInv'
<1>1. pc[t] = "release" /\ pc'[t] = "committed" /\ snap'[t] = 0
  BY DEF EndTransaction, Cleanup, Goto, HistInv, Inv, TypeOK, TxnTypeOK
<1>2. \A k \in Key : acc'[t][k] = NoAccess
  BY DEF EndTransaction, Cleanup, HistInv, Inv, TypeOK, TxnTypeOK
<1>3. \A k \in Key : AccessInv(t, k)' /\ (InsertPending(t, k)' => InsertPending(t, k))
  BY <1>2, NoAccessInv
<1> QED  BY <1>1, <1>3, SnapshotPast, PlainStep DEF EndTransaction, sentVars

\* EndRollback keeps the invariant.
LEMMA EndRollbackHist ==
    ASSUME HistInv, Inv', NEW t \in Txn, OwnStep(t), EndRollback(t)
    PROVE  HistInv'
<1>1. pc[t] = "rollback" /\ pc'[t] = "aborted" /\ snap'[t] = 0
  BY DEF EndRollback, Cleanup, Goto, HistInv, Inv, TypeOK, TxnTypeOK
<1>2. \A k \in Key : acc'[t][k] = NoAccess
  BY DEF EndRollback, Cleanup, HistInv, Inv, TypeOK, TxnTypeOK
<1>3. \A k \in Key : AccessInv(t, k)' /\ (InsertPending(t, k)' => InsertPending(t, k))
  BY <1>2, NoAccessInv
<1> QED  BY <1>1, <1>3, SnapshotPast, PlainStep DEF EndRollback, sentVars

\* PreAbortCheck keeps the invariant.
LEMMA PreAbortCheckHist ==
    ASSUME HistInv, Inv', NEW t \in Txn, OwnStep(t), PreAbortCheck(t)
    PROVE  HistInv'
<1>1. /\ pc[t] = "active" /\ pc'[t] \in {"release", "lock", "rollback"}
      /\ pc'[t] = "rollback" => todo'[t] = InsertSet(t)
      /\ snap' = snap
  BY DEF PreAbortCheck, Goto, HistInv, Inv, TypeOK, TxnTypeOK
<1>2. ASSUME NEW k \in Key
      PROVE  acc'[t][k] = IF acc[t][k].type \in WriteTypes THEN acc[t][k] ELSE NoAccess
  BY DEF PreAbortCheck, HistInv, Inv, TypeOK, TxnTypeOK
<1>3. ASSUME NEW k \in Key
      PROVE  AccessInv(t, k)' /\ (InsertPending(t, k)' => InsertPending(t, k))
  <2>1. CASE acc[t][k].type \in WriteTypes
    <3>1. acc'[t][k] = acc[t][k]
      BY <1>2, <2>1
    <3>2. AccessInv(t, k)'
      BY <1>1, <3>1, AccessKept DEF OwnStep, PreAbortCheck, sentVars
    <3> QED  BY <1>1, <3>1, <3>2 DEF InsertPending
  <2>2. CASE acc[t][k].type \notin WriteTypes
    BY <1>2, <2>2, NoAccessInv
  <2> QED  BY <2>1, <2>2
<1>4. InsertSet(t) \subseteq InsertSet(t)'
  BY <1>2 DEF InsertSet, WriteTypes
<1> QED  BY <1>1, <1>3, <1>4, SnapshotPast, PlainStep DEF PreAbortCheck, sentVars

-----------------------------------------------------------------------------
(* Lookups. *)

\* A step of a lookup that keeps the access set.
LEMMA LookupStep ==
    ASSUME HistInv, Inv', NEW t \in Txn, OwnStep(t),
           csn' = csn, chain' = chain, dirty' = dirty, hist' = hist,
           refs' = refs, present' = present, acc' = acc, snap' = snap,
           pc[t] \in {"active", "header", "entry"},
           pc'[t] \in {"read", "header", "entry", "update"},
           pc'[t] \in {"entry", "update"} => chain[cur'[t].key] # <<>>,
           \A k \in Key : ~SeenChange(t, k)'
    PROVE  HistInv'
<1>1. Quiet(t)
  BY DEF Quiet
<1>2. \A k \in Key : AccessInv(t, k)'
  BY AccessKept DEF OwnStep
<1>3. CommitInv(t)'
  BY DEF CommitInv, Ready, Pending
<1>4. StatementInv(t)'
  BY SnapshotPast DEF StatementInv
<1>5. ReaderInv(t)'
  BY DEF ReaderInv
<1>6. \A k \in Key : InsertPending(t, k)' => InsertPending(t, k)
  BY DEF InsertPending
<1>7. RefsInv'
  BY <1>6, RefsKept DEF HistInv, Inv, TypeOK
<1> QED  BY <1>1, <1>2, <1>3, <1>4, <1>5, <1>7, QuietKeeps DEF OwnInv

\* LookupGlobal keeps the invariant: the row it finds is the one it remembers.
LEMMA LookupGlobalHist ==
    ASSUME HistInv, Inv', NEW t \in Txn, OwnStep(t), NEW k \in Key, NEW mode \in Modes,
           LookupGlobal(t, k, mode)
    PROVE  HistInv'
<1>1. pc[t] = "active" /\ pc'[t] \in {"read", "header"}
  BY DEF LookupGlobal, BeginStatement, Goto, HistInv, Inv, TypeOK, TxnTypeOK
<1>2. cur'[t] = [key |-> k, mode |-> mode, top |-> chain[k],
                 spun |-> dirty[k] /\ lock[k] # NoTxn]
  BY DEF LookupGlobal, HistInv, Inv, TypeOK, TxnTypeOK
<1>3. cur'[t].key = k /\ cur'[t].top = chain[k] /\ (cur'[t].spun => dirty[k])
  <2> DEFINE s == dirty[k] /\ lock[k] # NoTxn
  <2>1. cur'[t] = [key |-> k, mode |-> mode, top |-> chain[k], spun |-> s]
    BY <1>2
  <2>2. s => dirty[k]
    OBVIOUS
  <2> HIDE DEF s
  <2> QED  BY <2>1, <2>2
<1>4. chain' = chain /\ dirty' = dirty
  BY DEF LookupGlobal, sentVars
<1>5. \A j \in Key : ~SeenChange(t, j)'
  BY <1>1, <1>3, <1>4 DEF SeenChange
<1> QED  BY <1>1, <1>5, LookupStep DEF LookupGlobal, sentVars

\* GetVisiblePrimaryHeader keeps the invariant: a sentinel that is not dirty has
\* a row.
LEMMA GetVisiblePrimaryHeaderHist ==
    ASSUME HistInv, Inv', NEW t \in Txn, OwnStep(t), GetVisiblePrimaryHeader(t)
    PROVE  HistInv'
<1> DEFINE k == cur[t].key
<1>0. pc \in [Txn -> PC] /\ k \in Key /\ pc[t] = "header"
  BY DEF GetVisiblePrimaryHeader, HistInv, Inv, TypeOK, TxnTypeOK, CurInv, CurOK
<1>1. CASE ~dirty[k] /\ snap[t] > start[k]
  <2>1. pc'[t] = "entry" /\ cur' = cur /\ snap' = snap
    BY <1>0, <1>1 DEF GetVisiblePrimaryHeader, Goto
  <2>2. chain[k] # <<>>
    BY <1>0, <1>1 DEF HistInv, RowsInv, RowInv
  <2>3. \A j \in Key : ~SeenChange(t, j)'
    BY <2>1 DEF SeenChange
  <2> QED  BY <1>0, <2>1, <2>2, <2>3, LookupStep DEF GetVisiblePrimaryHeader, sentVars
<1>2. CASE ~(~dirty[k] /\ snap[t] > start[k])
  <2>1. FinishStatement(t)
    BY <1>2 DEF GetVisiblePrimaryHeader
  <2>2. snap'[t] = snap[t] \/ (snap'[t] = 0 /\ iso[t] = "RC")
    BY <2>1, SnapshotPast DEF FinishStatement
  <2>3. pc'[t] = "active"
    BY <1>0, <2>1 DEF FinishStatement, Goto
  <2> QED  BY <1>0, <2>2, <2>3, SnapshotPast, PlainStepKeepsAccesses
           DEF GetVisiblePrimaryHeader, sentVars
<1> QED  BY <1>1, <1>2

\* GetVisibleRowForUpdateEntry keeps the invariant: it remembers the newest row.
LEMMA GetVisibleRowForUpdateEntryHist ==
    ASSUME HistInv, Inv', NEW t \in Txn, OwnStep(t), GetVisibleRowForUpdateEntry(t)
    PROVE  HistInv'
<1> DEFINE k == cur[t].key
<1>0. pc \in [Txn -> PC] /\ k \in Key /\ pc[t] = "entry" /\ cur[t] \in Lookup
      /\ cur \in [Txn -> Lookup] /\ todo \in [Txn -> SUBSET Key]
  BY DEF GetVisibleRowForUpdateEntry, HistInv, Inv, TypeOK, TxnTypeOK, CurInv, CurOK
<1>1. CASE snap[t] > start[k]
  <2>1. pc'[t] = "update" /\ snap' = snap /\ cur'[t] = [cur[t] EXCEPT !.top = chain[k]]
    BY <1>0, <1>1 DEF GetVisibleRowForUpdateEntry, Goto
  <2>2. cur'[t].key = k /\ cur'[t].top = chain[k]
    BY <1>0, <2>1 DEF Lookup
  <2>3. chain[k] # <<>>
    BY <1>0 DEF HistInv, StatementsInv, StatementInv
  <2>4. chain' = chain
    BY DEF GetVisibleRowForUpdateEntry, sentVars
  <2>5. \A j \in Key : ~SeenChange(t, j)'
    BY <2>1, <2>2, <2>4 DEF SeenChange
  <2> QED  BY <1>0, <2>1, <2>2, <2>3, <2>5, LookupStep
           DEF GetVisibleRowForUpdateEntry, sentVars
<1>2. CASE ~(snap[t] > start[k]) /\ iso[t] = "RR"
  <2>1. pc'[t] = "rollback" /\ todo'[t] = InsertSet(t) /\ snap' = snap
    BY <1>0, <1>2 DEF GetVisibleRowForUpdateEntry, FailStatement, Goto
  <2> QED  BY <1>0, <2>1, SnapshotPast, PlainStepKeepsAccesses
           DEF GetVisibleRowForUpdateEntry, sentVars
<1>3. CASE ~(snap[t] > start[k]) /\ iso[t] # "RR"
  <2>1. FinishStatement(t)
    BY <1>3 DEF GetVisibleRowForUpdateEntry
  <2>2. snap'[t] = snap[t] \/ (snap'[t] = 0 /\ iso[t] = "RC")
    BY <2>1, SnapshotPast DEF FinishStatement
  <2>3. pc'[t] = "active"
    BY <1>0, <2>1 DEF FinishStatement, Goto
  <2> QED  BY <1>0, <2>2, <2>3, SnapshotPast, PlainStepKeepsAccesses
           DEF GetVisibleRowForUpdateEntry, sentVars
<1> QED  BY <1>1, <1>2, <1>3

\* Another access of t stays what it was, and so does its insert.
LEMMA OtherAccess ==
    ASSUME HistInv, NEW t \in Txn, NEW k \in Key, OwnStep(t), chain' = chain,
           NEW a, acc' = [acc EXCEPT ![t][k] = a], NEW j \in Key, j # k,
           snap'[t] = snap[t] \/ iso[t] = "RC" \/ snap[t] = 0
    PROVE  acc'[t][j] = acc[t][j] /\ AccessInv(t, j)'
<1>1. acc'[t][j] = acc[t][j]
  BY DEF HistInv, Inv, TypeOK, TxnTypeOK
<1> QED  BY <1>1, AccessKept DEF OwnStep

\* The access that was replaced.
LEMMA ThisAccess ==
    ASSUME HistInv, NEW t \in Txn, NEW k \in Key, NEW a, acc' = [acc EXCEPT ![t][k] = a]
    PROVE  acc'[t][k] = a
BY DEF HistInv, Inv, TypeOK, TxnTypeOK

\* GetVisibleRow keeps the invariant: the row it maps is the newest one.
LEMMA GetVisibleRowHist ==
    ASSUME HistInv, Inv', NEW t \in Txn, OwnStep(t), GetVisibleRow(t)
    PROVE  HistInv'
<1> PICK k \in Key : k = cur[t].key
  BY DEF GetVisibleRow, HistInv, Inv, CurInv, CurOK
<1>0. /\ pc \in [Txn -> PC] /\ k \in Key /\ pc[t] = "update"
      /\ cur[t].mode \in {"RD_FOR_UPDATE", "WR", "DEL"} /\ todo \in [Txn -> SUBSET Key]
  BY DEF GetVisibleRow, HistInv, Inv, TypeOK, TxnTypeOK, CurInv, CurOK
<1>1. CASE NewerThanSnapshot(t, chain[k])
  <2>1. pc'[t] = "rollback" /\ todo'[t] = InsertSet(t) /\ snap' = snap /\ acc' = acc
    BY <1>0, <1>1 DEF GetVisibleRow, FailStatement, Goto
  <2> QED  BY <1>0, <2>1, SnapshotPast, PlainStepKeepsAccesses DEF GetVisibleRow, sentVars
<1>2. CASE ~NewerThanSnapshot(t, chain[k])
  <2>1. FinishStatement(t)
    BY <1>2 DEF GetVisibleRow
  <2>2. snap'[t] = snap[t] \/ (snap'[t] = 0 /\ iso[t] = "RC")
    BY <2>1, SnapshotPast DEF FinishStatement
  <2>3. pc'[t] = "active"
    BY <1>0, <2>1 DEF FinishStatement, Goto
  <2>4. CASE Deleted(chain[k])
    BY <1>0, <1>2, <2>2, <2>3, <2>4, SnapshotPast, PlainStepKeepsAccesses
    DEF GetVisibleRow, sentVars
  <2>5. CASE ~Deleted(chain[k])
    <3> DEFINE a == [type |-> cur[t].mode, upg |-> FALSE, iod |-> FALSE,
                     base |-> chain[k], snapshot |-> snap[t]]
    <3>1. acc' = [acc EXCEPT ![t][k] = a]
      BY <1>2, <2>5 DEF GetVisibleRow, MapRowToLocalTable
    <3>2. a.type # "INS" /\ a.iod = FALSE /\ a.base = chain[k]
      BY <1>0
    <3>3. /\ chain' = chain /\ csn' = csn /\ dirty' = dirty /\ hist' = hist
          /\ refs' = refs /\ present' = present /\ iso' = iso
      BY DEF GetVisibleRow, sentVars
    <3>4. chain[k] # <<>>
      BY <1>0 DEF HistInv, StatementsInv, StatementInv
    <3>5. iso[t] = "RR" => RowCsn(chain[k]) < snap[t]
      <4>1. chain[k] \in Seq(Version) /\ snap[t] \in Nat
        BY <1>0 DEF HistInv, Inv, TypeOK, SentinelTypeOK, TxnTypeOK
      <4>2. RowCsn(chain[k]) \in Nat
        BY <3>4, <4>1, RowCsnType
      <4> QED  BY <1>2, <4>1, <4>2 DEF NewerThanSnapshot
    <3> HIDE DEF a
    <3>6. acc'[t][k] = a
      BY <1>0, <3>1, ThisAccess
    <3>7. BaseOK(a, chain[k])
      <4>1. RowCsn(chain[k]) <= RowCsn(chain[k])
        <5>1. chain[k] \in Seq(Version)
          BY <1>0 DEF HistInv, Inv, TypeOK, SentinelTypeOK
        <5>3. RowCsn(chain[k]) \in Nat
          BY <3>4, <5>1, RowCsnType
        <5> QED  BY <5>3
      <4> QED  BY <2>5, <3>2, <3>4, <4>1 DEF BaseOK
    <3>8. iso[t] = "RR" => snap'[t] = snap[t]
      BY <2>2
    <3>9. AccessInv(t, k)'
      BY <3>2, <3>3, <3>5, <3>6, <3>7, <3>8 DEF AccessInv
    <3>10. ASSUME NEW j \in Key
           PROVE  AccessInv(t, j)' /\ (InsertPending(t, j)' => InsertPending(t, j))
      <4>1. CASE j = k
        BY <3>2, <3>6, <3>9, <4>1 DEF InsertPending
      <4>2. CASE j # k
        BY <1>0, <2>2, <3>1, <3>3, <4>2, OtherAccess DEF InsertPending
      <4> QED  BY <4>1, <4>2
    <3> QED  BY <1>0, <2>2, <2>3, <3>3, <3>10, SnapshotPast, PlainStep
  <2> QED  BY <2>4, <2>5
<1> QED  BY <1>1, <1>2

\* ValidateWriteSet keeps the invariant: a CSN stands for the row that carries it,
\* so what passes the validation is drafted on the published rows.
LEMMA ValidateWriteSetHist ==
    ASSUME HistInv, Inv', NEW t \in Txn, OwnStep(t), ValidateWriteSet(t)
    PROVE  HistInv'
<1>0. pc \in [Txn -> PC] /\ pc[t] = "validate"
  BY DEF ValidateWriteSet, HistInv, Inv, TypeOK, TxnTypeOK
<1>1. CASE pc'[t] = "validated" /\ ValidWriteSet(t)
  <2>1. Quiet(t)
    BY <1>0, <1>1 DEF Quiet, ValidateWriteSet, sentVars
  <2>2. \A k \in Key : AccessInv(t, k)'
    BY AccessKept DEF OwnStep, ValidateWriteSet, sentVars
  <2>3. ASSUME NEW k \in Key, k \in WriteSet(t)
        PROVE  acc[t][k].base = chain[k]
    <3> DEFINE a == acc[t][k]
    <3>1. QuickHeaderValidation(t, k) /\ AccessInv(t, k) /\ RowInv(k)
      BY <1>1, <2>3 DEF ValidWriteSet, HistInv, AccessesInv, RowsInv
    <3>2. a.type \in {"WR", "DEL", "INS"}
      BY <2>3 DEF WriteSet, WriteTypes
    <3>3. CASE a.type = "INS" /\ ~a.upg
      BY <3>1, <3>3 DEF QuickHeaderValidation, QuickInsertCheck, AccessInv, RowInv
    <3>4. CASE a.type = "INS" /\ a.upg
      BY <3>1, <3>4 DEF QuickHeaderValidation, QuickInsertCheck, AccessInv, Based, BaseOK
    <3>5. CASE a.type # "INS"
      BY <3>1, <3>2, <3>5
      DEF QuickHeaderValidation, QuickVersionCheck, AccessInv, Based, BaseOK
    <3> QED  BY <3>3, <3>4, <3>5
  <2>4. acc' = acc /\ chain' = chain /\ snap' = snap /\ csn' = csn
    BY DEF ValidateWriteSet, sentVars
  <2>5. CommitInv(t)'
    BY <1>1, <2>3, <2>4 DEF CommitInv, Ready, Pending, WriteSet
  <2>6. StatementInv(t)'
    BY <1>1, <2>4, SnapshotPast DEF StatementInv
  <2>7. ReaderInv(t)'
    BY <1>1 DEF ReaderInv, SeenChange
  <2>8. \A k \in Key : InsertPending(t, k)' => InsertPending(t, k)
    BY <1>0, <2>4 DEF InsertPending
  <2>9. RefsInv'
    BY <1>1, <2>8, RefsKept DEF HistInv, Inv, TypeOK, ValidateWriteSet, sentVars
  <2> QED  BY <2>1, <2>2, <2>5, <2>6, <2>7, <2>9, QuietKeeps DEF OwnInv
<1>2. CASE pc'[t] = "unlockAbort"
  BY <1>0, <1>2, SnapshotPast, PlainStepKeepsAccesses DEF ValidateWriteSet, sentVars
<1> QED  BY <1>0, <1>1, <1>2 DEF ValidateWriteSet, Goto

-----------------------------------------------------------------------------
(* The reference counts. *)

Inserting(t, k) == pc[t] = "insert" /\ cur[t].key = k

\* A set of transactions to which a step adds or from which it takes at most t.
LEMMA CountOne ==
    ASSUME NEW S, NEW R, NEW t, IsFiniteSet(S), R \ {t} = S \ {t}
    PROVE  /\ IsFiniteSet(R)
           /\ Cardinality(S) \in Nat /\ Cardinality(R) \in Nat
           /\ Cardinality(R) <= Cardinality(S) + 1
           /\ (t \in R => t \in S) => Cardinality(R) <= Cardinality(S)
           /\ t \in S /\ t \notin R => Cardinality(R) + 1 = Cardinality(S)
<1>1. IsFiniteSet(S \ {t}) /\ IsFiniteSet(R \ {t})
  BY FS_RemoveElement
<1>2. CASE t \in R
  <2>1. R = (S \ {t}) \cup {t}
    BY <1>2
  <2>2. IsFiniteSet(R) /\ Cardinality(R) = Cardinality(S \ {t}) + 1
    BY <1>1, <2>1, FS_AddElement
  <2>3. Cardinality(S \ {t}) = IF t \in S THEN Cardinality(S) - 1 ELSE Cardinality(S)
    BY FS_RemoveElement
  <2> QED  BY <1>2, <2>2, <2>3, FS_CardinalityType
<1>3. CASE t \notin R
  <2>1. R = S \ {t}
    BY <1>3
  <2>3. Cardinality(R) = IF t \in S THEN Cardinality(S) - 1 ELSE Cardinality(S)
    BY <2>1, FS_RemoveElement
  <2> QED  BY <1>1, <1>3, <2>1, <2>3, FS_CardinalityType
<1> QED  BY <1>2, <1>3

\* The references after a step of t.
LEMMA CountStep ==
    ASSUME RefsInv, NEW t \in Txn, OwnStep(t), NEW k \in Key
    PROVE  /\ IsFiniteSet(Holders(k)') /\ IsFiniteSet(Inserters(k)')
           /\ Cardinality(Holders(k)) \in Nat /\ Cardinality(Inserters(k)) \in Nat
           /\ Cardinality(Holders(k)') \in Nat /\ Cardinality(Inserters(k)') \in Nat
           /\ Cardinality(Holders(k)') <= Cardinality(Holders(k)) + 1
           /\ (InsertPending(t, k)' => InsertPending(t, k)) =>
                  Cardinality(Holders(k)') <= Cardinality(Holders(k))
           /\ InsertPending(t, k) /\ ~InsertPending(t, k)' =>
                  Cardinality(Holders(k)') + 1 = Cardinality(Holders(k))
           /\ Cardinality(Inserters(k)') <= Cardinality(Inserters(k)) + 1
           /\ (Inserting(t, k)' => Inserting(t, k)) =>
                  Cardinality(Inserters(k)') <= Cardinality(Inserters(k))
           /\ Inserting(t, k) /\ ~Inserting(t, k)' =>
                  Cardinality(Inserters(k)') + 1 = Cardinality(Inserters(k))
<1>1. IsFiniteSet(Holders(k)) /\ IsFiniteSet(Inserters(k))
  BY DEF RefsInv, RefInv
<1>2. \A u \in Txn : u # t => (InsertPending(u, k)' <=> InsertPending(u, k))
  BY DEF OwnStep, InsertPending
<1>3. \A u \in Txn : u # t => (Inserting(u, k)' <=> Inserting(u, k))
  BY DEF OwnStep, Inserting
<1>4. Holders(k)' \ {t} = Holders(k) \ {t}
  BY <1>2 DEF Holders
<1>5. Inserters(k)' \ {t} = Inserters(k) \ {t}
  BY <1>3 DEF Inserters, Inserting
<1>6. /\ t \in Holders(k) <=> InsertPending(t, k)
      /\ t \in Holders(k)' <=> InsertPending(t, k)'
  BY DEF Holders
<1>7. /\ t \in Inserters(k) <=> Inserting(t, k)
      /\ t \in Inserters(k)' <=> Inserting(t, k)'
  BY DEF Inserters, Inserting
<1>8. /\ IsFiniteSet(Holders(k)')
      /\ Cardinality(Holders(k)) \in Nat /\ Cardinality(Holders(k)') \in Nat
      /\ Cardinality(Holders(k)') <= Cardinality(Holders(k)) + 1
      /\ (t \in Holders(k)' => t \in Holders(k)) =>
             Cardinality(Holders(k)') <= Cardinality(Holders(k))
      /\ t \in Holders(k) /\ t \notin Holders(k)' =>
             Cardinality(Holders(k)') + 1 = Cardinality(Holders(k))
  BY <1>1, <1>4, CountOne
<1>9. /\ IsFiniteSet(Inserters(k)')
      /\ Cardinality(Inserters(k)) \in Nat /\ Cardinality(Inserters(k)') \in Nat
      /\ Cardinality(Inserters(k)') <= Cardinality(Inserters(k)) + 1
      /\ (t \in Inserters(k)' => t \in Inserters(k)) =>
             Cardinality(Inserters(k)') <= Cardinality(Inserters(k))
      /\ t \in Inserters(k) /\ t \notin Inserters(k)' =>
             Cardinality(Inserters(k)') + 1 = Cardinality(Inserters(k))
  BY <1>1, <1>5, CountOne
<1> QED  BY <1>6, <1>7, <1>8, <1>9

\* A sentinel of which t holds a reference is in the index and nobody removes it.
LEMMA HeldSentinel ==
    ASSUME RefsInv, SentinelTypeOK, NEW t \in Txn, NEW k \in Key,
           InsertPending(t, k) \/ Inserting(t, k)
    PROVE  /\ refs[k] >= 1 /\ present[k]
           /\ ~dirty[k] => refs[k] >= 2
           /\ \A u \in Txn : ~Removes(u, k)
<1>1. RefInv(k) /\ refs[k] \in Int /\ dirty[k] \in BOOLEAN
  BY DEF RefsInv, SentinelTypeOK
<1>2. IsFiniteSet(Holders(k)) /\ IsFiniteSet(Inserters(k))
  BY <1>1 DEF RefInv
<1>3. t \in Holders(k) \/ t \in Inserters(k)
  BY DEF Holders, Inserters, Inserting
<1>4. Cardinality(Holders(k)) \in Nat /\ Cardinality(Inserters(k)) \in Nat
  BY <1>2, FS_CardinalityType
<1>5. Cardinality(Holders(k)) # 0 \/ Cardinality(Inserters(k)) # 0
  BY <1>2, <1>3, FS_EmptySet
<1>6. refs[k] >= 1 /\ (~dirty[k] => refs[k] >= 2)
  BY <1>1, <1>4, <1>5 DEF RefInv, Count
<1> QED  BY <1>1, <1>6 DEF RefInv

\* The reference t gives back is one the count has.
LEMMA DropReference ==
    ASSUME RefsInv, SentinelTypeOK, NEW t \in Txn, NEW k \in Key, OwnStep(t),
           dirty' = dirty, present' = present, refs' = [refs EXCEPT ![k] = @ - 1],
           \A j \in Key : InsertPending(t, j)' => InsertPending(t, j),
           (InsertPending(t, k) /\ ~InsertPending(t, k)') \/ Inserting(t, k),
           pc'[t] # "insert",
           pc'[t] \in {"filterRemove", "abortRemove"} => cur'[t].key = k /\ refs'[k] = 0
    PROVE  RefsInv'
<1> SUFFICES ASSUME NEW j \in Key PROVE RefInv(j)'
  BY DEF RefsInv
<1>1. RefInv(j) /\ refs[j] \in Int /\ refs[j] >= Count(j)
  BY DEF RefsInv, RefInv, SentinelTypeOK
<1>2. ~Inserting(t, j)'
  BY DEF Inserting
<1>3. refs'[j] = IF j = k THEN refs[j] - 1 ELSE refs[j]
  BY DEF SentinelTypeOK
<1>4. Count(j)' = Cardinality(Holders(j)') + Cardinality(Inserters(j)')
                    + (IF dirty[j] THEN 0 ELSE 1)
  BY DEF Count
<1>5. refs[k] >= 1 /\ present[k] /\ \A u \in Txn : ~Removes(u, k)
  BY HeldSentinel
<1>6. \A u \in Txn : u # t => (Removes(u, j)' <=> Removes(u, j))
  BY DEF OwnStep, Removes
<1>7. /\ IsFiniteSet(Holders(j)') /\ IsFiniteSet(Inserters(j)')
      /\ Cardinality(Holders(j)) \in Nat /\ Cardinality(Inserters(j)) \in Nat
      /\ Cardinality(Holders(j)') \in Nat /\ Cardinality(Inserters(j)') \in Nat
      /\ Cardinality(Holders(j)') <= Cardinality(Holders(j))
      /\ Cardinality(Inserters(j)') <= Cardinality(Inserters(j))
      /\ InsertPending(t, j) /\ ~InsertPending(t, j)' =>
             Cardinality(Holders(j)') + 1 = Cardinality(Holders(j))
      /\ Inserting(t, j) => Cardinality(Inserters(j)') + 1 = Cardinality(Inserters(j))
  BY <1>2, CountStep
<1>8. CASE j = k
  <2>1. refs'[j] >= Count(j)'
    BY <1>1, <1>3, <1>4, <1>7, <1>8 DEF Count
  <2>2. \A u \in Txn : Removes(u, j)' => u = t /\ refs'[j] = 0
    BY <1>5, <1>6, <1>8 DEF Removes
  <2> QED  BY <1>5, <1>7, <1>8, <2>1, <2>2 DEF RefInv
<1>9. CASE j # k
  <2>1. refs'[j] >= Count(j)'
    BY <1>1, <1>3, <1>4, <1>7, <1>9 DEF Count
  <2>2. \A u \in Txn : Removes(u, j)' => Removes(u, j)
    BY <1>6, <1>9 DEF Removes
  <2> QED  BY <1>1, <1>3, <1>7, <1>9, <2>1, <2>2 DEF RefInv
<1> QED  BY <1>8, <1>9

\* The reference t takes: of a sentinel in use, or of the one it creates.
LEMMA AddReference ==
    ASSUME RefsInv, SentinelTypeOK, NEW t \in Txn, NEW k \in Key, OwnStep(t),
           dirty' = dirty, refs' = [refs EXCEPT ![k] = @ + 1],
           present' = [present EXCEPT ![k] = TRUE],
           refs[k] > 0 \/ ~present[k],
           \A j \in Key : InsertPending(t, j)' => InsertPending(t, j),
           pc'[t] = "insert", cur'[t].key = k
    PROVE  RefsInv'
<1> SUFFICES ASSUME NEW j \in Key PROVE RefInv(j)'
  BY DEF RefsInv
<1>1. RefInv(j) /\ refs[j] \in Int /\ refs[j] >= Count(j)
  BY DEF RefsInv, RefInv, SentinelTypeOK
<1>2. j # k => ~Inserting(t, j)'
  BY DEF Inserting
<1>3. /\ refs'[j] = IF j = k THEN refs[j] + 1 ELSE refs[j]
      /\ present'[j] = IF j = k THEN TRUE ELSE present[j]
  BY DEF SentinelTypeOK
<1>4. Count(j)' = Cardinality(Holders(j)') + Cardinality(Inserters(j)')
                    + (IF dirty[j] THEN 0 ELSE 1)
  BY DEF Count
<1>5. \A u \in Txn : ~Removes(u, k)
  BY DEF RefsInv, RefInv
<1>6. \A u \in Txn : Removes(u, j)' => Removes(u, j)
  BY DEF OwnStep, Removes
<1>7. /\ IsFiniteSet(Holders(j)') /\ IsFiniteSet(Inserters(j)')
      /\ Cardinality(Holders(j)) \in Nat /\ Cardinality(Inserters(j)) \in Nat
      /\ Cardinality(Holders(j)') \in Nat /\ Cardinality(Inserters(j)') \in Nat
      /\ Cardinality(Holders(j)') <= Cardinality(Holders(j))
      /\ Cardinality(Inserters(j)') <= Cardinality(Inserters(j)) + 1
      /\ j # k => Cardinality(Inserters(j)') <= Cardinality(Inserters(j))
  BY <1>2, CountStep
<1>8. refs'[j] >= Count(j)'
  BY <1>1, <1>3, <1>4, <1>7 DEF Count
<1>9. CASE j = k
  BY <1>3, <1>5, <1>6, <1>7, <1>8, <1>9 DEF RefInv
<1>10. CASE j # k
  BY <1>1, <1>3, <1>6, <1>7, <1>8, <1>10 DEF RefInv
<1> QED  BY <1>9, <1>10

\* The reference of an insert passes to the access that drafts its row.
LEMMA MoveReference ==
    ASSUME RefsInv, SentinelTypeOK, NEW t \in Txn, NEW k \in Key, OwnStep(t),
           dirty' = dirty, refs' = refs, present' = present,
           Inserting(t, k),
           \A j \in Key : j # k => (InsertPending(t, j)' => InsertPending(t, j)),
           pc'[t] \notin {"insert", "filterRemove", "abortRemove"}
    PROVE  RefsInv'
<1> SUFFICES ASSUME NEW j \in Key PROVE RefInv(j)'
  BY DEF RefsInv
<1>1. RefInv(j) /\ refs[j] \in Int /\ refs[j] >= Count(j)
  BY DEF RefsInv, RefInv, SentinelTypeOK
<1>2. ~Inserting(t, j)'
  BY DEF Inserting
<1>4. Count(j)' = Cardinality(Holders(j)') + Cardinality(Inserters(j)')
                    + (IF dirty[j] THEN 0 ELSE 1)
  BY DEF Count
<1>6. \A u \in Txn : Removes(u, j)' => Removes(u, j)
  BY DEF OwnStep, Removes
<1>7. /\ IsFiniteSet(Holders(j)') /\ IsFiniteSet(Inserters(j)')
      /\ Cardinality(Holders(j)) \in Nat /\ Cardinality(Inserters(j)) \in Nat
      /\ Cardinality(Holders(j)') \in Nat /\ Cardinality(Inserters(j)') \in Nat
      /\ Cardinality(Holders(j)') <= Cardinality(Holders(j)) + 1
      /\ j # k => Cardinality(Holders(j)') <= Cardinality(Holders(j))
      /\ Cardinality(Inserters(j)') <= Cardinality(Inserters(j))
      /\ j = k => Cardinality(Inserters(j)') + 1 = Cardinality(Inserters(j))
  BY <1>2, CountStep
<1>8. refs'[j] >= Count(j)'
  BY <1>1, <1>4, <1>7 DEF Count
<1> QED  BY <1>1, <1>6, <1>7, <1>8 DEF RefInv

-----------------------------------------------------------------------------
(* The actions that count references. *)

\* A quiet step into a state that neither looks at a row nor commits.
LEMMA ReferenceStep ==
    ASSUME HistInv, Inv', NEW t \in Txn, OwnStep(t), RefsInv',
           csn' = csn, chain' = chain, dirty' = dirty, hist' = hist,
           pc[t] \notin {"write", "sentinel"},
           pc'[t] \notin {"write", "sentinel", "validated", "read", "entry", "update"},
           snap'[t] <= csn,
           pc'[t] \in {"rollback", "abortRemove"} => todo'[t] \subseteq InsertSet(t)',
           \A k \in Key : AccessInv(t, k)'
    PROVE  HistInv'
<1>1. Quiet(t)
  BY DEF Quiet
<1>2. CommitInv(t)'
  BY DEF CommitInv, Ready, Pending
<1>3. StatementInv(t)'
  BY DEF StatementInv
<1>4. ReaderInv(t)'
  BY DEF ReaderInv, SeenChange
<1> QED  BY <1>1, <1>2, <1>3, <1>4, QuietKeeps DEF OwnInv

\* RollbackInsert of an upgrading insert finds the count of the committed row, too:
\* the count goes down by one whichever kind the insert is.
LEMMA RollbackRefsDrops ==
    ASSUME HistInv, NEW t \in Txn, NEW k \in Key, InsertPending(t, k)
    PROVE  RollbackRefs(t, k) = [refs EXCEPT ![k] = @ - 1]
<1> DEFINE a == acc[t][k]
<1>1. AccessInv(t, k) /\ RowInv(k) /\ RefsInv /\ SentinelTypeOK
  BY DEF HistInv, AccessesInv, RowsInv, Inv, TypeOK
<1>2. a.type = "INS" /\ a.upg => chain[k] # <<>>
  BY <1>1 DEF AccessInv, Based, BaseOK
<1>3. a.upg => ~dirty[k]
  BY <1>1, <1>2 DEF RowInv, InsertPending
<1>4. a.upg => refs[k] >= 2
  BY <1>1, <1>3, HeldSentinel
<1>5. refs \in [Key -> Int]
  BY <1>1 DEF SentinelTypeOK
<1>6. ~(a.upg /\ refs[k] = 1)
  BY <1>4, <1>5
<1> QED  BY <1>6 DEF RollbackRefs

\* LookupLocal keeps the invariant when it only changes the type of an access.
LEMMA LookupLocalRetypes ==
    ASSUME HistInv, Inv', NEW t \in Txn, OwnStep(t), NEW k \in Key, NEW mode \in Modes,
           LookupLocal(t, k, mode), ~(acc[t][k].type = "INS" /\ mode = "DEL")
    PROVE  HistInv'
<1> DEFINE a == acc[t][k]
           b == [a EXCEPT !.type = NextType(a.type, mode)]
<1>1. snap'[t] = snap[t] \/ (snap'[t] = 0 /\ iso[t] = "RC")
  BY SnapshotPast DEF LookupLocal
<1>2. /\ pc[t] = "active" /\ pc' = pc /\ cur' = cur
      /\ csn' = csn /\ chain' = chain /\ dirty' = dirty /\ hist' = hist
      /\ refs' = refs /\ present' = present
  BY DEF LookupLocal, BeginStatement, sentVars
<1>3. CASE acc' = acc
  BY <1>1, <1>2, <1>3, SnapshotPast, PlainStepKeepsAccesses
<1>4. CASE acc' # acc
  <2>1. acc' = [acc EXCEPT ![t][k] = b] /\ a.type # "DEL" /\ a.type # "NONE"
    BY <1>4 DEF LookupLocal
  <2>2. a \in Access
    BY DEF HistInv, Inv, TypeOK, TxnTypeOK
  <2>3. a.type \in {"RD_FOR_UPDATE", "WR", "INS"}
    BY <2>1, <2>2 DEF Access, AccessType
  <2>4. IF a.type = "INS" THEN NextType(a.type, mode) = "INS"
        ELSE NextType(a.type, mode) \in {"RD_FOR_UPDATE", "WR", "DEL"}
    BY <2>3 DEF NextType, Modes
  <2>5. /\ b.upg = a.upg /\ b.iod = a.iod /\ b.base = a.base
        /\ b.type = NextType(a.type, mode)
    BY <2>2 DEF Access
  <2>6. AccessInv(t, k)
    BY DEF HistInv, AccessesInv
  <2> HIDE DEF b
  <2>7. acc'[t][k] = b
    BY <2>1, ThisAccess
  <2>8. Based(b) <=> Based(a)
    BY <2>3, <2>4, <2>5 DEF Based
  <2>9. Based(a) => BaseOK(b, chain[k])
    BY <2>5, <2>6 DEF AccessInv, BaseOK
  <2>10. AccessInv(t, k)'
    <3>1. iso' = iso
      BY DEF OwnStep
    <3>2. Based(b) /\ ~b.iod /\ iso[t] = "RR" => RowCsn(b.base) < snap'[t]
      BY <1>1, <2>5, <2>6, <2>8 DEF AccessInv
    <3>3. b.type = "INS" /\ ~b.upg => b.base = <<>>
      BY <2>4, <2>5, <2>6 DEF AccessInv
    <3> QED  BY <1>2, <2>7, <2>8, <2>9, <3>1, <3>2, <3>3 DEF AccessInv
  <2>11. ASSUME NEW j \in Key
         PROVE  AccessInv(t, j)' /\ (InsertPending(t, j)' => InsertPending(t, j))
    <3>1. CASE j = k
      BY <1>2, <2>4, <2>5, <2>7, <2>10, <3>1 DEF InsertPending
    <3>2. CASE j # k
      BY <1>1, <1>2, <2>1, <3>2, OtherAccess DEF InsertPending
    <3> QED  BY <3>1, <3>2
  <2> QED  BY <1>1, <1>2, <2>11, SnapshotPast, PlainStep
<1> QED  BY <1>3, <1>4

\* LookupLocal keeps the invariant when it undoes the insert it deletes.
LEMMA LookupLocalFilters ==
    ASSUME HistInv, Inv', NEW t \in Txn, OwnStep(t), NEW k \in Key, NEW mode \in Modes,
           LookupLocal(t, k, mode), acc[t][k].type = "INS", mode = "DEL"
    PROVE  HistInv'
<1> DEFINE a == acc[t][k]
           b == IF a.upg /\ ~a.iod THEN [a EXCEPT !.type = "DEL", !.upg = FALSE]
                ELSE NoAccess
<1>1. snap'[t] = snap[t] \/ (snap'[t] = 0 /\ iso[t] = "RC")
  BY SnapshotPast DEF LookupLocal
<1>2. /\ pc[t] = "active"
      /\ csn' = csn /\ chain' = chain /\ dirty' = dirty /\ hist' = hist
      /\ present' = present
      /\ FilterOrderedSet(t, k)
  BY DEF LookupLocal, BeginStatement
<1>3. acc' = [acc EXCEPT ![t][k] = b] /\ refs' = RollbackRefs(t, k)
  BY <1>2 DEF FilterOrderedSet
<1>4. pc'[t] = "active" \/ (pc'[t] = "filterRemove" /\ refs'[k] = 0 /\ cur'[t].key = k)
  BY <1>2 DEF FilterOrderedSet, Goto, HistInv, Inv, TypeOK, TxnTypeOK, Lookup
<1>5. InsertPending(t, k)
  BY <1>2 DEF InsertPending
<1>6. refs' = [refs EXCEPT ![k] = @ - 1]
  BY <1>3, <1>5, RollbackRefsDrops
<1>7. a \in Access
  BY DEF HistInv, Inv, TypeOK, TxnTypeOK
<1>8. b.type # "INS"
  BY <1>7 DEF NoAccess, Access
<1>9. AccessInv(t, k)
  BY DEF HistInv, AccessesInv
<1>10. Based(b) => Based(a) /\ b.base = a.base /\ b.iod = a.iod
  BY <1>7 DEF Based, NoAccess, Access
<1> HIDE DEF b
<1>11. acc'[t][k] = b
  BY <1>3, ThisAccess
<1>12. AccessInv(t, k)'
  <2>1. Based(b) => BaseOK(b, chain[k])
    BY <1>9, <1>10 DEF AccessInv, BaseOK
  <2>2. Based(b) /\ ~b.iod /\ iso[t] = "RR" => RowCsn(b.base) < snap'[t]
    BY <1>1, <1>9, <1>10 DEF AccessInv
  <2>3. iso' = iso
    BY DEF OwnStep
  <2> QED  BY <1>2, <1>8, <1>11, <2>1, <2>2, <2>3 DEF AccessInv
<1>13. ASSUME NEW j \in Key
       PROVE  AccessInv(t, j)' /\ (InsertPending(t, j)' => InsertPending(t, j))
  <2>1. CASE j = k
    BY <1>8, <1>11, <1>12, <2>1 DEF InsertPending
  <2>2. CASE j # k
    BY <1>1, <1>2, <1>3, <2>2, OtherAccess DEF InsertPending
  <2> QED  BY <2>1, <2>2
<1>14. ~InsertPending(t, k)'
  BY <1>8, <1>11 DEF InsertPending
<1>15. RefsInv'
  BY <1>2, <1>4, <1>5, <1>6, <1>13, <1>14, DropReference DEF HistInv, Inv, TypeOK
<1> QED  BY <1>1, <1>2, <1>4, <1>13, <1>15, SnapshotPast, ReferenceStep

\* A sentinel that is not in the index is created as it was left: without a row.
LEMMA AbsentIsEmpty ==
    ASSUME HistInv, NEW k \in Key, ~present[k]
    PROVE  chain[k] = <<>> /\ dirty[k] /\ refs[k] = 0
<1>1. RefInv(k) /\ RowInv(k) /\ dirty[k] \in BOOLEAN
  BY DEF HistInv, RefsInv, RowsInv, Inv, TypeOK, SentinelTypeOK
<1>2. refs[k] = 0 /\ refs[k] >= Count(k)
  BY <1>1 DEF RefInv
<1>3. Cardinality(Holders(k)) \in Nat /\ Cardinality(Inserters(k)) \in Nat
  BY <1>1, FS_CardinalityType DEF RefInv
<1>4. dirty[k]
  BY <1>1, <1>2, <1>3 DEF Count
<1> QED  BY <1>1, <1>2, <1>4 DEF RowInv

\* IndexInsert keeps the invariant.
LEMMA IndexInsertHist ==
    ASSUME HistInv, Inv', NEW t \in Txn, OwnStep(t), NEW k \in Key, IndexInsert(t, k)
    PROVE  HistInv'
<1>0. /\ SentinelTypeOK /\ TxnTypeOK /\ RefsInv
      /\ pc[t] = "active" /\ acc' = acc /\ snap' = snap /\ csn' = csn /\ hist' = hist
  BY DEF IndexInsert, BeginStatement, HistInv, Inv, TypeOK
<1>1. \A j \in Key : AccessInv(t, j)' \/ chain' # chain
  BY <1>0, AccessKept DEF OwnStep
<1>2. \A j \in Key : InsertPending(t, j)' => InsertPending(t, j)
  BY <1>0 DEF InsertPending
<1>3. CASE ~present[k]
  <2>1. chain[k] = <<>> /\ dirty[k] /\ refs[k] = 0
    BY <1>3, AbsentIsEmpty
  <2>2. chain' = chain /\ dirty' = dirty
    <3>1. chain' = [chain EXCEPT ![k] = <<>>] /\ dirty' = [dirty EXCEPT ![k] = TRUE]
      BY <1>3 DEF IndexInsert
    <3>2. dirty[k] = TRUE
      BY <1>0, <2>1 DEF SentinelTypeOK
    <3> QED  BY <1>0, <2>1, <3>1, <3>2 DEF SentinelTypeOK
  <2>3. pc'[t] = "insert" /\ cur'[t].key = k
    BY <1>0, <1>3 DEF IndexInsert, Goto, TxnTypeOK, Lookup
  <2>4. refs' = [refs EXCEPT ![k] = @ + 1] /\ present' = [present EXCEPT ![k] = TRUE]
    BY <1>3, <2>1 DEF IndexInsert
  <2>5. RefsInv'
    BY <1>0, <1>2, <1>3, <2>2, <2>3, <2>4, AddReference
  <2> QED  BY <1>0, <1>1, <2>2, <2>3, <2>5, SnapshotPast, ReferenceStep
<1>4. CASE present[k] /\ pc'[t] = "insert"
  <2>1. /\ refs[k] > 0 /\ chain' = chain /\ dirty' = dirty /\ present' = present
        /\ refs' = [refs EXCEPT ![k] = @ + 1] /\ cur'[t].key = k
    BY <1>0, <1>4
    DEF IndexInsert, SentinelUsable, RefCountInc, FailStatement, Goto, TxnTypeOK, Lookup
  <2>2. present' = [present EXCEPT ![k] = TRUE]
    <3>1. present[k] = TRUE /\ present \in [Key -> BOOLEAN]
      BY <1>0, <1>4 DEF SentinelTypeOK
    <3> QED  BY <2>1, <3>1
  <2>3. RefsInv'
    BY <1>0, <1>2, <1>4, <2>1, <2>2, AddReference
  <2> QED  BY <1>0, <1>1, <1>4, <2>1, <2>3, SnapshotPast, ReferenceStep
<1>5. CASE present[k] /\ pc'[t] # "insert"
  <2>1. /\ FailStatement(t) /\ refs' = refs
        /\ chain' = chain /\ dirty' = dirty /\ present' = present
    BY <1>0, <1>5 DEF IndexInsert, Goto, TxnTypeOK
  <2>2. pc'[t] = "rollback" /\ todo'[t] = InsertSet(t)
    BY <1>0, <2>1 DEF FailStatement, Goto, TxnTypeOK
  <2> QED  BY <1>0, <2>1, <2>2, SnapshotPast, PlainStepKeepsAccesses
<1> QED  BY <1>3, <1>4, <1>5

\* AddInsertToLocalAccess keeps the invariant when it drafts the row with access b.
LEMMA InsertMapped ==
    ASSUME HistInv, Inv', NEW t \in Txn, OwnStep(t), NEW k \in Key, NEW b,
           pc[t] = "insert", cur[t].key = k,
           csn' = csn, chain' = chain, dirty' = dirty, hist' = hist,
           present' = present, refs' = refs,
           acc' = [acc EXCEPT ![t][k] = b], FinishStatement(t),
           Based(b) => BaseOK(b, chain[k]),
           Based(b) /\ ~b.iod /\ iso[t] = "RR" => RowCsn(b.base) < snap[t],
           b.type = "INS" /\ ~b.upg => b.base = <<>>
    PROVE  HistInv'
<1>1. snap'[t] = snap[t] \/ (snap'[t] = 0 /\ iso[t] = "RC")
  BY SnapshotPast DEF FinishStatement
<1>2. pc'[t] = "active"
  BY DEF FinishStatement, Goto, HistInv, Inv, TypeOK, TxnTypeOK
<1>3. acc'[t][k] = b /\ iso' = iso
  BY ThisAccess DEF OwnStep
<1>4. AccessInv(t, k)'
  BY <1>1, <1>3 DEF AccessInv
<1>5. ASSUME NEW j \in Key
      PROVE  AccessInv(t, j)' /\ (j # k => (InsertPending(t, j)' => InsertPending(t, j)))
  <2>1. CASE j = k
    BY <1>4, <2>1
  <2>2. CASE j # k
    BY <1>1, <2>2, OtherAccess DEF InsertPending
  <2> QED  BY <2>1, <2>2
<1>6. RefsInv'
  BY <1>2, <1>5, MoveReference DEF Inserting, HistInv, Inv, TypeOK
<1> QED  BY <1>1, <1>2, <1>5, <1>6, SnapshotPast, ReferenceStep

\* AddInsertToLocalAccess keeps the invariant.
LEMMA AddInsertToLocalAccessHist ==
    ASSUME HistInv, Inv', NEW t \in Txn, OwnStep(t), AddInsertToLocalAccess(t)
    PROVE  HistInv'
<1> PICK k \in Key : k = cur[t].key
  BY DEF AddInsertToLocalAccess, HistInv, Inv, CurInv, CurOK
<1> DEFINE a == acc[t][k]
<1>0. /\ pc[t] = "insert" /\ cur[t].key = k
      /\ csn' = csn /\ chain' = chain /\ dirty' = dirty /\ hist' = hist
      /\ present' = present
  BY DEF AddInsertToLocalAccess
<1>1. RowInv(k) /\ AccessInv(t, k) /\ a \in Access /\ chain[k] \in Seq(Version)
  <2>1. RowInv(k) /\ AccessInv(t, k)
    BY DEF HistInv, RowsInv, AccessesInv
  <2>2. a \in Access
    BY DEF HistInv, Inv, TypeOK, TxnTypeOK
  <2>3. chain[k] \in Seq(Version)
    BY DEF HistInv, Inv, TypeOK, SentinelTypeOK
  <2> QED  BY <2>1, <2>2, <2>3
<1>2. CASE /\ ~dirty[k] /\ a.type = "NONE" /\ Deleted(chain[k])
           /\ acc' = [acc EXCEPT ![t][k] = InsertAccess(chain[k], snap[t], TRUE, TRUE)]
           /\ FinishStatement(t) /\ refs' = refs
  <2> DEFINE b == InsertAccess(chain[k], snap[t], TRUE, TRUE)
  <2>1. b.base = chain[k] /\ b.iod = TRUE /\ b.upg = TRUE /\ b.type = "INS"
    BY DEF InsertAccess
  <2>2. chain[k] # <<>>
    BY <1>1, <1>2 DEF RowInv
  <2>3. RowCsn(chain[k]) \in Nat
    BY <1>1, <2>2, RowCsnType
  <2>4. acc' = [acc EXCEPT ![t][k] = b]
    BY <1>2
  <2> HIDE DEF b
  <2>5. BaseOK(b, chain[k])
    BY <1>2, <2>1, <2>2, <2>3 DEF BaseOK
  <2> QED  BY <1>0, <1>2, <2>1, <2>4, <2>5, InsertMapped
<1>3. CASE /\ a.type = "DEL"
           /\ acc' = [acc EXCEPT ![t][k] = [a EXCEPT !.type = "INS", !.upg = TRUE]]
           /\ FinishStatement(t) /\ refs' = refs
  <2> DEFINE b == [a EXCEPT !.type = "INS", !.upg = TRUE]
  <2>1. b.base = a.base /\ b.iod = a.iod /\ b.upg = TRUE /\ b.type = "INS"
    BY <1>1 DEF Access
  <2>2. acc' = [acc EXCEPT ![t][k] = b]
    BY <1>3
  <2> HIDE DEF b
  <2>3. Based(a)
    BY <1>3 DEF Based
  <2>4. BaseOK(b, chain[k])
    BY <1>1, <2>1, <2>3 DEF AccessInv, BaseOK
  <2>5. ~b.iod /\ iso[t] = "RR" => RowCsn(b.base) < snap[t]
    BY <1>1, <2>1, <2>3 DEF AccessInv
  <2> QED  BY <1>0, <1>3, <2>1, <2>2, <2>4, <2>5, InsertMapped
<1>4. CASE /\ acc' = [acc EXCEPT ![t][k] = InsertAccess(<<>>, 0, FALSE, FALSE)]
           /\ FinishStatement(t) /\ refs' = refs
  <2> DEFINE b == InsertAccess(<<>>, 0, FALSE, FALSE)
  <2>1. b.base = <<>> /\ b.upg = FALSE /\ b.type = "INS"
    BY DEF InsertAccess
  <2>2. acc' = [acc EXCEPT ![t][k] = b]
    BY <1>4
  <2> HIDE DEF b
  <2>3. ~Based(b)
    BY <2>1 DEF Based
  <2> QED  BY <1>0, <1>4, <2>1, <2>2, <2>3, InsertMapped
<1>5. CASE CleanupOptimisticInsert(t, k)
  <2>1. /\ refs' = [refs EXCEPT ![k] = @ - 1] /\ acc' = acc /\ cur' = cur /\ snap' = snap
        /\ todo'[t] = InsertSet(t)
        /\ pc'[t] = "rollback" \/ (pc'[t] = "abortRemove" /\ refs'[k] = 0)
    BY <1>5 DEF CleanupOptimisticInsert, Goto, HistInv, Inv, TypeOK, TxnTypeOK
  <2>2. \A j \in Key : AccessInv(t, j)'
    BY <1>0, <2>1, AccessKept DEF OwnStep
  <2>3. \A j \in Key : InsertPending(t, j)' => InsertPending(t, j)
    BY <1>0, <2>1 DEF InsertPending
  <2>4. RefsInv'
    BY <1>0, <2>1, <2>3, DropReference DEF Inserting, HistInv, Inv, TypeOK
  <2>5. InsertSet(t)' = InsertSet(t)
    BY <2>1 DEF InsertSet
  <2> QED  BY <1>0, <2>1, <2>2, <2>4, <2>5, SnapshotPast, ReferenceStep
<1> QED  BY <1>2, <1>3, <1>4, <1>5 DEF AddInsertToLocalAccess

\* RollbackInsert keeps the invariant.
LEMMA RollbackInsertHist ==
    ASSUME HistInv, Inv', NEW t \in Txn, OwnStep(t), RollbackInsert(t)
    PROVE  HistInv'
<1>0. /\ pc[t] = "rollback" /\ todo[t] # {} /\ todo[t] \subseteq InsertSet(t)
      /\ todo[t] \in SUBSET Nat /\ todo[t] \subseteq Key
  BY ConstantsAssumption
  DEF RollbackInsert, HistInv, StatementsInv, StatementInv, Inv, TypeOK, TxnTypeOK
<1> PICK k \in Key : k = First(todo[t])
  BY <1>0, FirstIsLeast
<1>1. k \in todo[t] /\ k \in InsertSet(t)
  BY <1>0, FirstIsLeast
<1>2. /\ csn' = csn /\ chain' = chain /\ dirty' = dirty /\ hist' = hist
      /\ present' = present /\ snap' = snap
      /\ refs' = RollbackRefs(t, k)
      /\ acc' = [acc EXCEPT ![t][k] = NoAccess]
      /\ todo'[t] = todo[t] \ {k}
  BY DEF RollbackInsert, HistInv, Inv, TypeOK, TxnTypeOK
<1>3. pc'[t] = "rollback" \/ (pc'[t] = "abortRemove" /\ refs'[k] = 0 /\ cur'[t].key = k)
  <2>1. pc \in [Txn -> PC] /\ cur \in [Txn -> Lookup]
    BY DEF HistInv, Inv, TypeOK, TxnTypeOK
  <2>2. \/ refs'[k] = 0 /\ Goto(t, "abortRemove") /\ cur' = [cur EXCEPT ![t].key = k]
        \/ pc' = pc
    BY DEF RollbackInsert
  <2> QED  BY <1>0, <2>1, <2>2 DEF Goto, Lookup
<1>4. InsertPending(t, k)
  BY <1>0, <1>1 DEF InsertPending, InsertSet
<1>5. refs' = [refs EXCEPT ![k] = @ - 1]
  BY <1>2, <1>4, RollbackRefsDrops
<1>6. acc'[t][k] = NoAccess
  BY <1>2, ThisAccess
<1>7. ASSUME NEW j \in Key
      PROVE  /\ AccessInv(t, j)'
             /\ InsertPending(t, j)' => InsertPending(t, j)
             /\ j # k => acc'[t][j] = acc[t][j]
  <2>1. CASE j = k
    BY <1>6, <2>1, NoAccessInv
  <2>2. CASE j # k
    BY <1>0, <1>2, <2>2, OtherAccess DEF InsertPending
  <2> QED  BY <2>1, <2>2
<1>8. todo'[t] \subseteq InsertSet(t)'
  BY <1>0, <1>2, <1>7 DEF InsertSet
<1>9. ~InsertPending(t, k)'
  BY <1>6, NoAccessInv
<1>10. RefsInv'
  BY <1>2, <1>3, <1>4, <1>5, <1>7, <1>9, DropReference DEF HistInv, Inv, TypeOK
<1> QED  BY <1>0, <1>2, <1>3, <1>7, <1>8, <1>10, SnapshotPast, ReferenceStep

\* IndexRemove keeps the invariant: it removes a sentinel nobody refers to.
LEMMA IndexRemoveHist ==
    ASSUME HistInv, Inv', NEW t \in Txn, OwnStep(t), IndexRemove(t)
    PROVE  HistInv'
<1> PICK k \in Key : k = cur[t].key
  BY DEF IndexRemove, HistInv, Inv, CurInv, CurOK
<1>0. /\ RefsInv /\ SentinelTypeOK
      /\ pc[t] \in {"filterRemove", "abortRemove"}
      /\ csn' = csn /\ chain' = chain /\ dirty' = dirty /\ hist' = hist
      /\ present' = [present EXCEPT ![k] = FALSE]
      /\ refs' = refs /\ acc' = acc /\ snap' = snap /\ todo' = todo
      /\ pc'[t] = "active" \/ (pc'[t] = "rollback" /\ pc[t] = "abortRemove")
  BY DEF IndexRemove, Goto, HistInv, Inv, TypeOK, TxnTypeOK
<1>1. \A j \in Key : AccessInv(t, j)'
  BY <1>0, AccessKept DEF OwnStep
<1>2. \A j \in Key : InsertPending(t, j)' => InsertPending(t, j)
  BY <1>0 DEF InsertPending
<1>3. Removes(t, k)
  BY <1>0 DEF Removes
<1>4. ASSUME NEW j \in Key
      PROVE  RefInv(j)'
  <2>1. RefInv(j) /\ refs[j] \in Int /\ refs[j] >= Count(j)
    BY <1>0 DEF RefsInv, RefInv, SentinelTypeOK
  <2>2. ~Inserting(t, j)'
    BY <1>0 DEF Inserting
  <2>3. Count(j)' = Cardinality(Holders(j)') + Cardinality(Inserters(j)')
                      + (IF dirty[j] THEN 0 ELSE 1)
    BY <1>0 DEF Count
  <2>4. /\ IsFiniteSet(Holders(j)') /\ IsFiniteSet(Inserters(j)')
        /\ Cardinality(Holders(j)) \in Nat /\ Cardinality(Inserters(j)) \in Nat
        /\ Cardinality(Holders(j)') \in Nat /\ Cardinality(Inserters(j)') \in Nat
        /\ Cardinality(Holders(j)') <= Cardinality(Holders(j))
        /\ Cardinality(Inserters(j)') <= Cardinality(Inserters(j))
    BY <1>0, <1>2, <2>2, CountStep
  <2>5. refs'[j] >= Count(j)'
    BY <1>0, <2>1, <2>3, <2>4 DEF Count
  <2>6. \A u \in Txn : Removes(u, j)' => Removes(u, j) /\ u # t
    BY <1>0 DEF OwnStep, Removes
  <2>7. j = k => refs[j] = 0 /\ \A u \in Txn : ~Removes(u, j)'
    BY <1>3, <2>1, <2>6 DEF RefInv
  <2>8. present'[j] = IF j = k THEN FALSE ELSE present[j]
    BY <1>0 DEF SentinelTypeOK
  <2> QED  BY <1>0, <2>1, <2>4, <2>5, <2>6, <2>7, <2>8 DEF RefInv
<1>5. RefsInv'
  BY <1>4 DEF RefsInv
<1>6. pc'[t] = "rollback" => todo'[t] \subseteq InsertSet(t)'
  BY <1>0 DEF HistInv, StatementsInv, StatementInv, InsertSet
<1> QED  BY <1>0, <1>1, <1>5, <1>6, SnapshotPast, ReferenceStep

-----------------------------------------------------------------------------
(* The commit. *)

\* A validated or pending write is under the lock of its sentinel.
LEMMA ReadyLocked ==
    ASSUME Inv, NEW t \in Txn, NEW k \in Key, Ready(t, k)
    PROVE  lock[k] = t
<1>1. pc[t] \in {"validated", "write", "sentinel"} /\ k \in WriteSet(t)
  BY DEF Ready, Pending
<1>2. k \in LockSet(t)
  BY <1>1 DEF LockSet
<1> QED  BY <1>2 DEF Inv, LockOwnership

\* The shape of what a commit puts in front of a row.
LEMMA NewVersionsShape ==
    ASSUME NEW t, NEW k, NEW c \in Nat
    PROVE  /\ NewVersions(t, k, c) \in Seq(Version)
           /\ NewVersions(t, k, c) # <<>>
           /\ Len(NewVersions(t, k, c)) \in Nat /\ Len(NewVersions(t, k, c)) >= 1
           /\ \A i \in 1..Len(NewVersions(t, k, c)) : NewVersions(t, k, c)[i].csn = c
<1>1. NewVersions(t, k, c) \in Seq(Version)
  BY NewVersionsType
<1>2. CASE acc[t][k].type = "INS" /\ acc[t][k].upg /\ ~acc[t][k].iod
  <2>1. NewVersions(t, k, c) = <<[csn |-> c, del |-> FALSE], [csn |-> c, del |-> TRUE]>>
    BY <1>2 DEF NewVersions
  <2> QED  BY <1>1, <2>1
<1>3. CASE ~(acc[t][k].type = "INS" /\ acc[t][k].upg /\ ~acc[t][k].iod)
  <2> DEFINE d == acc[t][k].type = "DEL"
  <2>1. NewVersions(t, k, c) = <<[csn |-> c, del |-> d]>>
    BY <1>3 DEF NewVersions
  <2> HIDE DEF d
  <2> QED  BY <1>1, <2>1
<1> QED  BY <1>2, <1>3

\* Newer versions in front of a row.
LEMMA Prepended ==
    ASSUME NEW v \in Seq(Version), NEW h \in Seq(Version), NEW c \in Nat,
           v # <<>>, \A i \in 1..Len(v) : v[i].csn = c
    PROVE  /\ v \o h \in Seq(Version) /\ v \o h # <<>> /\ RowCsn(v \o h) = c
           /\ Len(v \o h) = Len(v) + Len(h)
           /\ \A i \in 1..Len(v) : (v \o h)[i] = v[i]
           /\ \A i \in 1..Len(h) : (v \o h)[Len(v) + i] = h[i]
           /\ \A i \in 1..Len(v \o h) : i > Len(v) => (v \o h)[i] = h[i - Len(v)]
<1>1. Len(v) \in Nat /\ Len(h) \in Nat /\ 1 \in 1..Len(v)
  BY EmptySeq, LenProperties
<1>2. /\ v \o h \in Seq(Version) /\ Len(v \o h) = Len(v) + Len(h)
      /\ \A i \in 1..Len(v) + Len(h) :
             (v \o h)[i] = IF i <= Len(v) THEN v[i] ELSE h[i - Len(v)]
  BY ConcatProperties
<1>3. RowCsn(v \o h) = c
  BY <1>1, <1>2 DEF RowCsn
<1>4. v \o h # <<>>
  BY <1>1, <1>2, EmptySeq
<1>5. \A i \in 1..Len(v) : (v \o h)[i] = v[i]
  BY <1>1, <1>2
<1>6. \A i \in 1..Len(h) : (v \o h)[Len(v) + i] = h[i]
  <2> SUFFICES ASSUME NEW i \in 1..Len(h) PROVE (v \o h)[Len(v) + i] = h[i]
    OBVIOUS
  <2>1. Len(v) + i \in 1..Len(v) + Len(h) /\ ~(Len(v) + i <= Len(v))
        /\ (Len(v) + i) - Len(v) = i
    BY <1>1
  <2> QED  BY <1>2, <2>1
<1>7. \A i \in 1..Len(v \o h) : i > Len(v) => (v \o h)[i] = h[i - Len(v)]
  BY <1>1, <1>2
<1> QED  BY <1>2, <1>3, <1>4, <1>5, <1>6, <1>7

\* They keep the history in the order of the CSNs.
LEMMA PrependedOrdered ==
    ASSUME NEW v \in Seq(Version), NEW h \in Seq(Version), NEW c \in Nat,
           v # <<>>, \A i \in 1..Len(v) : v[i].csn = c,
           Ordered(h), \A i \in 1..Len(h) : h[i].csn < c
    PROVE  /\ Ordered(v \o h)
           /\ \A i \in 1..Len(v \o h) : (v \o h)[i].csn <= c
<1> DEFINE w == v \o h
<1>1. /\ w \in Seq(Version) /\ Len(w) = Len(v) + Len(h)
      /\ \A i \in 1..Len(v) : w[i] = v[i]
      /\ \A i \in 1..Len(w) : i > Len(v) => w[i] = h[i - Len(v)]
  BY Prepended
<1>2. Len(v) \in Nat /\ Len(h) \in Nat
  BY LenProperties
<1> HIDE DEF w
<1>3. \A i \in 1..Len(h) : h[i].csn \in Nat
  <2>1. \A i \in 1..Len(h) : h[i] \in Version
    BY ElementOfSeq
  <2> QED  BY <2>1 DEF Version
<1>4. \A i \in 1..Len(w) : /\ i <= Len(v) => w[i].csn = c
                           /\ i > Len(v) => /\ i - Len(v) \in 1..Len(h)
                                            /\ w[i].csn = h[i - Len(v)].csn
                                            /\ w[i].csn < c
  BY <1>1, <1>2
<1>5. ASSUME NEW i \in 1..Len(w)
      PROVE  w[i].csn <= c /\ w[i].csn \in Nat
  <2>1. CASE i <= Len(v)
    BY <1>4, <2>1
  <2>2. CASE i > Len(v)
    <3>1. i - Len(v) \in 1..Len(h) /\ w[i].csn = h[i - Len(v)].csn /\ w[i].csn < c
      BY <1>4, <2>2
    <3>2. h[i - Len(v)].csn \in Nat
      BY <1>3, <3>1
    <3> QED  BY <3>1, <3>2
  <2> QED  BY <1>1, <1>2, <2>1, <2>2
<1>6. ASSUME NEW i \in 1..Len(w), NEW j \in 1..Len(w), i <= j
      PROVE  w[i].csn >= w[j].csn
  <2>1. CASE i <= Len(v)
    BY <1>4, <1>5, <2>1
  <2>2. CASE i > Len(v)
    <3>1. i - Len(v) \in 1..Len(h) /\ j - Len(v) \in 1..Len(h) /\ i - Len(v) <= j - Len(v)
      BY <1>1, <1>2, <1>4, <1>6, <2>2
    <3>2. h[i - Len(v)].csn >= h[j - Len(v)].csn
      BY <3>1 DEF Ordered
    <3>3. j > Len(v)
      BY <1>1, <1>2, <1>6, <2>2
    <3> QED  BY <1>4, <2>2, <3>2, <3>3
  <2> QED  BY <1>1, <1>2, <2>1, <2>2
<1>7. Ordered(w)
  BY <1>6 DEF Ordered
<1> QED  BY <1>5, <1>7 DEF w

\* GetNextCSN keeps the invariant: the write set of t is validated and locked, so
\* the new versions go in front of the rows it was drafted on.
LEMMA GetNextCSNHist ==
    ASSUME HistInv, Inv', NEW t \in Txn, OwnStep(t), GetNextCSN(t)
    PROVE  HistInv'
<1>0. /\ pc[t] = "validated" /\ pc'[t] = "write" /\ tcsn'[t] = csn /\ csn' = csn + 1
      /\ todo'[t] = WriteSet(t) /\ acc' = acc /\ chain' = chain /\ dirty' = dirty
      /\ refs' = refs /\ present' = present /\ snap' = snap /\ iso' = iso
      /\ csn \in Nat
  BY DEF GetNextCSN, Goto, sentVars, HistInv, Inv, TypeOK, TxnTypeOK, SentinelTypeOK
<1>1. \A k \in Key : hist'[k] = IF k \in WriteSet(t) THEN NewVersions(t, k, csn) \o hist[k]
                                ELSE hist[k]
  BY DEF GetNextCSN
<1>2. \A k \in Key : ~Pending(t, k) /\ (Pending(t, k)' <=> k \in WriteSet(t))
  BY <1>0 DEF Pending, WriteSet, InsertSet
<1>3. \A u \in Txn, k \in Key : u # t => (Pending(u, k)' <=> Pending(u, k))
  BY PendingKept DEF OwnStep
<1>4. ASSUME NEW k \in Key, k \in WriteSet(t)
      PROVE  \A u \in Txn : u # t => ~Pending(u, k)
  BY <1>0, <1>4, ReadyLocked DEF Ready, HistInv
<1>5. ASSUME NEW k \in Key
      PROVE  RowInv(k)'
  <2>0. RowInv(k) /\ hist[k] \in Seq(Version) /\ chain[k] \in Seq(Version)
    BY DEF HistInv, RowsInv, Inv, TypeOK, SentinelTypeOK
  <2>1. (dirty[k] <=> chain[k] = <<>>)' /\ (chain[k] # <<>> => RowCsn(chain[k]) < csn)'
    BY <1>0, <2>0, RowCsnType DEF RowInv
  <2>2. CASE k \in WriteSet(t)
    <3> DEFINE v == NewVersions(t, k, csn)
    <3>1. /\ v \in Seq(Version) /\ v # <<>> /\ \A i \in 1..Len(v) : v[i].csn = csn
      BY <1>0, NewVersionsShape
    <3>2. NewVersions(t, k, tcsn[t])' = v
      BY <1>0 DEF NewVersions
    <3> HIDE DEF v
    <3>3. hist'[k] = v \o hist[k]
      BY <1>1, <2>2 DEF v
    <3>4. chain[k] = hist[k]
      BY <1>2, <1>4, <2>0, <2>2 DEF RowInv
    <3>5. /\ Ordered(v \o hist[k])
          /\ \A i \in 1..Len(v \o hist[k]) : (v \o hist[k])[i].csn <= csn
      BY <1>0, <2>0, <3>1, PrependedOrdered DEF RowInv
    <3>6. v \o hist[k] \in Seq(Version)
      BY <1>0, <2>0, <3>1, Prepended
    <3>7. \A i \in 1..Len(hist'[k]) : hist'[k][i].csn < csn'
      <4>1. \A i \in 1..Len(hist'[k]) : hist'[k][i] \in Version
        BY <3>3, <3>6, ElementOfSeq
      <4>2. \A i \in 1..Len(hist'[k]) : hist'[k][i].csn \in Nat
        BY <4>1 DEF Version
      <4> QED  BY <1>0, <3>3, <3>5, <4>2
    <3>8. \A u \in Txn : Pending(u, k)' => u = t
      BY <1>3, <1>4, <2>2
    <3>9. (\A u \in Txn : Pending(u, k) => hist[k] = NewVersions(u, k, tcsn[u]) \o chain[k])'
      BY <1>0, <3>2, <3>3, <3>4, <3>8
    <3>10. Pending(t, k)'
      BY <1>2, <2>2
    <3>11. Ordered(hist[k])'
      BY <3>3, <3>5 DEF Ordered
    <3> QED  BY <2>1, <3>7, <3>9, <3>10, <3>11 DEF RowInv
  <2>3. CASE k \notin WriteSet(t)
    <3>1. hist'[k] = hist[k]
      BY <1>1, <2>3
    <3>2. \A u \in Txn : (Pending(u, k)' <=> Pending(u, k)) /\ (Pending(u, k) => u # t)
      BY <1>2, <1>3, <2>3
    <3>3. \A u \in Txn : Pending(u, k) =>
              NewVersions(u, k, tcsn[u])' = NewVersions(u, k, tcsn[u])
      BY <3>2 DEF OwnStep, NewVersions
    <3>4. (\A u \in Txn : Pending(u, k) => hist[k] = NewVersions(u, k, tcsn[u]) \o chain[k])'
      BY <1>0, <2>0, <3>1, <3>2, <3>3 DEF RowInv
    <3>5. \A i \in 1..Len(hist'[k]) : hist'[k][i].csn < csn'
      <4>1. \A i \in 1..Len(hist[k]) : hist[k][i] \in Version
        BY <2>0, ElementOfSeq
      <4>2. \A i \in 1..Len(hist[k]) : hist[k][i].csn \in Nat
        BY <4>1 DEF Version
      <4> QED  BY <1>0, <2>0, <3>1, <4>2 DEF RowInv
    <3>6. ((\A u \in Txn : ~Pending(u, k)) => chain[k] = hist[k])'
      BY <1>0, <2>0, <3>1, <3>2 DEF RowInv
    <3>7. Ordered(hist[k])'
      BY <2>0, <3>1 DEF RowInv, Ordered
    <3> QED  BY <2>1, <3>4, <3>5, <3>6, <3>7 DEF RowInv
  <2> QED  BY <2>2, <2>3
<1>6. ASSUME NEW u \in Txn, NEW k \in Key
      PROVE  AccessInv(u, k)'
  BY <1>0, AccessKept
<1>7. ASSUME NEW u \in Txn
      PROVE  CommitInv(u)'
  <2>1. CASE u = t
    <3>1. \A k \in Key : Ready(t, k) => acc[t][k].base = chain[k]
      BY DEF HistInv, CommitsInv, CommitInv
    <3>2. \A k \in Key : Ready(t, k)' => Ready(t, k)
      BY <1>0, <1>2 DEF Ready
    <3>3. \A k \in Key : chain[k] # <<>> => RowCsn(chain[k]) < csn
      BY DEF HistInv, RowsInv, RowInv
    <3>4. csn < csn + 1
      BY <1>0
    <3>5. \A k \in Key : (Ready(t, k) => acc[t][k].base = chain[k])'
      BY <1>0, <3>1, <3>2
    <3> QED  BY <1>0, <2>1, <3>3, <3>4, <3>5 DEF CommitInv
  <2>2. CASE u # t
    <3>1. CommitInv(u) /\ tcsn[u] \in Nat /\ tcsn'[u] = tcsn[u] /\ pc'[u] = pc[u]
      BY <2>2 DEF HistInv, CommitsInv, OwnStep, Inv, TypeOK, TxnTypeOK
    <3>2. \A k \in Key : (Ready(u, k)' <=> Ready(u, k)) /\ (Pending(u, k)' <=> Pending(u, k))
      BY <2>2, PendingKept DEF OwnStep, Ready
    <3> QED  BY <1>0, <3>1, <3>2 DEF CommitInv
  <2> QED  BY <2>1, <2>2
<1>8. ASSUME NEW u \in Txn
      PROVE  StatementInv(u)'
  <2>1. StatementInv(u) /\ snap[u] \in Nat
    BY DEF HistInv, StatementsInv, Inv, TypeOK, TxnTypeOK
  <2>2. u # t => pc'[u] = pc[u] /\ cur'[u] = cur[u] /\ todo'[u] = todo[u]
    BY DEF OwnStep
  <2> QED  BY <1>0, <2>1, <2>2 DEF StatementInv, InsertSet
<1>9. ASSUME NEW u \in Txn
      PROVE  ReaderInv(u)'
  <2> SUFFICES ASSUME NEW k \in Key, NEW v \in Txn, SeenChange(u, k)', Pending(v, k)'
               PROVE  snap'[u] <= tcsn'[v]
    BY DEF ReaderInv
  <2>1. u # t
    BY <1>0 DEF SeenChange
  <2>2. SeenChange(u, k)
    BY <1>0, <2>1 DEF SeenChange, OwnStep
  <2>3. CASE v = t
    BY <1>0, <2>3, SnapshotPast
  <2>4. CASE v # t
    BY <1>0, <1>3, <2>2, <2>4 DEF HistInv, ReadersInv, ReaderInv, OwnStep
  <2> QED  BY <2>3, <2>4
<1>10. \A k \in Key : InsertPending(t, k)' => InsertPending(t, k)
  BY <1>0 DEF InsertPending
<1>11. RefsInv'
  BY <1>0, <1>10, RefsKept DEF HistInv, Inv, TypeOK
<1> QED  BY <1>5, <1>6, <1>7, <1>8, <1>9, <1>11
         DEF HistInv, RowsInv, AccessesInv, CommitsInv, StatementsInv, ReadersInv

\* A step of t that publishes the rows K and leaves the others, whose pending
\* writes stay: the two passes of WriteChanges.
LEMMA PublishStep ==
    ASSUME HistInv, Inv', RefsInv', NEW t \in Txn, OwnStep(t), NEW K \in SUBSET Key,
           pc[t] \in {"write", "sentinel"}, pc'[t] \in {"write", "sentinel", "release"},
           csn' = csn, hist' = hist, acc' = acc, snap' = snap, tcsn' = tcsn,
           \A k \in Key : k \notin K => chain'[k] = chain[k] /\ dirty'[k] = dirty[k],
           \A k \in K : /\ Pending(t, k)
                        /\ chain'[k] = NewVersions(t, k, tcsn[t]) \o acc[t][k].base
                        /\ ~dirty'[k],
           \A k \in Key : Pending(t, k)' <=> Pending(t, k) /\ k \notin K
    PROVE  HistInv'
<1>0. /\ tcsn[t] \in Nat /\ csn \in Nat /\ tcsn[t] < csn /\ iso' = iso
      /\ chain \in [Key -> Seq(Version)] /\ acc \in [Txn -> [Key -> Access]]
  BY DEF HistInv, Inv, TypeOK, TxnTypeOK, SentinelTypeOK, CommitsInv, CommitInv, OwnStep
<1>1. ASSUME NEW k \in K
      PROVE  /\ chain'[k] = hist[k] /\ chain'[k] # <<>> /\ RowCsn(chain'[k]) = tcsn[t]
             /\ chain[k] # <<>> => RowCsn(chain[k]) < tcsn[t]
             /\ \A u \in Txn : u # t => ~Ready(u, k)
  <2>0. k \in Key /\ Pending(t, k) /\ CommitInv(t) /\ RowInv(k) /\ chain[k] \in Seq(Version)
    BY <1>0 DEF HistInv, CommitsInv, RowsInv
  <2>1. acc[t][k].base = chain[k] /\ (chain[k] # <<>> => RowCsn(chain[k]) < tcsn[t])
    BY <2>0 DEF CommitInv, Ready
  <2> DEFINE v == NewVersions(t, k, tcsn[t])
  <2>2. v \in Seq(Version) /\ v # <<>> /\ \A i \in 1..Len(v) : v[i].csn = tcsn[t]
    BY <1>0, NewVersionsShape
  <2>3. chain'[k] = v \o chain[k] /\ hist[k] = v \o chain[k]
    BY <2>0, <2>1 DEF RowInv
  <2> HIDE DEF v
  <2>4. chain'[k] # <<>> /\ RowCsn(chain'[k]) = tcsn[t]
    <3> DEFINE c == tcsn[t]
               h == chain[k]
    <3>1. /\ v \in Seq(Version) /\ v # <<>> /\ \A i \in 1..Len(v) : v[i].csn = c
          /\ h \in Seq(Version) /\ c \in Nat
      BY <1>0, <2>0, <2>2
    <3> HIDE DEF c, h
    <3>2. v \o h # <<>> /\ RowCsn(v \o h) = c
      BY <3>1, Prepended
    <3> QED  BY <2>3, <3>2 DEF c, h
  <2>5. \A u \in Txn : Ready(u, k) => u = t
    <3>1. Ready(t, k) /\ Inv
      BY <2>0 DEF Ready, HistInv
    <3>2. lock[k] = t
      BY <2>0, <3>1, ReadyLocked
    <3>3. \A u \in Txn : Ready(u, k) => lock[k] = u
      BY <2>0, <3>1, ReadyLocked
    <3> QED  BY <3>2, <3>3
  <2> QED  BY <2>1, <2>3, <2>4, <2>5
<1>2. \A u \in Txn, k \in Key : u # t => /\ Pending(u, k)' <=> Pending(u, k)
                                         /\ Ready(u, k)' <=> Ready(u, k)
  BY PendingKept DEF OwnStep, Ready
<1>3. \A u \in Txn, k \in Key : Pending(u, k)' <=> Pending(u, k) /\ k \notin K
  BY <1>1, <1>2 DEF Ready
<1>4. \A u \in Txn, k \in Key : NewVersions(u, k, tcsn[u])' = NewVersions(u, k, tcsn[u])
  BY DEF NewVersions
<1>5. ASSUME NEW k \in Key
      PROVE  RowInv(k)'
  <2>0. RowInv(k)
    BY DEF HistInv, RowsInv
  <2>1. \A i \in 1..Len(hist'[k]) : hist'[k][i].csn < csn'
    BY <2>0 DEF RowInv
  <2>2. Ordered(hist[k])'
    BY <2>0 DEF RowInv, Ordered
  <2>3. CASE k \in K
    <3>1. \A u \in Txn : ~Pending(u, k)'
      BY <1>3, <2>3
    <3>2. /\ chain'[k] = hist'[k] /\ chain'[k] # <<>> /\ RowCsn(chain'[k]) < csn'
          /\ ~dirty'[k]
      BY <1>0, <1>1, <2>3
    <3> QED  BY <2>1, <2>2, <3>1, <3>2 DEF RowInv
  <2>4. CASE k \notin K
    <3>1. \A u \in Txn : Pending(u, k)' <=> Pending(u, k)
      BY <1>3, <2>4
    <3>2. chain'[k] = chain[k] /\ (dirty'[k] <=> dirty[k])
      BY <2>4
    <3>3. (\A u \in Txn : Pending(u, k) => hist[k] = NewVersions(u, k, tcsn[u]) \o chain[k])'
      BY <1>4, <2>0, <3>1, <3>2 DEF RowInv
    <3>4. ((\A u \in Txn : ~Pending(u, k)) => chain[k] = hist[k])'
      BY <2>0, <3>1, <3>2 DEF RowInv
    <3> QED  BY <2>0, <2>1, <2>2, <3>2, <3>3, <3>4 DEF RowInv
  <2> QED  BY <2>3, <2>4
<1>6. ASSUME NEW u \in Txn, NEW k \in Key
      PROVE  AccessInv(u, k)'
  <2> DEFINE a == acc[u][k]
  <2>0. AccessInv(u, k) /\ a.base \in Seq(Version)
    BY <1>0 DEF HistInv, AccessesInv, Access
  <2>1. Based(a) => BaseOK(a, chain'[k])
    <3> SUFFICES ASSUME Based(a) PROVE BaseOK(a, chain'[k])
      OBVIOUS
    <3>1. BaseOK(a, chain[k])
      BY <2>0 DEF AccessInv
    <3>2. CASE k \in K
      <4>1. chain[k] # <<>> /\ a.base # <<>> /\ RowCsn(a.base) <= RowCsn(chain[k])
        BY <3>1 DEF BaseOK
      <4>2. RowCsn(chain[k]) \in Nat /\ RowCsn(a.base) \in Nat
        BY <1>0, <2>0, <4>1, RowCsnType
      <4>3. RowCsn(chain[k]) < tcsn[t] /\ RowCsn(chain'[k]) = tcsn[t] /\ chain'[k] # <<>>
        BY <1>1, <3>2, <4>1
      <4>4. RowCsn(a.base) < RowCsn(chain'[k])
        BY <1>0, <4>1, <4>2, <4>3
      <4>5. RowCsn(a.base) <= RowCsn(chain'[k]) /\ RowCsn(a.base) # RowCsn(chain'[k])
        BY <1>0, <4>2, <4>3, <4>4
      <4> QED  BY <3>1, <4>3, <4>5 DEF BaseOK
    <3>3. CASE k \notin K
      BY <3>1, <3>3
    <3> QED  BY <3>2, <3>3
  <2>2. acc'[u][k] = a
    OBVIOUS
  <2> HIDE DEF a
  <2>3. acc[u][k] = a
    BY DEF a
  <2> QED  BY <1>0, <2>0, <2>1, <2>2, <2>3 DEF AccessInv
<1>7. ASSUME NEW u \in Txn
      PROVE  CommitInv(u)'
  <2>0. CommitInv(u)
    BY DEF HistInv, CommitsInv
  <2>1. \A k \in Key : Ready(u, k)' => Ready(u, k) /\ k \notin K
    <3>1. CASE u = t
      BY <1>3, <3>1 DEF Ready
    <3>2. CASE u # t
      BY <1>1, <1>2, <3>2
    <3> QED  BY <3>1, <3>2
  <2>2. \A k \in Key : Pending(u, k)' => Pending(u, k) /\ k \notin K
    BY <1>3
  <2>3. pc'[u] \in {"write", "sentinel"} => pc[u] \in {"write", "sentinel"}
    BY DEF OwnStep
  <2> QED  BY <2>0, <2>1, <2>2, <2>3 DEF CommitInv
<1>8. ASSUME NEW u \in Txn
      PROVE  StatementInv(u)'
  <2>0. StatementInv(u)
    BY DEF HistInv, StatementsInv
  <2>1. CASE u = t
    BY <2>0, <2>1 DEF StatementInv
  <2>2. CASE u # t
    <3>1. pc'[u] = pc[u] /\ cur'[u] = cur[u] /\ todo'[u] = todo[u]
      BY <2>2 DEF OwnStep
    <3>2. pc[u] \in {"entry", "update"} => cur[u].key \in Key
      BY DEF HistInv, Inv, CurInv, CurOK
    <3>3. pc[u] \in {"entry", "update"} => chain'[cur[u].key] # <<>>
      BY <1>1, <2>0, <3>2 DEF StatementInv
    <3> QED  BY <2>0, <3>1, <3>3 DEF StatementInv, InsertSet
  <2> QED  BY <2>1, <2>2
<1>9. ASSUME NEW u \in Txn
      PROVE  ReaderInv(u)'
  <2> SUFFICES ASSUME NEW k \in Key, NEW v \in Txn, SeenChange(u, k)', Pending(v, k)'
               PROVE  snap'[u] <= tcsn'[v]
    BY DEF ReaderInv
  <2>1. u # t
    BY DEF SeenChange
  <2>2. k \notin K /\ Pending(v, k)
    BY <1>3
  <2>3. SeenChange(u, k)
    BY <2>1, <2>2 DEF SeenChange, OwnStep
  <2> QED  BY <2>2, <2>3 DEF HistInv, ReadersInv, ReaderInv
<1> QED  BY <1>5, <1>6, <1>7, <1>8, <1>9
         DEF HistInv, RowsInv, AccessesInv, CommitsInv, StatementsInv, ReadersInv

\* WriteGlobalChanges keeps the invariant.
LEMMA WriteGlobalChangesHist ==
    ASSUME HistInv, Inv', NEW t \in Txn, OwnStep(t), WriteGlobalChanges(t)
    PROVE  HistInv'
<1>0. /\ pc[t] = "write" /\ todo[t] # {} /\ todo[t] \subseteq WriteSet(t)
      /\ todo[t] \in SUBSET Nat /\ todo[t] \subseteq Key
  BY ConstantsAssumption
  DEF WriteGlobalChanges, HistInv, Inv, TodoInv, TodoOK, TypeOK, TxnTypeOK
<1> PICK k \in Key : k = First(todo[t])
  BY <1>0, FirstIsLeast
<1>1. k \in todo[t] /\ k \in WriteSet(t)
  BY <1>0, FirstIsLeast
<1>2. /\ csn' = csn /\ hist' = hist /\ acc' = acc /\ snap' = snap /\ tcsn' = tcsn
      /\ refs' = refs /\ present' = present /\ dirty' = dirty
  BY DEF WriteGlobalChanges
<1>3. WriteSet(t)' = WriteSet(t) /\ InsertSet(t)' = InsertSet(t)
  BY <1>2 DEF WriteSet, InsertSet
<1>4. \/ pc'[t] = "write" /\ todo'[t] = todo[t] \ {k} /\ todo[t] # {k}
      \/ pc'[t] = "sentinel" /\ todo'[t] = InsertSet(t) /\ todo[t] = {k}
      \/ pc'[t] = "release" /\ InsertSet(t) = {} /\ todo[t] = {k}
  BY <1>0 DEF WriteGlobalChanges, Goto, HistInv, Inv, TypeOK, TxnTypeOK
<1>5. \A j \in Key : InsertPending(t, j)' => InsertPending(t, j)
  BY <1>0, <1>2 DEF InsertPending
<1>6. RefsInv'
  BY <1>2, <1>4, <1>5, RefsKept DEF HistInv, Inv, TypeOK
<1>7. InsertSet(t) \subseteq WriteSet(t) /\ (k \in InsertSet(t) <=> acc[t][k].type = "INS")
  BY SetTypes DEF InsertSet
<1>8. CASE acc[t][k].type = "INS"
  <2>1. chain' = chain
    BY <1>8 DEF WriteGlobalChanges
  <2>2. \A j \in Key : Pending(t, j)' <=> Pending(t, j)
    BY <1>0, <1>1, <1>3, <1>4, <1>7, <1>8 DEF Pending
  <2>3. pc'[t] \in {"write", "sentinel"}
    BY <1>4, <1>7, <1>8
  <2>4. {} \in SUBSET Key
    OBVIOUS
  <2>5. \A j \in Key : Pending(t, j)' <=> Pending(t, j) /\ j \notin {}
    BY <2>2
  <2>6. pc[t] \in {"write", "sentinel"} /\ pc'[t] \in {"write", "sentinel", "release"}
    BY <1>0, <2>3
  <2>7. \A j \in Key : j \notin {} => chain'[j] = chain[j] /\ dirty'[j] = dirty[j]
    BY <1>2, <2>1
  <2>8. \A j \in {} : /\ Pending(t, j)
                      /\ chain'[j] = NewVersions(t, j, tcsn[t]) \o acc[t][j].base
                      /\ ~dirty'[j]
    OBVIOUS
  <2> QED  BY <1>2, <1>6, <2>4, <2>5, <2>6, <2>7, <2>8, PublishStep
<1>9. CASE acc[t][k].type # "INS"
  <2>1. chain' = [chain EXCEPT ![k] = NewVersions(t, k, tcsn[t]) \o acc[t][k].base]
    BY <1>9 DEF WriteGlobalChanges
  <2>2. \A j \in Key : Pending(t, j)' <=> Pending(t, j) /\ j \notin {k}
    BY <1>0, <1>1, <1>3, <1>4, <1>7, <1>9 DEF Pending
  <2>3. Pending(t, k)
    BY <1>0, <1>1 DEF Pending
  <2>4. ~dirty[k]
    <3>1. AccessInv(t, k) /\ RowInv(k)
      BY DEF HistInv, AccessesInv, RowsInv
    <3>2. Based(acc[t][k])
      BY <1>1, <1>9 DEF Based, WriteSet, WriteTypes
    <3> QED  BY <3>1, <3>2 DEF AccessInv, BaseOK, RowInv
  <2>5. \A j \in Key : chain'[j] = IF j = k THEN NewVersions(t, k, tcsn[t]) \o acc[t][k].base
                                   ELSE chain[j]
    BY <2>1 DEF HistInv, Inv, TypeOK, SentinelTypeOK
  <2>6. {k} \in SUBSET Key
    OBVIOUS
  <2>7. \A j \in Key : j \notin {k} => chain'[j] = chain[j] /\ dirty'[j] = dirty[j]
    BY <1>2, <2>5
  <2>8. \A j \in {k} : /\ Pending(t, j)
                       /\ chain'[j] = NewVersions(t, j, tcsn[t]) \o acc[t][j].base
                       /\ ~dirty'[j]
    BY <1>2, <2>3, <2>4, <2>5
  <2>9. pc[t] \in {"write", "sentinel"} /\ pc'[t] \in {"write", "sentinel", "release"}
    BY <1>0, <1>4
  <2> QED  BY <1>2, <1>6, <2>2, <2>6, <2>7, <2>8, <2>9, PublishStep
<1> QED  BY <1>8, <1>9

\* The reference of an insert becomes that of the committed row.
LEMMA PublishReference ==
    ASSUME RefsInv, SentinelTypeOK, NEW t \in Txn, NEW k \in Key, OwnStep(t),
           refs' = refs, present' = present, dirty' = [dirty EXCEPT ![k] = FALSE],
           InsertPending(t, k), ~InsertPending(t, k)',
           \A j \in Key : InsertPending(t, j)' => InsertPending(t, j),
           pc'[t] \notin {"insert", "filterRemove", "abortRemove"}
    PROVE  RefsInv'
<1> SUFFICES ASSUME NEW j \in Key PROVE RefInv(j)'
  BY DEF RefsInv
<1>1. RefInv(j) /\ refs[j] \in Int /\ refs[j] >= Count(j) /\ dirty[j] \in BOOLEAN
  BY DEF RefsInv, RefInv, SentinelTypeOK
<1>2. ~Inserting(t, j)'
  BY DEF Inserting
<1>3. dirty'[j] = IF j = k THEN FALSE ELSE dirty[j]
  BY DEF SentinelTypeOK
<1>4. Count(j)' = Cardinality(Holders(j)') + Cardinality(Inserters(j)')
                    + (IF dirty'[j] THEN 0 ELSE 1)
  BY DEF Count
<1>5. \A u \in Txn : Removes(u, j)' => Removes(u, j)
  BY DEF OwnStep, Removes
<1>6. /\ IsFiniteSet(Holders(j)') /\ IsFiniteSet(Inserters(j)')
      /\ Cardinality(Holders(j)) \in Nat /\ Cardinality(Inserters(j)) \in Nat
      /\ Cardinality(Holders(j)') \in Nat /\ Cardinality(Inserters(j)') \in Nat
      /\ Cardinality(Holders(j)') <= Cardinality(Holders(j))
      /\ j = k => Cardinality(Holders(j)') + 1 = Cardinality(Holders(j))
      /\ Cardinality(Inserters(j)') <= Cardinality(Inserters(j))
  BY <1>2, CountStep
<1>7. refs[j] >= Count(j)'
  <2>1. CASE j = k
    BY <1>1, <1>3, <1>4, <1>6, <2>1 DEF Count
  <2>2. CASE j # k
    BY <1>1, <1>3, <1>4, <1>6, <2>2 DEF Count
  <2> QED  BY <2>1, <2>2
<1> QED  BY <1>1, <1>5, <1>6, <1>7 DEF RefInv

\* WriteSentinelChanges keeps the invariant.
LEMMA WriteSentinelChangesHist ==
    ASSUME HistInv, Inv', NEW t \in Txn, OwnStep(t), WriteSentinelChanges(t)
    PROVE  HistInv'
<1>0. /\ pc[t] = "sentinel" /\ todo[t] # {} /\ todo[t] \subseteq InsertSet(t)
      /\ todo[t] \in SUBSET Nat /\ todo[t] \subseteq Key
  BY ConstantsAssumption
  DEF WriteSentinelChanges, HistInv, Inv, TodoInv, TodoOK, TypeOK, TxnTypeOK
<1> PICK k \in Key : k = First(todo[t])
  BY <1>0, FirstIsLeast
<1>1. k \in todo[t] /\ k \in InsertSet(t) /\ InsertSet(t) \subseteq WriteSet(t)
  BY <1>0, FirstIsLeast, SetTypes
<1>2. /\ csn' = csn /\ hist' = hist /\ acc' = acc /\ snap' = snap /\ tcsn' = tcsn
      /\ refs' = refs /\ present' = present /\ dirty' = [dirty EXCEPT ![k] = FALSE]
      /\ chain' = [chain EXCEPT ![k] = NewVersions(t, k, tcsn[t]) \o acc[t][k].base]
  BY DEF WriteSentinelChanges
<1>3. WriteSet(t)' = WriteSet(t) /\ InsertSet(t)' = InsertSet(t)
  BY <1>2 DEF WriteSet, InsertSet
<1>4. \/ pc'[t] = "sentinel" /\ todo'[t] = todo[t] \ {k}
      \/ pc'[t] = "release" /\ todo[t] = {k}
  BY <1>0 DEF WriteSentinelChanges, Goto, HistInv, Inv, TypeOK, TxnTypeOK
<1>5. \A j \in Key : InsertPending(t, j)' => InsertPending(t, j)
  BY <1>0, <1>2, <1>4 DEF InsertPending
<1>6. InsertPending(t, k) /\ ~InsertPending(t, k)'
  BY <1>0, <1>1, <1>4 DEF InsertPending, InsertSet
<1>7. RefsInv'
  BY <1>2, <1>4, <1>5, <1>6, PublishReference DEF HistInv, Inv, TypeOK
<1>8. \A j \in Key : Pending(t, j)' <=> Pending(t, j) /\ j \notin {k}
  BY <1>0, <1>1, <1>3, <1>4 DEF Pending
<1>9. Pending(t, k)
  BY <1>0, <1>1 DEF Pending
<1>10. \A j \in Key : chain'[j] = IF j = k THEN NewVersions(t, k, tcsn[t]) \o acc[t][k].base
                                  ELSE chain[j]
  BY <1>2 DEF HistInv, Inv, TypeOK, SentinelTypeOK
<1>11. \A j \in Key : dirty'[j] = IF j = k THEN FALSE ELSE dirty[j]
  BY <1>2 DEF HistInv, Inv, TypeOK, SentinelTypeOK
<1>12. {k} \in SUBSET Key
  OBVIOUS
<1> QED  BY <1>0, <1>2, <1>4, <1>7, <1>8, <1>9, <1>10, <1>11, <1>12, PublishStep

-----------------------------------------------------------------------------
(* The invariant holds. *)

\* The initial states satisfy the invariant.
LEMMA InitHist == Init => HistInv
<1> SUFFICES ASSUME Init PROVE HistInv
  OBVIOUS
<1>0. Inv
  BY InitInv
<1>1. \A t \in Txn : pc[t] = "idle" /\ snap[t] = 0
  BY DEF Init
<1>2. \A t \in Txn, k \in Key : acc[t][k] = NoAccess
  BY DEF Init
<1>3. \A t \in Txn, k \in Key : ~Pending(t, k) /\ ~Ready(t, k) /\ ~Removes(t, k)
  BY <1>1 DEF Pending, Ready, Removes
<1>4. \A t \in Txn, k \in Key : ~InsertPending(t, k)
  BY <1>2 DEF InsertPending, NoAccess
<1>5. ASSUME NEW k \in Key
      PROVE  RowInv(k)
  <2>1. hist[k] = chain[k] /\ csn = 2 /\ (dirty[k] <=> k \notin InitKey)
    BY DEF Init
  <2>2. CASE k \in InitKey
    <3>1. chain[k] = <<[csn |-> 1, del |-> FALSE]>>
      BY <2>2 DEF Init
    <3>2. chain[k] # <<>> /\ Len(chain[k]) = 1 /\ chain[k][1].csn = 1
      BY <3>1
    <3>3. Ordered(hist[k]) /\ \A i \in 1..Len(hist[k]) : hist[k][i].csn < csn
      BY <2>1, <3>2 DEF Ordered
    <3>4. RowCsn(chain[k]) < csn
      BY <2>1, <3>2 DEF RowCsn
    <3>5. dirty[k] <=> chain[k] = <<>>
      BY <2>1, <2>2, <3>2
    <3> QED  BY <1>3, <2>1, <3>2, <3>3, <3>4, <3>5 DEF RowInv
  <2>3. CASE k \notin InitKey
    <3>1. chain[k] = <<>>
      BY <2>3 DEF Init
    <3>2. Ordered(hist[k]) /\ \A i \in 1..Len(hist[k]) : hist[k][i].csn < csn
      BY <2>1, <3>1 DEF Ordered
    <3> QED  BY <1>3, <2>1, <2>3, <3>1, <3>2 DEF RowInv
  <2> QED  BY <2>2, <2>3
<1>6. \A t \in Txn, k \in Key : AccessInv(t, k)
  BY <1>2 DEF AccessInv, Based, NoAccess
<1>7. \A t \in Txn : CommitInv(t)
  BY <1>1, <1>3 DEF CommitInv
<1>8. \A t \in Txn : StatementInv(t)
  BY <1>1 DEF StatementInv, Init
<1>9. ASSUME NEW k \in Key
      PROVE  RefInv(k)
  <2>1. Holders(k) = {} /\ Inserters(k) = {}
    BY <1>1, <1>4 DEF Holders, Inserters
  <2>2. /\ refs[k] = (IF k \in InitKey THEN 1 ELSE 0) /\ (dirty[k] <=> k \notin InitKey)
        /\ (present[k] <=> k \in InitKey)
    BY DEF Init
  <2>3. Cardinality({}) = 0 /\ IsFiniteSet({})
    BY FS_EmptySet
  <2>4. refs[k] >= Count(k)
    BY <2>1, <2>2, <2>3 DEF Count
  <2> QED  BY <1>3, <2>1, <2>2, <2>3, <2>4 DEF RefInv
<1>10. \A t \in Txn : ReaderInv(t)
  BY <1>3 DEF ReaderInv
<1> QED  BY <1>0, <1>5, <1>6, <1>7, <1>8, <1>9, <1>10
         DEF HistInv, RowsInv, AccessesInv, CommitsInv, StatementsInv, RefsInv, ReadersInv

\* A stuttering step keeps it.
LEMMA StutterHist == HistInv /\ UNCHANGED vars => HistInv'
<1> SUFFICES ASSUME HistInv, UNCHANGED vars PROVE HistInv'
  OBVIOUS
<1>0. /\ csn' = csn /\ present' = present /\ refs' = refs /\ dirty' = dirty /\ lock' = lock
      /\ chain' = chain /\ pc' = pc /\ iso' = iso /\ snap' = snap /\ acc' = acc
      /\ cur' = cur /\ todo' = todo /\ tcsn' = tcsn /\ hist' = hist
  BY DEF vars, sentVars, txnVars
<1>1. Inv'
  BY StutterInv DEF HistInv
<1>2. \A t \in Txn, k \in Key : /\ Pending(t, k)' <=> Pending(t, k)
                                /\ Ready(t, k)' <=> Ready(t, k)
                                /\ SeenChange(t, k)' <=> SeenChange(t, k)
                                /\ NewVersions(t, k, tcsn[t])' = NewVersions(t, k, tcsn[t])
  BY <1>0, PendingKept DEF Ready, SeenChange, NewVersions
<1>3. RowsInv'
  BY <1>0, <1>2 DEF HistInv, RowsInv, RowInv, Ordered
<1>4. AccessesInv'
  BY <1>0 DEF HistInv, AccessesInv, AccessInv
<1>5. CommitsInv'
  BY <1>0, <1>2 DEF HistInv, CommitsInv, CommitInv
<1>6. StatementsInv'
  BY <1>0 DEF HistInv, StatementsInv, StatementInv, InsertSet
<1>7. \A k \in Key : Holders(k)' = Holders(k) /\ Inserters(k)' = Inserters(k)
  BY <1>0 DEF Holders, InsertPending, Inserters
<1>8. RefsInv'
  BY <1>0, <1>7 DEF HistInv, RefsInv, RefInv, Removes, Count
<1>9. ReadersInv'
  BY <1>0, <1>2 DEF HistInv, ReadersInv, ReaderInv
<1> QED  BY <1>1, <1>3, <1>4, <1>5, <1>6, <1>8, <1>9 DEF HistInv

\* The steps a client takes keep it.
LEMMA ClientHist ==
    ASSUME HistInv, Inv', NEW t \in Txn, Client(t)
    PROVE  HistInv'
<1>1. OwnStep(t)
  BY ClientStep DEF HistInv
<1>2. CASE \E k \in Key, mode \in Modes : \/ LookupLocal(t, k, mode)
                                          \/ LookupNotVisible(t, k, mode)
                                          \/ LookupGlobal(t, k, mode)
  BY <1>1, <1>2, LookupLocalRetypes, LookupLocalFilters, LookupNotVisibleHist,
     LookupGlobalHist
<1>3. CASE \E k \in Key : IndexInsert(t, k)
  BY <1>1, <1>3, IndexInsertHist
<1> QED  BY <1>1, <1>2, <1>3, StartTransactionHist, SetSnapshotHist, PreAbortCheckHist,
            RollbackHist
         DEF Client

\* So do the steps of the engine.
LEMMA EngineHist ==
    ASSUME HistInv, Inv', NEW t \in Txn, Engine(t)
    PROVE  HistInv'
<1>1. OwnStep(t)
  BY EngineStep DEF HistInv
<1> QED  BY <1>1, GetVisibleRowVersionHist, GetVisiblePrimaryHeaderHist,
            GetVisibleRowForUpdateEntryHist, GetVisibleRowHist, AddInsertToLocalAccessHist,
            IndexRemoveHist, LockHeaderHist, UnlockHist, LockBackoffHist,
            ValidateWriteSetHist, GetNextCSNHist, AbortValidatedHist,
            WriteGlobalChangesHist, WriteSentinelChangesHist, EndTransactionHist,
            AbortUnlockedHist, RollbackInsertHist, EndRollbackHist
         DEF Engine

\* Every step keeps the invariant.
LEMMA NextHist == HistInv /\ [Next]_vars => HistInv'
<1> SUFFICES ASSUME HistInv, [Next]_vars PROVE HistInv'
  OBVIOUS
<1>1. Inv'
  BY NextInv DEF HistInv
<1>2. CASE UNCHANGED vars
  BY <1>2, StutterHist
<1> QED  BY <1>1, <1>2, ClientHist, EngineHist DEF Next

\* Every behaviour of the engine keeps it.
LEMMA HistInvariant == Spec => []HistInv
BY InitHist, NextHist, PTL DEF Spec

\* The inserts that are pending hold references.
LEMMA PendingCounted ==
    ASSUME RefsInv, NEW k \in Key
    PROVE  /\ IsFiniteSet(PendingInserts(k))
           /\ Cardinality(PendingInserts(k)) \in Nat
           /\ Cardinality(PendingInserts(k)) + (IF dirty[k] THEN 0 ELSE 1) <= Count(k)
           /\ Count(k) = 0 => PendingInserts(k) = {}
<1> DEFINE H == Holders(k)
           I == Inserters(k)
<1>1. IsFiniteSet(H) /\ IsFiniteSet(I)
  BY DEF RefsInv, RefInv
<1>2. PendingInserts(k) = H \cup I
  BY DEF PendingInserts, Holders, Inserters
<1>3. /\ IsFiniteSet(H \cup I)
      /\ Cardinality(H \cup I) = Cardinality(H) + Cardinality(I) - Cardinality(H \cap I)
      /\ IsFiniteSet(H \cap I)
  BY <1>1, FS_Union, FS_Intersection
<1>4. /\ Cardinality(H) \in Nat /\ Cardinality(I) \in Nat /\ Cardinality(H \cup I) \in Nat
      /\ Cardinality(H \cap I) \in Nat
  BY <1>1, <1>3, FS_CardinalityType
<1>5. Count(k) = Cardinality(H) + Cardinality(I) + (IF dirty[k] THEN 0 ELSE 1)
  BY DEF Count
<1>6. Cardinality(H \cup I) = 0 => H \cup I = {}
  BY <1>3, FS_EmptySet
<1> DEFINE d == IF dirty[k] THEN 0 ELSE 1
<1>7. d \in Nat /\ Count(k) = Cardinality(H) + Cardinality(I) + d
  BY <1>5
<1> HIDE DEF H, I, d
<1>8. Cardinality(H \cup I) + d <= Count(k)
  BY <1>3, <1>4, <1>7
<1>9. Count(k) = 0 => Cardinality(H \cup I) = 0
  BY <1>3, <1>4, <1>7
<1> QED  BY <1>2, <1>3, <1>4, <1>6, <1>8, <1>9 DEF d

-----------------------------------------------------------------------------
(* The theorems. *)

\* No lost update, for any number of transactions and keys: the published chain of a
\* key is its committed history, but for the one commit that is still publishing it
\* (ValidateOcc against WriteChanges of other sessions).
THEOREM NoLostUpdate == Spec => []ChainIsHistory
<1>1. HistInv => ChainIsHistory
  <2> SUFFICES ASSUME HistInv, NEW k \in Key
               PROVE  \/ chain[k] = hist[k] /\ \A t \in Txn : ~Pending(t, k)
                      \/ \E t \in Txn : /\ Pending(t, k)
                                        /\ lock[k] = t
                                        /\ hist[k] = NewVersions(t, k, tcsn[t]) \o chain[k]
                                        /\ \A u \in Txn \ {t} : ~Pending(u, k)
    BY DEF ChainIsHistory
  <2>1. \A t \in Txn : Pending(t, k) => lock[k] = t
    BY ReadyLocked DEF HistInv, Ready
  <2>2. RowInv(k)
    BY DEF HistInv, RowsInv
  <2> QED  BY <2>1, <2>2 DEF RowInv
<1> QED  BY <1>1, HistInvariant, PTL

\* No sentinel is freed under an insert or a committed row: the reference count covers
\* them, however commits, roll-backs and removals of the same key interleave.
THEOREM NoSentinelLost == Spec => []SentinelKept
<1>1. HistInv => SentinelKept
  <2> SUFFICES ASSUME HistInv, NEW k \in Key
               PROVE  /\ refs[k] = 0 => chain[k] = <<>> /\ PendingInserts(k) = {}
                      /\ ~present[k] => refs[k] = 0
                      /\ refs[k] >= Cardinality(PendingInserts(k))
                                      + (IF dirty[k] THEN 0 ELSE 1)
    BY DEF SentinelKept
  <2>1. RefInv(k) /\ RowInv(k) /\ RefsInv /\ refs[k] \in Int /\ dirty[k] \in BOOLEAN
    BY DEF HistInv, RefsInv, RowsInv, Inv, TypeOK, SentinelTypeOK
  <2>2. /\ Cardinality(PendingInserts(k)) \in Nat
        /\ Cardinality(PendingInserts(k)) + (IF dirty[k] THEN 0 ELSE 1) <= Count(k)
        /\ Count(k) = 0 => PendingInserts(k) = {}
    BY <2>1, PendingCounted
  <2>3. refs[k] >= Count(k) /\ (~present[k] => refs[k] = 0)
    BY <2>1 DEF RefInv
  <2>4. Count(k) \in Nat
    BY <2>1, FS_CardinalityType DEF RefInv, Count
  <2>5. refs[k] = 0 => Count(k) = 0 /\ dirty[k]
    BY <2>1, <2>2, <2>3, <2>4
  <2>6. dirty[k] => chain[k] = <<>>
    BY <2>1 DEF RowInv
  <2>7. refs[k] >= Cardinality(PendingInserts(k)) + (IF dirty[k] THEN 0 ELSE 1)
    BY <2>1, <2>2, <2>3, <2>4
  <2> QED  BY <2>2, <2>3, <2>5, <2>6, <2>7
<1> QED  BY <1>1, HistInvariant, PTL

\* The rows that stand at the end of a longer chain.
LEMMA TailOfConcat ==
    ASSUME NEW v \in Seq(Version), NEW h \in Seq(Version)
    PROVE  \E n \in 0..Len(v \o h) : h = SubSeq(v \o h, n + 1, Len(v \o h))
<1> DEFINE w == v \o h
           n == Len(v)
           s == SubSeq(w, n + 1, Len(w))
<1>1. n \in Nat /\ Len(h) \in Nat
  BY LenProperties
<1>2. /\ w \in Seq(Version) /\ Len(w) = n + Len(h)
      /\ \A i \in 1..n + Len(h) : w[i] = IF i <= n THEN v[i] ELSE h[i - n]
  BY ConcatProperties
<1> HIDE DEF w, n
<1>3. \A i \in n + 1..Len(w) : w[i] \in Version
  BY <1>1, <1>2, ElementOfSeq
<1>4. /\ s \in Seq(Version)
      /\ Len(s) = IF n + 1 <= Len(w) THEN Len(w) - (n + 1) + 1 ELSE 0
      /\ \A i \in 1..Len(w) - (n + 1) + 1 : s[i] = w[n + 1 + i - 1]
  BY <1>1, <1>2, <1>3, SubSeqProperties
<1> HIDE DEF s
<1>5. Len(s) = Len(h)
  BY <1>1, <1>2, <1>4
<1>6. ASSUME NEW i \in 1..Len(h)
      PROVE  s[i] = h[i]
  <2>1. i \in 1..Len(w) - (n + 1) + 1 /\ n + 1 + i - 1 = n + i /\ n + i \in 1..n + Len(h)
        /\ ~(n + i <= n) /\ (n + i) - n = i
    BY <1>1, <1>2
  <2> QED  BY <1>2, <1>4, <2>1
<1>7. h = s
  BY <1>4, <1>5, <1>6, SeqEqual
<1>8. n \in 0..Len(w)
  BY <1>1, <1>2
<1> QED  BY <1>7, <1>8 DEF s, w, n

\* What a step does to the row of a sentinel that stays in the index.
LEMMA ChainStep ==
    ASSUME HistInv, Next, NEW k \in Key, present[k]
    PROVE  \/ chain'[k] = chain[k]
           \/ \E t \in Txn : /\ tcsn[t] \in Nat
                             /\ chain'[k] = NewVersions(t, k, tcsn[t]) \o chain[k]
<1>0. chain \in [Key -> Seq(Version)]
  BY DEF HistInv, Inv, TypeOK, SentinelTypeOK
<1>1. ASSUME NEW t \in Txn, Client(t)
      PROVE  chain'[k] = chain[k]
  <2>1. ASSUME NEW j \in Key, IndexInsert(t, j)
        PROVE  chain'[k] = chain[k]
    BY <1>0, <2>1 DEF IndexInsert
  <2> QED  BY <1>1, <2>1
           DEF Client, StartTransaction, SetSnapshot, LookupLocal, LookupNotVisible,
               LookupGlobal, PreAbortCheck, Rollback, sentVars
<1>2. ASSUME NEW t \in Txn, NEW j \in Key, Pending(t, j),
             chain' = [chain EXCEPT ![j] = NewVersions(t, j, tcsn[t]) \o acc[t][j].base]
      PROVE  \/ chain'[k] = chain[k]
             \/ chain'[k] = NewVersions(t, k, tcsn[t]) \o chain[k]
  <2>1. acc[t][j].base = chain[j]
    BY <1>2 DEF HistInv, CommitsInv, CommitInv, Ready
  <2> QED  BY <1>0, <1>2, <2>1
<1>3. ASSUME NEW t \in Txn, WriteGlobalChanges(t)
      PROVE  \/ chain' = chain
             \/ \E j \in Key : /\ Pending(t, j)
                               /\ chain' = [chain EXCEPT ![j] =
                                              NewVersions(t, j, tcsn[t]) \o acc[t][j].base]
  <2>1. /\ todo[t] # {} /\ todo[t] \subseteq WriteSet(t)
        /\ todo[t] \in SUBSET Nat /\ todo[t] \subseteq Key
    BY <1>3, ConstantsAssumption
    DEF WriteGlobalChanges, HistInv, Inv, TodoInv, TodoOK, TypeOK, TxnTypeOK
  <2>2. First(todo[t]) \in todo[t]
    BY <2>1, FirstIsLeast
  <2>3. Pending(t, First(todo[t]))
    BY <1>3, <2>1, <2>2 DEF Pending, WriteGlobalChanges
  <2> QED  BY <1>3, <2>1, <2>2, <2>3 DEF WriteGlobalChanges
<1>4. ASSUME NEW t \in Txn, WriteSentinelChanges(t)
      PROVE  \E j \in Key : /\ Pending(t, j)
                            /\ chain' = [chain EXCEPT ![j] =
                                           NewVersions(t, j, tcsn[t]) \o acc[t][j].base]
  <2>1. /\ todo[t] # {} /\ todo[t] \subseteq InsertSet(t)
        /\ todo[t] \in SUBSET Nat /\ todo[t] \subseteq Key
    BY <1>4, ConstantsAssumption
    DEF WriteSentinelChanges, HistInv, Inv, TodoInv, TodoOK, TypeOK, TxnTypeOK
  <2>2. First(todo[t]) \in todo[t]
    BY <2>1, FirstIsLeast
  <2>3. Pending(t, First(todo[t]))
    BY <1>4, <2>1, <2>2, SetTypes DEF Pending, WriteSentinelChanges
  <2> QED  BY <1>4, <2>1, <2>2, <2>3 DEF WriteSentinelChanges
<1>5. ASSUME NEW t \in Txn, Engine(t)
      PROVE  chain' = chain \/ WriteGlobalChanges(t) \/ WriteSentinelChanges(t)
  BY <1>5
  DEF Engine, GetVisibleRowVersion, GetVisiblePrimaryHeader, GetVisibleRowForUpdateEntry,
      GetVisibleRow, AddInsertToLocalAccess, IndexRemove, LockHeader, Unlock, LockBackoff,
      ValidateWriteSet, GetNextCSN, AbortValidated, EndTransaction, AbortUnlocked,
      RollbackInsert, EndRollback, sentVars
<1>6. ASSUME NEW t \in Txn, Engine(t)
      PROVE  chain'[k] = chain[k] \/ chain'[k] = NewVersions(t, k, tcsn[t]) \o chain[k]
  BY <1>2, <1>3, <1>4, <1>5, <1>6
<1>7. \A t \in Txn : tcsn[t] \in Nat
  BY DEF HistInv, Inv, TypeOK, TxnTypeOK
<1>8. UNCHANGED vars => chain' = chain
  BY DEF vars, sentVars
<1> QED  BY <1>1, <1>6, <1>7, <1>8 DEF Next

\* No commit ever unlinks a published version: the chain a step leaves ends in the
\* chain it found (WriteGlobalChanges and WriteSentinelChanges link the row they
\* replace behind the new one, and the row they replace is the newest one).
THEOREM NothingUnlinked == Spec => VersionsNeverLost
<1> DEFINE A == \A k \in Key : present[k] /\ present'[k] =>
                    \E n \in 0..Len(chain'[k]) :
                        chain[k] = SubSeq(chain'[k], n + 1, Len(chain'[k]))
<1>1. ASSUME HistInv, Next
      PROVE  A
  <2> SUFFICES ASSUME NEW k \in Key, present[k]
               PROVE  \E n \in 0..Len(chain'[k]) :
                          chain[k] = SubSeq(chain'[k], n + 1, Len(chain'[k]))
    OBVIOUS
  <2>0. chain[k] \in Seq(Version)
    BY <1>1 DEF HistInv, Inv, TypeOK, SentinelTypeOK
  <2>1. CASE chain'[k] = chain[k]
    <3>1. SubSeq(chain[k], 1, Len(chain[k])) = chain[k] /\ 0 \in 0..Len(chain[k])
      BY <2>0, SubSeqFull, LenProperties
    <3>2. chain[k] = SubSeq(chain'[k], 0 + 1, Len(chain'[k])) /\ 0 \in 0..Len(chain'[k])
      BY <2>1, <3>1
    <3> QED  BY <3>2
  <2>2. ASSUME NEW t \in Txn, tcsn[t] \in Nat,
               chain'[k] = NewVersions(t, k, tcsn[t]) \o chain[k]
        PROVE  \E n \in 0..Len(chain'[k]) :
                   chain[k] = SubSeq(chain'[k], n + 1, Len(chain'[k]))
    <3> DEFINE v == NewVersions(t, k, tcsn[t])
               h == chain[k]
    <3>1. v \in Seq(Version) /\ h \in Seq(Version)
      BY <2>0, <2>2, NewVersionsShape
    <3>2. chain'[k] = v \o h
      BY <2>2
    <3> HIDE DEF v, h
    <3>3. \E n \in 0..Len(v \o h) : h = SubSeq(v \o h, n + 1, Len(v \o h))
      BY <3>1, TailOfConcat
    <3>4. \E n \in 0..Len(chain'[k]) : h = SubSeq(chain'[k], n + 1, Len(chain'[k]))
      BY <3>2, <3>3
    <3> QED  BY <3>4 DEF h
  <2> QED  BY <1>1, <2>1, <2>2, ChainStep
<1>2. HistInv /\ [Next]_vars => [A]_vars
  BY <1>1
<1>3. Spec => [][A]_vars
  <2> HIDE DEF A
  <2> QED  BY <1>2, HistInvariant, PTL DEF Spec
<1> QED  BY <1>3 DEF VersionsNeverLost
=============================================================================
