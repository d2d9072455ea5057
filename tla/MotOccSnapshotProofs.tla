------------------------ MODULE MotOccSnapshotProofs ------------------------
(***************************************************************************)
(* Proofs that MOT's commit protocol implements snapshot isolation, and    *)
(* that every row a statement is handed through the version chain is the   *)
(* one its snapshot shows, for every number of transactions and keys.      *)
(*                                                                         *)
(* Both rest on HistInv.  The refinement: the CSN is drawn when every      *)
(* write of the transaction is drafted on the newest committed version of  *)
(* its key, so drawing it is the atomic commit; publishing the rows and    *)
(* releasing the locks changes nothing a client may observe.  The reads:   *)
(* when a reader stops spinning, either the chain of the key is its        *)
(* history, or what the history has more is the write of one commit whose  *)
(* CSN is not before the reader's snapshot; and later commits draw later   *)
(* CSNs, so the answer stays the answer (LastInv).                         *)
(***************************************************************************)
EXTENDS MotOccHistoryProofs

-----------------------------------------------------------------------------
(* The drafts: only an insert builds on a tombstone. *)

DraftsInv == \A t \in Txn, k \in Key : acc[t][k].type # "INS" => ~acc[t][k].iod

\* The initial states satisfy it.
LEMMA InitDrafts == Init => DraftsInv
BY DEF Init, DraftsInv, NoAccess

\* A step that rewrites one access of t keeps it when the new access obeys it.
LEMMA OneDraft ==
    ASSUME Inv, DraftsInv, NEW t \in Txn, OwnStep(t), NEW k \in Key, NEW a,
           acc' = [acc EXCEPT ![t][k] = a], a.type # "INS" => ~a.iod
    PROVE  DraftsInv'
<1>1. acc \in [Txn -> [Key -> Access]]
  BY DEF Inv, TypeOK, TxnTypeOK
<1>2. \A u \in Txn, j \in Key : acc'[u][j] = IF u = t /\ j = k THEN a ELSE acc[u][j]
  BY <1>1
<1> QED  BY <1>2 DEF DraftsInv

\* A step that drops accesses of t, or keeps them, keeps it.
LEMMA FewerDrafts ==
    ASSUME DraftsInv, NEW t \in Txn, OwnStep(t),
           \A k \in Key : acc'[t][k] = acc[t][k] \/ acc'[t][k] = NoAccess
    PROVE  DraftsInv'
<1> SUFFICES ASSUME NEW u \in Txn, NEW k \in Key
             PROVE  acc'[u][k].type # "INS" => ~acc'[u][k].iod
  BY DEF DraftsInv
<1>1. acc'[u][k] = acc[u][k] \/ acc'[u][k] = NoAccess
  BY DEF OwnStep
<1> QED  BY <1>1 DEF DraftsInv, NoAccess

\* LookupLocal retypes a draft, or undoes an insert.
LEMMA LookupLocalDrafts ==
    ASSUME Inv, DraftsInv, NEW t \in Txn, OwnStep(t), NEW k \in Key, NEW mode \in Modes,
           LookupLocal(t, k, mode)
    PROVE  DraftsInv'
<1> DEFINE a == acc[t][k]
<1>0. a \in Access
  BY DEF Inv, TypeOK, TxnTypeOK
<1>1. CASE a.type = "INS" /\ mode = "DEL"
  <2> DEFINE b == IF a.upg /\ ~a.iod THEN [a EXCEPT !.type = "DEL", !.upg = FALSE]
                  ELSE NoAccess
  <2>1. acc' = [acc EXCEPT ![t][k] = b]
    BY <1>1 DEF LookupLocal, FilterOrderedSet
  <2>2. b.type # "INS" => ~b.iod
    BY <1>0 DEF NoAccess, Access
  <2> HIDE DEF b
  <2> QED  BY <2>1, <2>2, OneDraft
<1>2. CASE ~(a.type = "INS" /\ mode = "DEL") /\ a.type = "DEL"
  BY <1>2, FewerDrafts DEF LookupLocal
<1>3. CASE ~(a.type = "INS" /\ mode = "DEL") /\ a.type # "DEL"
  <2> DEFINE b == [a EXCEPT !.type = NextType(a.type, mode)]
  <2>1. acc' = [acc EXCEPT ![t][k] = b]
    BY <1>3 DEF LookupLocal
  <2>2. a.type = "INS" => NextType(a.type, mode) = "INS"
    BY <1>3 DEF NextType, Modes
  <2>3. b.type = NextType(a.type, mode) /\ b.iod = a.iod
    BY <1>0 DEF Access
  <2>4. b.type # "INS" => ~b.iod
    BY <2>2, <2>3 DEF DraftsInv
  <2> HIDE DEF b
  <2> QED  BY <2>1, <2>4, OneDraft
<1> QED  BY <1>1, <1>2, <1>3

\* GetVisibleRow maps a row that is not a tombstone.
LEMMA GetVisibleRowDrafts ==
    ASSUME Inv, DraftsInv, NEW t \in Txn, OwnStep(t), GetVisibleRow(t)
    PROVE  DraftsInv'
<1> PICK k \in Key : k = cur[t].key
  BY DEF GetVisibleRow, Inv, CurInv, CurOK
<1>1. CASE acc' = acc
  BY <1>1, FewerDrafts
<1>2. CASE MapRowToLocalTable(t, k, chain[k])
  <2> DEFINE b == [type |-> cur[t].mode, upg |-> FALSE, iod |-> FALSE,
                   base |-> chain[k], snapshot |-> snap[t]]
  <2>1. acc' = [acc EXCEPT ![t][k] = b] /\ ~b.iod
    BY <1>2 DEF MapRowToLocalTable
  <2> HIDE DEF b
  <2> QED  BY <2>1, OneDraft
<1> QED  BY <1>1, <1>2 DEF GetVisibleRow

\* AddInsertToLocalAccess maps inserts only.
LEMMA AddInsertToLocalAccessDrafts ==
    ASSUME Inv, DraftsInv, NEW t \in Txn, OwnStep(t), AddInsertToLocalAccess(t)
    PROVE  DraftsInv'
<1> PICK k \in Key : k = cur[t].key
  BY DEF AddInsertToLocalAccess, Inv, CurInv, CurOK
<1> DEFINE a == acc[t][k]
<1>0. a \in Access
  BY DEF Inv, TypeOK, TxnTypeOK
<1>1. \/ acc' = acc
      \/ acc' = [acc EXCEPT ![t][k] = InsertAccess(chain[k], snap[t], TRUE, TRUE)]
      \/ acc' = [acc EXCEPT ![t][k] = [a EXCEPT !.type = "INS", !.upg = TRUE]]
      \/ acc' = [acc EXCEPT ![t][k] = InsertAccess(<<>>, 0, FALSE, FALSE)]
  BY DEF AddInsertToLocalAccess, CleanupOptimisticInsert
<1>2. \A b, s, g, i : InsertAccess(b, s, g, i).type = "INS"
  BY DEF InsertAccess
<1>3. [a EXCEPT !.type = "INS", !.upg = TRUE].type = "INS"
  BY <1>0 DEF Access
<1>4. \A b : acc' = [acc EXCEPT ![t][k] = b] /\ b.type = "INS" => DraftsInv'
  BY OneDraft
<1>5. CASE acc' = acc
  BY <1>5, FewerDrafts
<1>6. CASE acc' = [acc EXCEPT ![t][k] = InsertAccess(chain[k], snap[t], TRUE, TRUE)]
  <2> DEFINE b == InsertAccess(chain[k], snap[t], TRUE, TRUE)
  <2>1. b.type = "INS"
    BY <1>2
  <2>2. acc' = [acc EXCEPT ![t][k] = b]
    BY <1>6
  <2> HIDE DEF b
  <2> QED  BY <1>4, <2>1, <2>2
<1>7. CASE acc' = [acc EXCEPT ![t][k] = [a EXCEPT !.type = "INS", !.upg = TRUE]]
  BY <1>3, <1>4, <1>7
<1>8. CASE acc' = [acc EXCEPT ![t][k] = InsertAccess(<<>>, 0, FALSE, FALSE)]
  BY <1>2, <1>4, <1>8
<1> QED  BY <1>1, <1>5, <1>6, <1>7, <1>8

\* The rest of the engine drops accesses or leaves them alone.
LEMMA NextDrafts == Inv /\ DraftsInv /\ [Next]_vars => DraftsInv'
<1> SUFFICES ASSUME Inv, DraftsInv, [Next]_vars PROVE DraftsInv'
  OBVIOUS
<1>0. acc \in [Txn -> [Key -> Access]]
  BY DEF Inv, TypeOK, TxnTypeOK
<1>1. CASE UNCHANGED vars
  BY <1>1 DEF DraftsInv, vars, txnVars
<1>2. ASSUME NEW t \in Txn, Client(t)
      PROVE  DraftsInv'
  <2>0. OwnStep(t)
    BY <1>2, ClientStep
  <2>1. CASE \E k \in Key, mode \in Modes : LookupLocal(t, k, mode)
    BY <2>0, <2>1, LookupLocalDrafts
  <2>2. CASE PreAbortCheck(t)
    <3>1. \A k \in Key : acc'[t][k] = acc[t][k] \/ acc'[t][k] = NoAccess
      BY <1>0, <2>2 DEF PreAbortCheck
    <3> QED  BY <2>0, <3>1, FewerDrafts
  <2>3. CASE \/ StartTransaction(t) \/ SetSnapshot(t) \/ Rollback(t)
             \/ \E k \in Key, mode \in Modes : \/ LookupNotVisible(t, k, mode)
                                               \/ LookupGlobal(t, k, mode)
             \/ \E k \in Key : IndexInsert(t, k)
    <3>1. acc' = acc
      BY <2>3 DEF StartTransaction, SetSnapshot, Rollback, LookupNotVisible, LookupGlobal,
                  IndexInsert, txnVars
    <3> QED  BY <2>0, <3>1, FewerDrafts
  <2> QED  BY <1>2, <2>1, <2>2, <2>3 DEF Client
<1>3. ASSUME NEW t \in Txn, Engine(t)
      PROVE  DraftsInv'
  <2>0. OwnStep(t)
    BY <1>3, EngineStep
  <2>1. CASE EndTransaction(t) \/ EndRollback(t)
    <3>1. \A k \in Key : acc'[t][k] = NoAccess
      BY <1>0, <2>1 DEF EndTransaction, EndRollback, Cleanup
    <3> QED  BY <2>0, <3>1, FewerDrafts
  <2>2. CASE RollbackInsert(t)
    <3>1. \A k \in Key : acc'[t][k] = acc[t][k] \/ acc'[t][k] = NoAccess
      BY <1>0, <2>2 DEF RollbackInsert
    <3> QED  BY <2>0, <3>1, FewerDrafts
  <2>3. CASE \/ GetVisibleRowVersion(t) \/ GetVisiblePrimaryHeader(t)
             \/ GetVisibleRowForUpdateEntry(t) \/ IndexRemove(t) \/ LockHeader(t)
             \/ Unlock(t) \/ LockBackoff(t) \/ ValidateWriteSet(t) \/ GetNextCSN(t)
             \/ AbortValidated(t) \/ WriteGlobalChanges(t) \/ WriteSentinelChanges(t)
             \/ AbortUnlocked(t)
    <3>1. acc' = acc
      BY <2>3 DEF GetVisibleRowVersion, GetVisiblePrimaryHeader, GetVisibleRowForUpdateEntry,
                  IndexRemove, LockHeader, Unlock, LockBackoff, ValidateWriteSet, GetNextCSN,
                  AbortValidated, WriteGlobalChanges, WriteSentinelChanges, AbortUnlocked
    <3> QED  BY <2>0, <3>1, FewerDrafts
  <2> QED  BY <1>3, <2>0, <2>1, <2>2, <2>3, GetVisibleRowDrafts, AddInsertToLocalAccessDrafts
           DEF Engine
<1> QED  BY <1>1, <1>2, <1>3 DEF Next

\* So it always holds, with HistInv.
LEMMA DraftsInvariant == Spec => [](HistInv /\ DraftsInv)
<1>1. HistInv => Inv
  BY DEF HistInv
<1> QED  BY <1>1, InitHist, NextHist, InitDrafts, NextDrafts, PTL DEF Spec

-----------------------------------------------------------------------------
(* The refinement. *)

\* The abstract write an access stands for.
Kind(a) == IF a.type = "WR" THEN "update"
           ELSE IF a.type = "DEL" THEN "delete"
           ELSE IF a.upg /\ ~a.iod THEN "replace" ELSE "insert"

\* It writes the same versions.
LEMMA KindWrites ==
    ASSUME NEW t, NEW k, NEW c, acc[t][k].type \in WriteTypes
    PROVE  SI!Written(Kind(acc[t][k]), c) = NewVersions(t, k, c)
<1> DEFINE a == acc[t][k]
<1>1. CASE a.type = "DEL"
  <2>1. Kind(a) = "delete"
    BY <1>1 DEF Kind
  <2>2. SI!Written("delete", c) = <<[csn |-> c, del |-> TRUE]>>
    BY Zenon DEF SI!Written
  <2>3. (a.type = "DEL") = TRUE
    BY <1>1
  <2>4. NewVersions(t, k, c) = <<[csn |-> c, del |-> TRUE]>>
    BY <1>1, <2>3 DEF NewVersions
  <2> QED  BY <2>1, <2>2, <2>4
<1>2. CASE a.type = "INS" /\ a.upg /\ ~a.iod
  <2>1. Kind(a) = "replace"
    BY <1>2 DEF Kind
  <2>2. SI!Written("replace", c) =
            <<[csn |-> c, del |-> FALSE], [csn |-> c, del |-> TRUE]>>
    BY Zenon DEF SI!Written
  <2> QED  BY <1>2, <2>1, <2>2 DEF NewVersions
<1>3. CASE a.type # "DEL" /\ ~(a.type = "INS" /\ a.upg /\ ~a.iod)
  <2>1. Kind(a) \in {"update", "insert"}
    BY <1>3 DEF Kind, WriteTypes
  <2>2. \A kind \in {"update", "insert"} :
            SI!Written(kind, c) = <<[csn |-> c, del |-> FALSE]>>
    <3>1. SI!Written("update", c) = <<[csn |-> c, del |-> FALSE]>>
      BY Zenon DEF SI!Written
    <3>2. SI!Written("insert", c) = <<[csn |-> c, del |-> FALSE]>>
      BY Zenon DEF SI!Written
    <3> QED  BY <3>1, <3>2
  <2>3. (a.type = "DEL") = FALSE
    BY <1>3
  <2>4. NewVersions(t, k, c) = <<[csn |-> c, del |-> FALSE]>>
    BY <1>3, <2>3 DEF NewVersions
  <2> QED  BY <2>1, <2>2, <2>4
<1> QED  BY <1>1, <1>2, <1>3

\* What a validated transaction writes, snapshot isolation allows it to write.
LEMMA ValidatedMayWrite ==
    ASSUME HistInv, DraftsInv, NEW t \in Txn, pc[t] = "validated", NEW k \in Key, k \in WriteSet(t)
    PROVE  SI!MayWrite(t, k, Kind(acc[t][k]))
<1> DEFINE a == acc[t][k]
<1>0. AccessInv(t, k) /\ CommitInv(t) /\ RowInv(k) /\ Inv
  BY DEF HistInv, AccessesInv, CommitsInv, RowsInv
<1>1. Ready(t, k)
  BY DEF Ready
<1>2. \A u \in Txn : ~Pending(u, k)
  <2>1. lock[k] = t
    BY <1>0, <1>1, ReadyLocked
  <2>2. \A u \in Txn : Pending(u, k) => lock[k] = u
    BY <1>0, ReadyLocked DEF Ready
  <2>3. ~Pending(t, k)
    BY DEF Pending
  <2> QED  BY <2>1, <2>2, <2>3
<1>3. hist[k] = a.base
  BY <1>0, <1>1, <1>2 DEF RowInv, CommitInv
<1>4. a.type \in {"WR", "DEL", "INS"}
  BY DEF WriteSet, WriteTypes
<1>5. CASE a.type = "INS" /\ ~a.upg
  <2>1. hist[k] = <<>>
    BY <1>0, <1>3, <1>5 DEF AccessInv
  <2>2. Kind(a) = "insert"
    BY <1>5 DEF Kind
  <2> QED  BY <2>1, <2>2 DEF SI!MayWrite, SI!Live
<1>6. CASE a.type = "INS" /\ a.upg /\ a.iod
  <2>1. Deleted(hist[k])
    BY <1>0, <1>3, <1>6 DEF AccessInv, Based, BaseOK
  <2>2. Kind(a) = "insert"
    BY <1>6 DEF Kind
  <2> QED  BY <2>1, <2>2 DEF SI!MayWrite, SI!Live, Deleted
<1>7. CASE a.type \in {"WR", "DEL"} \/ (a.type = "INS" /\ a.upg /\ ~a.iod)
  <2>1. Based(a) /\ BaseOK(a, chain[k])
    BY <1>0, <1>7 DEF AccessInv, Based
  <2>2. ~a.iod
    <3>1. CASE a.type = "INS"
      BY <1>7, <3>1
    <3>2. CASE a.type # "INS"
      BY <3>2 DEF DraftsInv
    <3> QED  BY <3>1, <3>2
  <2>3. ~Deleted(hist[k]) /\ hist[k] # <<>>
    BY <1>3, <2>1, <2>2 DEF BaseOK
  <2>4. iso[t] = "RR" => RowCsn(hist[k]) < snap[t]
    BY <1>0, <1>3, <2>1, <2>2 DEF AccessInv
  <2>5. Kind(a) # "insert"
    BY <1>7 DEF Kind
  <2> QED  BY <2>3, <2>4, <2>5 DEF SI!MayWrite, SI!Live, Deleted, RowCsn
<1> QED  BY <1>4, <1>5, <1>6, <1>7

\* Drawing the CSN is the atomic commit.
LEMMA GetNextCSNCommits ==
    ASSUME HistInv, DraftsInv, NEW t \in Txn, GetNextCSN(t)
    PROVE  SI!AbsNext
<1> DEFINE W == WriteSet(t)
           op == [k \in W |-> Kind(acc[t][k])]
<1>1. pc[t] = "validated" /\ W \in SUBSET Key
  BY DEF GetNextCSN, WriteSet
<1>2. op \in [W -> SI!Kinds]
  <2>1. \A k \in W : Kind(acc[t][k]) \in SI!Kinds
    BY DEF Kind, SI!Kinds
  <2> QED  BY <2>1
<1>3. DOMAIN op = W /\ \A k \in W : op[k] = Kind(acc[t][k])
  OBVIOUS
<1>4. \A k \in DOMAIN op : SI!MayWrite(t, k, op[k])
  BY <1>1, <1>3, ValidatedMayWrite
<1>5. \A k \in W : SI!Written(op[k], csn) = NewVersions(t, k, csn)
  BY <1>3, KindWrites DEF WriteSet
<1>6. hist' = [k \in Key |-> IF k \in DOMAIN op
                             THEN SI!Written(op[k], csn) \o hist[k] ELSE hist[k]]
  <2>1. hist' = [k \in Key |-> IF k \in W THEN NewVersions(t, k, csn) \o hist[k] ELSE hist[k]]
    BY DEF GetNextCSN
  <2> HIDE DEF W, op
  <2> QED  BY <1>3, <1>5, <2>1
<1>7. csn' = csn + 1 /\ iso' = iso /\ snap' = snap
  BY DEF GetNextCSN
<1> HIDE DEF W, op
<1>8. SI!Commit(t, op)
  BY <1>4, <1>6, <1>7 DEF SI!Commit
<1> QED  BY <1>1, <1>2, <1>8 DEF SI!AbsNext

\* The end of a statement or of a transaction drops the snapshot or keeps it.
SnapDropped(t) == snap' = snap \/ snap' = [snap EXCEPT ![t] = 0]

\* Every other step leaves the committed data alone, and the snapshot, but for
\* SetSnapshot that takes it.
LEMMA ClientAbs ==
    ASSUME Inv, NEW t \in Txn, Client(t), ~SetSnapshot(t)
    PROVE  csn' = csn /\ hist' = hist /\ iso' = iso /\ SnapDropped(t)
<1>0. snap \in [Txn -> Nat]
  BY DEF Inv, TypeOK, TxnTypeOK
<1>1. AfterStatement(t) = snap \/ AfterStatement(t) = [snap EXCEPT ![t] = 0]
  BY <1>0 DEF AfterStatement
<1>2. CASE \E k \in Key, mode \in Modes : \/ LookupLocal(t, k, mode)
                                          \/ LookupNotVisible(t, k, mode)
                                          \/ LookupGlobal(t, k, mode)
  BY <1>1, <1>2 DEF LookupLocal, LookupNotVisible, LookupGlobal, SnapDropped
<1>3. CASE \E k \in Key : IndexInsert(t, k)
  BY <1>3 DEF IndexInsert, SnapDropped
<1>4. CASE StartTransaction(t) \/ PreAbortCheck(t) \/ Rollback(t)
  BY <1>4 DEF StartTransaction, PreAbortCheck, Rollback, SnapDropped, txnVars
<1> QED  BY <1>2, <1>3, <1>4 DEF Client

\* The same for the steps of the engine that draw no CSN.
LEMMA EngineAbs ==
    ASSUME Inv, NEW t \in Txn, Engine(t), ~GetNextCSN(t)
    PROVE  csn' = csn /\ hist' = hist /\ iso' = iso /\ SnapDropped(t)
<1>0. snap \in [Txn -> Nat]
  BY DEF Inv, TypeOK, TxnTypeOK
<1>1. AfterStatement(t) = snap \/ AfterStatement(t) = [snap EXCEPT ![t] = 0]
  BY <1>0 DEF AfterStatement
<1>2. CASE GetVisibleRowVersion(t) \/ GetVisiblePrimaryHeader(t)
             \/ GetVisibleRowForUpdateEntry(t) \/ GetVisibleRow(t)
  BY <1>1, <1>2 DEF GetVisibleRowVersion, GetVisiblePrimaryHeader,
                    GetVisibleRowForUpdateEntry, GetVisibleRow, FinishStatement, SnapDropped
<1>3. CASE AddInsertToLocalAccess(t)
  BY <1>1, <1>3 DEF AddInsertToLocalAccess, CleanupOptimisticInsert, FinishStatement, SnapDropped
<1>4. CASE EndTransaction(t) \/ EndRollback(t)
  BY <1>4 DEF EndTransaction, EndRollback, Cleanup, SnapDropped
<1>5. CASE \/ IndexRemove(t) \/ LockHeader(t) \/ Unlock(t) \/ LockBackoff(t)
           \/ ValidateWriteSet(t) \/ AbortValidated(t) \/ WriteGlobalChanges(t)
           \/ WriteSentinelChanges(t) \/ AbortUnlocked(t) \/ RollbackInsert(t)
  BY <1>5 DEF IndexRemove, LockHeader, Unlock, LockBackoff, ValidateWriteSet, AbortValidated,
              WriteGlobalChanges, WriteSentinelChanges, AbortUnlocked, RollbackInsert,
              SnapDropped
<1> QED  BY <1>2, <1>3, <1>4, <1>5 DEF Engine

\* Every step of the engine is a step of the abstract specification, or a stutter.
LEMMA StepSimulates ==
    ASSUME HistInv, DraftsInv, [Next]_vars
    PROVE  [SI!AbsNext]_(SI!absVars)
<1>0. Inv
  BY DEF HistInv
<1>1. ASSUME NEW t \in Txn, csn' = csn, hist' = hist, iso' = iso, SnapDropped(t)
      PROVE  [SI!AbsNext]_(SI!absVars)
  <2>1. CASE snap' = snap
    BY <1>1, <2>1 DEF SI!absVars
  <2>2. CASE snap' = [snap EXCEPT ![t] = 0]
    <3>1. SI!DropSnapshot(t)
      BY <1>1, <2>2 DEF SI!DropSnapshot
    <3> QED  BY <3>1 DEF SI!AbsNext
  <2> QED  BY <1>1, <2>1, <2>2 DEF SnapDropped
<1>2. CASE UNCHANGED vars
  BY <1>2 DEF vars, txnVars, SI!absVars
<1>3. ASSUME NEW t \in Txn, Client(t)
      PROVE  [SI!AbsNext]_(SI!absVars)
  <2>1. CASE SetSnapshot(t)
    <3>1. SI!TakeSnapshot(t)
      BY <2>1 DEF SetSnapshot, SI!TakeSnapshot, txnVars
    <3> QED  BY <3>1 DEF SI!AbsNext
  <2> QED  BY <1>0, <1>1, <1>3, <2>1, ClientAbs
<1>4. ASSUME NEW t \in Txn, Engine(t)
      PROVE  [SI!AbsNext]_(SI!absVars)
  BY <1>0, <1>1, <1>4, EngineAbs, GetNextCSNCommits
<1> QED  BY <1>2, <1>3, <1>4 DEF Next

\* The detailed protocol implements snapshot isolation, for any number of transactions
\* and keys: every commit is one atomic step at its CSN, first committer wins under
\* REPEATABLE READ, and no key gets two live rows (ValidateOcc, RecordCommit and
\* WriteChanges).
THEOREM RefinesSnapshotIsolation == Spec => ImplementsSI
<1>1. Init => SI!AbsInit
  <2> SUFFICES ASSUME Init PROVE SI!AbsInit
    OBVIOUS
  <2>1. csn = 2 /\ csn \in Nat /\ snap = [t \in Txn |-> 0]
    BY DEF Init
  <2>2. ASSUME NEW k \in Key
        PROVE  hist[k] = <<>> \/ hist[k][1].csn < csn
    <3>1. hist[k] = IF k \in InitKey THEN <<[csn |-> 1, del |-> FALSE]>> ELSE <<>>
      BY DEF Init
    <3> QED  BY <2>1, <3>1
  <2> QED  BY <2>1, <2>2 DEF SI!AbsInit
<1> QED  BY <1>1, StepSimulates, DraftsInvariant, PTL DEF Spec, ImplementsSI, SI!AbsSpec

-----------------------------------------------------------------------------
(* What a snapshot shows of a history. *)

\* CommittedCsn of a history h.
CommittedIn(s, h) ==
    LET n == Cardinality({i \in 1..Len(h) : h[i].csn < s})
    IN  IF n = 0 \/ h[Len(h) - n + 1].del THEN 0 ELSE h[Len(h) - n + 1].csn

\* The versions before the snapshot.
Older(s, h) == {i \in 1..Len(h) : s > h[i].csn}

\* The row a snapshot shows is the first of them.
ShownCsn(s, h) ==
    IF Older(s, h) = {} \/ h[First(Older(s, h))].del THEN 0 ELSE h[First(Older(s, h))].csn

\* The versions have CSNs.
LEMMA VersionFields ==
    ASSUME NEW h \in Seq(Version), NEW i \in 1..Len(h)
    PROVE  h[i].csn \in Nat /\ h[i].del \in BOOLEAN
<1>1. h[i] \in Version
  BY ElementOfSeq
<1> QED  BY <1>1 DEF Version

\* The first of the versions before the snapshot.
LEMMA FirstOlder ==
    ASSUME NEW s \in Nat, NEW h \in Seq(Version), Older(s, h) # {}
    PROVE  /\ First(Older(s, h)) \in 1..Len(h) /\ First(Older(s, h)) \in Nat
           /\ h[First(Older(s, h))].csn < s
           /\ \A j \in Older(s, h) : First(Older(s, h)) <= j
<1>1. Older(s, h) \in SUBSET Nat
  BY DEF Older
<1>2. First(Older(s, h)) \in Older(s, h) /\ \A j \in Older(s, h) : First(Older(s, h)) <= j
  BY <1>1, FirstIsLeast
<1>3. First(Older(s, h)) \in 1..Len(h) /\ s > h[First(Older(s, h))].csn
  BY <1>2 DEF Older
<1>4. h[First(Older(s, h))].csn \in Nat
  BY <1>3, VersionFields
<1> QED  BY <1>2, <1>3, <1>4

\* It is the row the walk along the chain hands out.
LEMMA VisibleIsShown ==
    ASSUME NEW s \in Nat, NEW h \in Seq(Version)
    PROVE  VisibleCsn(s, h) = ShownCsn(s, h)
<1> DEFINE f == First(Older(s, h))
           w == SubSeq(h, f, Len(h))
<1>0. GetRowFromChain(s, h) = IF Older(s, h) = {} THEN <<>> ELSE w
  BY DEF GetRowFromChain, Older
<1>1. CASE Older(s, h) = {}
  BY <1>0, <1>1 DEF VisibleCsn, HandedCsn, ShownCsn
<1>2. CASE Older(s, h) # {}
  <2>1. f \in 1..Len(h) /\ f \in Nat /\ Len(h) \in Nat
    BY <1>2, FirstOlder, LenProperties
  <2> HIDE DEF f
  <2>2. \A i \in f..Len(h) : h[i] \in Version
    BY <2>1, ElementOfSeq
  <2>3. /\ w \in Seq(Version)
        /\ Len(w) = IF f <= Len(h) THEN Len(h) - f + 1 ELSE 0
        /\ \A i \in 1..Len(h) - f + 1 : w[i] = h[f + i - 1]
    BY <2>1, <2>2, SubSeqProperties
  <2> HIDE DEF w
  <2>4. 1 \in 1..Len(h) - f + 1 /\ f + 1 - 1 = f /\ Len(w) # 0
    BY <2>1, <2>3
  <2>5. w[1] = h[f]
    BY <2>3, <2>4
  <2>6. w # <<>>
    BY <2>4
  <2>7. GetRowFromChain(s, h) = w
    BY <1>0, <1>2
  <2>8. ShownCsn(s, h) = IF h[f].del THEN 0 ELSE h[f].csn
    BY <1>2 DEF ShownCsn, f
  <2> QED  BY <2>5, <2>6, <2>7, <2>8 DEF VisibleCsn, HandedCsn, Deleted, RowCsn
<1> QED  BY <1>1, <1>2

\* And, in a history in the order of the CSNs, the committed row of the snapshot.
LEMMA CommittedIsShown ==
    ASSUME NEW s \in Nat, NEW h \in Seq(Version), Ordered(h)
    PROVE  CommittedIn(s, h) = ShownCsn(s, h)
<1> DEFINE f == First(Older(s, h))
           n == Cardinality(Older(s, h))
<1>0. Len(h) \in Nat
  BY LenProperties
<1>1. {i \in 1..Len(h) : h[i].csn < s} = Older(s, h)
  <2>1. \A i \in 1..Len(h) : h[i].csn < s <=> s > h[i].csn
    BY VersionFields
  <2> QED  BY <2>1 DEF Older
<1>2. CommittedIn(s, h) = IF n = 0 \/ h[Len(h) - n + 1].del THEN 0 ELSE h[Len(h) - n + 1].csn
  BY <1>1 DEF CommittedIn
<1>3. CASE Older(s, h) = {}
  <2>1. n = 0
    BY <1>3, FS_EmptySet
  <2> QED  BY <1>2, <1>3, <2>1 DEF ShownCsn
<1>4. CASE Older(s, h) # {}
  <2>1. /\ f \in 1..Len(h) /\ f \in Nat /\ h[f].csn < s
        /\ \A j \in Older(s, h) : f <= j
    BY <1>4, FirstOlder
  <2> HIDE DEF f
  <2>2. ASSUME NEW j \in f..Len(h)
        PROVE  j \in Older(s, h)
    <3>1. j \in 1..Len(h) /\ f <= j
      BY <1>0, <2>1
    <3>2. h[f].csn >= h[j].csn /\ h[f].csn \in Nat /\ h[j].csn \in Nat
      BY <2>1, <3>1, VersionFields DEF Ordered
    <3>3. s > h[j].csn
      BY <2>1, <3>2
    <3> QED  BY <3>1, <3>3 DEF Older
  <2>3. Older(s, h) \subseteq 1..Len(h)
    BY DEF Older
  <2>4. Older(s, h) = f..Len(h)
    <3>1. ASSUME NEW j \in Older(s, h)
          PROVE  j \in f..Len(h)
      <4>1. j \in 1..Len(h) /\ f <= j
        BY <2>1, <2>3
      <4> QED  BY <1>0, <2>1, <4>1
    <3> QED  BY <2>2, <3>1
  <2>5. n = Len(h) - f + 1
    BY <1>0, <2>1, <2>4, FS_Interval
  <2> HIDE DEF n
  <2>6. n # 0 /\ Len(h) - n + 1 = f
    BY <1>0, <2>1, <2>5
  <2>7. ShownCsn(s, h) = IF h[f].del THEN 0 ELSE h[f].csn
    BY <1>4 DEF ShownCsn, f
  <2> QED  BY <1>2, <2>6, <2>7
<1> QED  BY <1>3, <1>4

\* Versions that are not before the snapshot change nothing it shows.
LEMMA NewerNotShown ==
    ASSUME NEW s \in Nat, NEW v \in Seq(Version), NEW h \in Seq(Version), NEW c \in Nat,
           v # <<>>, \A i \in 1..Len(v) : v[i].csn = c, s <= c
    PROVE  ShownCsn(s, v \o h) = ShownCsn(s, h)
<1> DEFINE w == v \o h
           m == Len(v)
           f == First(Older(s, h))
<1>1. m \in Nat /\ Len(h) \in Nat
  BY LenProperties
<1>2. /\ w \in Seq(Version) /\ Len(w) = m + Len(h)
      /\ \A i \in 1..m : w[i] = v[i]
      /\ \A i \in 1..Len(h) : w[m + i] = h[i]
      /\ \A i \in 1..Len(w) : i > m => w[i] = h[i - m]
  BY Prepended
<1>3. \A i \in 1..m : w[i].csn = c
  BY <1>2
<1> HIDE DEF w, m
<1>4. ASSUME NEW i \in Older(s, w)
      PROVE  i > m /\ i - m \in Older(s, h) /\ i \in Nat
  <2>1. i \in 1..Len(w) /\ s > w[i].csn /\ i \in Nat
    BY DEF Older
  <2>2. i > m
    BY <1>1, <1>3, <2>1
  <2>3. i - m \in 1..Len(h) /\ w[i] = h[i - m]
    BY <1>1, <1>2, <2>1, <2>2
  <2> QED  BY <2>1, <2>2, <2>3 DEF Older
<1>5. ASSUME NEW i \in Older(s, h)
      PROVE  m + i \in Older(s, w)
  <2>1. i \in 1..Len(h) /\ s > h[i].csn
    BY DEF Older
  <2>2. w[m + i] = h[i]
    BY <1>2, <2>1
  <2>3. m + i \in 1..Len(w)
    BY <1>1, <1>2, <2>1
  <2> QED  BY <2>1, <2>2, <2>3 DEF Older
<1>6. CASE Older(s, h) = {}
  <2>1. Older(s, w) = {}
    BY <1>4, <1>6
  <2> QED  BY <1>6, <2>1 DEF ShownCsn, w
<1>7. CASE Older(s, h) # {}
  <2> DEFINE g == First(Older(s, w))
  <2>1. Older(s, w) # {}
    BY <1>5, <1>7
  <2>2. f \in 1..Len(h) /\ f \in Nat /\ \A j \in Older(s, h) : f <= j
    BY <1>7, FirstOlder
  <2>3. g \in 1..Len(w) /\ g \in Nat /\ \A j \in Older(s, w) : g <= j
    BY <1>2, <2>1, FirstOlder
  <2>4. f \in Older(s, h) /\ g \in Older(s, w)
    <3>1. Older(s, h) \in SUBSET Nat /\ Older(s, w) \in SUBSET Nat
      BY DEF Older
    <3> QED  BY <1>7, <2>1, <3>1, FirstIsLeast
  <2>5. m + f \in Older(s, w) /\ g > m /\ g - m \in Older(s, h)
    BY <1>4, <1>5, <2>4
  <2>6. h[f] = w[m + f]
    BY <1>2, <2>2
  <2>7. /\ ShownCsn(s, h) = IF h[f].del THEN 0 ELSE h[f].csn
        /\ ShownCsn(s, w) = IF w[g].del THEN 0 ELSE w[g].csn
    BY <1>7, <2>1 DEF ShownCsn
  <2> HIDE DEF f, g
  <2>8. g = m + f
    <3>1. g <= m + f /\ f <= g - m
      BY <2>2, <2>3, <2>5
    <3> QED  BY <1>1, <2>2, <2>3, <3>1
  <2> QED  BY <2>6, <2>7, <2>8 DEF w
<1> QED  BY <1>6, <1>7

-----------------------------------------------------------------------------
(* What a statement is handed is what its snapshot shows. *)

\* The chain may lack the rows of one commit, if that is not before the snapshot.
LEMMA ChainShowsSnapshot ==
    ASSUME HistInv, NEW s \in Nat, NEW k \in Key,
           \A u \in Txn : Pending(u, k) => s <= tcsn[u]
    PROVE  VisibleCsn(s, chain[k]) = CommittedCsn(s, k)
<1>0. chain[k] \in Seq(Version) /\ hist[k] \in Seq(Version) /\ RowInv(k)
  BY DEF HistInv, RowsInv, Inv, TypeOK, SentinelTypeOK
<1>1. CommittedCsn(s, k) = ShownCsn(s, hist[k])
  <2>1. CommittedCsn(s, k) = CommittedIn(s, hist[k])
    BY DEF CommittedCsn, CommittedIn
  <2> QED  BY <1>0, <2>1, CommittedIsShown DEF RowInv
<1>2. VisibleCsn(s, chain[k]) = ShownCsn(s, chain[k])
  BY <1>0, VisibleIsShown
<1>3. CASE \A u \in Txn : ~Pending(u, k)
  <2>1. chain[k] = hist[k]
    BY <1>0, <1>3 DEF RowInv
  <2> QED  BY <1>1, <1>2, <2>1
<1>4. ASSUME NEW u \in Txn, Pending(u, k)
      PROVE  ShownCsn(s, hist[k]) = ShownCsn(s, chain[k])
  <2> DEFINE v == NewVersions(u, k, tcsn[u])
             h == chain[k]
             c == tcsn[u]
  <2>1. hist[k] = v \o h /\ s <= c /\ c \in Nat
    BY <1>0, <1>4 DEF RowInv, HistInv, Inv, TypeOK, TxnTypeOK
  <2>2. v \in Seq(Version) /\ v # <<>> /\ \A i \in 1..Len(v) : v[i].csn = c
    BY <2>1, NewVersionsShape
  <2>3. h \in Seq(Version)
    BY <1>0
  <2> HIDE DEF v, h, c
  <2>4. ShownCsn(s, v \o h) = ShownCsn(s, h)
    BY <2>1, <2>2, <2>3, NewerNotShown
  <2> QED  BY <2>1, <2>4 DEF h
<1> QED  BY <1>1, <1>2, <1>3, <1>4

\* Nobody publishes to a sentinel that is not locked.
LEMMA UnlockedNotPending ==
    ASSUME HistInv, NEW k \in Key, lock[k] = NoTxn
    PROVE  \A u \in Txn : ~Pending(u, k)
BY ReadyLocked, ConstantsAssumption DEF HistInv, Ready

\* GetVisibleRowVersion hands out the row of the snapshot.
LEMMA ReadIsSnapshot ==
    ASSUME HistInv, NEW t \in Txn, GetVisibleRowVersion(t), NEW k \in Key, k = cur[t].key
    PROVE  VisibleCsn(snap[t], chain[k]) = CommittedCsn(snap[t], k)
<1>0. /\ pc[t] = "read" /\ snap[t] \in Nat /\ ReaderInv(t) /\ RowInv(k)
      /\ chain[k] \in Seq(Version) /\ \A u \in Txn : CommitInv(u) /\ tcsn[u] \in Nat
  BY DEF GetVisibleRowVersion, HistInv, ReadersInv, RowsInv, CommitsInv, Inv, TypeOK,
         SentinelTypeOK, TxnTypeOK
<1>1. CASE lock[k] = NoTxn
  BY <1>0, <1>1, UnlockedNotPending, ChainShowsSnapshot
<1>2. CASE SeenChange(t, k)
  BY <1>0, <1>2, ChainShowsSnapshot DEF ReaderInv
<1>3. CASE chain[k] # <<>> /\ snap[t] < RowCsn(chain[k])
  <2>1. RowCsn(chain[k]) \in Nat
    BY <1>0, <1>3, RowCsnType
  <2>2. \A u \in Txn : Pending(u, k) => snap[t] <= tcsn[u]
    BY <1>0, <1>3, <2>1 DEF CommitInv
  <2> QED  BY <1>0, <2>2, ChainShowsSnapshot
<1>4. \/ cur[t].spun /\ ~(dirty[k] /\ lock[k] # NoTxn)
      \/ ~cur[t].spun /\ lock[k] = NoTxn
      \/ /\ ~cur[t].spun
         /\ chain[k] # <<>>
         /\ chain[k] # cur[t].top \/ snap[t] < RowCsn(chain[k])
  BY DEF GetVisibleRowVersion
<1> QED  BY <1>0, <1>1, <1>2, <1>3, <1>4 DEF SeenChange

\* A row whose newest version is before the snapshot is shown as it is.
LEMMA OldRowShown ==
    ASSUME NEW s \in Nat, NEW row \in Seq(Version), row # <<>>, RowCsn(row) < s
    PROVE  VisibleCsn(s, row) = HandedCsn(row)
<1>1. 1 \in 1..Len(row) /\ Len(row) \in Nat
  BY EmptySeq, LenProperties
<1>2. row[1].csn \in Nat /\ row[1].csn < s
  BY <1>1, VersionFields DEF RowCsn
<1>3. 1 \in Older(s, row)
  BY <1>1, <1>2 DEF Older
<1>4. First(Older(s, row)) = 1
  <2>1. /\ First(Older(s, row)) \in 1..Len(row) /\ First(Older(s, row)) \in Nat
        /\ First(Older(s, row)) <= 1
    BY <1>3, FirstOlder
  <2> QED  BY <1>1, <2>1
<1> QED  BY <1>3, <1>4, VisibleIsShown DEF ShownCsn, HandedCsn, Deleted, RowCsn

\* So does GetVisibleRow, under REPEATABLE READ, unless it fails the statement.
LEMMA UpdateIsSnapshot ==
    ASSUME HistInv, NEW t \in Txn, GetVisibleRow(t), NEW k \in Key, k = cur[t].key,
           iso[t] = "RR", ~NewerThanSnapshot(t, chain[k])
    PROVE  HandedCsn(chain[k]) = CommittedCsn(snap[t], k)
<1>0. /\ pc[t] = "update" /\ snap[t] \in Nat /\ ReaderInv(t) /\ chain[k] # <<>>
      /\ chain[k] \in Seq(Version) /\ StopsSpinning(t, k)
  BY DEF GetVisibleRow, HistInv, ReadersInv, StatementsInv, StatementInv, Inv, TypeOK,
         SentinelTypeOK, TxnTypeOK
<1>1. RowCsn(chain[k]) \in Nat
  BY <1>0, RowCsnType
<1>2. RowCsn(chain[k]) < snap[t]
  BY <1>0, <1>1 DEF NewerThanSnapshot
<1>3. VisibleCsn(snap[t], chain[k]) = HandedCsn(chain[k])
  BY <1>0, <1>2, OldRowShown
<1>4. CASE lock[k] = NoTxn
  BY <1>0, <1>3, <1>4, UnlockedNotPending, ChainShowsSnapshot
<1>5. CASE SeenChange(t, k)
  BY <1>0, <1>3, <1>5, ChainShowsSnapshot DEF ReaderInv
<1> QED  BY <1>0, <1>1, <1>2, <1>4, <1>5 DEF StopsSpinning, SeenChange

\* The outcomes of the last statements are those of their snapshots.
LastInv(t) ==
    /\ last[t].snap <= csn
    /\ last[t].kind = "read" => /\ last[t].key \in Key
                                /\ last[t].csn = CommittedCsn(last[t].snap, last[t].key)
    /\ last[t].kind = "update" /\ iso[t] = "RR" =>
           /\ last[t].key \in Key
           /\ last[t].csn = CommittedCsn(last[t].snap, last[t].key)

LastsInv == \A t \in Txn : LastInv(t)

\* No statement has ended initially.
LEMMA InitLasts == Init => LastsInv
BY DEF Init, LastsInv, LastInv, NoLast

\* A commit draws a CSN that is not before any snapshot, so what a snapshot shows
\* stays what it shows.
LEMMA CommitKeepsSnapshot ==
    ASSUME HistInv, HistInv', NEW t \in Txn, GetNextCSN(t), NEW s \in Nat, s <= csn,
           NEW k \in Key
    PROVE  CommittedCsn(s, k)' = CommittedCsn(s, k)
<1>0. /\ hist[k] \in Seq(Version) /\ hist'[k] \in Seq(Version)
      /\ Ordered(hist[k]) /\ Ordered(hist'[k]) /\ csn \in Nat
  BY DEF HistInv, RowsInv, RowInv, Inv, TypeOK, SentinelTypeOK, Ordered
<1>1. /\ CommittedCsn(s, k) = ShownCsn(s, hist[k])
      /\ CommittedCsn(s, k)' = ShownCsn(s, hist'[k])
  <2>1. /\ CommittedCsn(s, k) = CommittedIn(s, hist[k])
        /\ CommittedCsn(s, k)' = CommittedIn(s, hist'[k])
    BY DEF CommittedCsn, CommittedIn
  <2> QED  BY <1>0, <2>1, CommittedIsShown
<1>2. CASE k \in WriteSet(t)
  <2> DEFINE v == NewVersions(t, k, csn)
             h == hist[k]
             c == csn
  <2>1. hist'[k] = v \o h
    BY <1>2 DEF GetNextCSN
  <2>2. v \in Seq(Version) /\ v # <<>> /\ \A i \in 1..Len(v) : v[i].csn = c
    BY <1>0, NewVersionsShape
  <2>3. h \in Seq(Version) /\ c \in Nat /\ s <= c
    BY <1>0
  <2> HIDE DEF v, h, c
  <2>4. ShownCsn(s, v \o h) = ShownCsn(s, h)
    BY <2>2, <2>3, NewerNotShown
  <2> QED  BY <1>1, <2>1, <2>4 DEF h
<1>3. CASE k \notin WriteSet(t)
  <2>1. hist'[k] = hist[k]
    BY <1>3 DEF GetNextCSN
  <2> QED  BY <1>1, <2>1
<1> QED  BY <1>2, <1>3

\* The step of a commit keeps the outcomes.
LEMMA GetNextCSNLasts ==
    ASSUME HistInv, HistInv', LastsInv, NEW t \in Txn, GetNextCSN(t)
    PROVE  LastsInv'
<1> SUFFICES ASSUME NEW u \in Txn PROVE LastInv(u)'
  BY DEF LastsInv
<1>1. last' = last /\ csn' = csn + 1 /\ iso' = iso
  BY DEF GetNextCSN
<1>2. last[u].snap \in Nat /\ csn \in Nat /\ LastInv(u)
  BY DEF HistInv, Inv, TypeOK, TxnTypeOK, SentinelTypeOK, Result, LastsInv
<1> PICK r : r = last[u]
  OBVIOUS
<1>3. r.snap \in Nat /\ r.snap <= csn
  BY <1>2 DEF LastInv
<1>4. \A k \in Key : CommittedCsn(r.snap, k)' = CommittedCsn(r.snap, k)
  BY <1>3, CommitKeepsSnapshot
<1>5. last'[u] = r /\ r.snap <= csn'
  BY <1>1, <1>2, <1>3
<1>6. r.key \in Key => CommittedCsn(last[u].snap, last[u].key)' = CommittedCsn(r.snap, r.key)
  <2> SUFFICES ASSUME r.key \in Key
               PROVE  CommittedCsn(last[u].snap, last[u].key)' = CommittedCsn(r.snap, r.key)
    OBVIOUS
  <2>1. CommittedCsn(last[u].snap, last[u].key)' = CommittedCsn(r.snap, r.key)'
    BY <1>5 DEF CommittedCsn
  <2> QED  BY <1>4, <2>1
<1> QED  BY <1>1, <1>2, <1>5, <1>6 DEF LastInv

\* A step that commits nothing keeps the outcomes when the one it reports is right.
LEMMA OutcomeLasts ==
    ASSUME Inv, LastsInv, NEW t \in Txn, OwnStep(t), csn' = csn, hist' = hist,
           last'[t] # last[t] =>
             /\ last'[t].snap <= csn
             /\ last'[t].kind = "read" \/ (last'[t].kind = "update" /\ iso[t] = "RR") =>
                  /\ last'[t].key \in Key
                  /\ last'[t].csn = CommittedCsn(last'[t].snap, last'[t].key)
    PROVE  LastsInv'
<1> SUFFICES ASSUME NEW u \in Txn PROVE LastInv(u)'
  BY DEF LastsInv
<1>1. iso' = iso /\ (u # t => last'[u] = last[u])
  BY DEF OwnStep
<1>2. LastInv(u)
  BY DEF LastsInv
<1>3. CommittedCsn(last[u].snap, last[u].key)' = CommittedCsn(last'[u].snap, last'[u].key)
  BY DEF CommittedCsn
<1>4. CASE last'[u] = last[u]
  BY <1>1, <1>2, <1>3, <1>4 DEF LastInv
<1>5. CASE last'[u] # last[u]
  <2>1. u = t
    BY <1>1, <1>5
  <2> QED  BY <1>1, <1>3, <1>5, <2>1 DEF LastInv
<1> QED  BY <1>4, <1>5

\* What Outcome records.
LEMMA OutcomeIs ==
    ASSUME Inv, NEW t \in Txn, NEW kind, NEW k, NEW s, NEW c, Outcome(t, kind, k, s, c)
    PROVE  /\ last'[t].kind = kind /\ last'[t].key = k /\ last'[t].snap = s
           /\ last'[t].csn = c
<1>1. last \in [Txn -> Result]
  BY DEF Inv, TypeOK, TxnTypeOK
<1>2. last'[t] = [kind |-> kind, key |-> k, snap |-> s, csn |-> c]
  BY <1>1 DEF Outcome
<1> QED  BY <1>2

\* Every step keeps the outcomes.
LEMMA NextLasts ==
    ASSUME HistInv, HistInv', LastsInv, [Next]_vars
    PROVE  LastsInv'
<1>0. Inv
  BY DEF HistInv
<1>1. CASE UNCHANGED vars
  BY <1>1 DEF LastsInv, LastInv, CommittedCsn, vars, txnVars
<1>2. ASSUME NEW t \in Txn, Client(t)
      PROVE  LastsInv'
  <2>0. OwnStep(t) /\ snap[t] <= csn
    BY <1>0, <1>2, ClientStep DEF HistInv, StatementsInv, StatementInv
  <2>1. csn' = csn /\ hist' = hist
    BY <1>0, <1>2, ClientAbs DEF SetSnapshot
  <2>2. ASSUME NEW k \in Key, NEW mode \in Modes, LookupNotVisible(t, k, mode)
        PROVE  LastsInv'
    <3> DEFINE kind == IF mode = "RD" THEN "dirty" ELSE "dirtyUpdate"
    <3>1. last'[t].kind = kind /\ last'[t].snap = snap[t]
      BY <1>0, <2>2, OutcomeIs DEF LookupNotVisible
    <3> QED  BY <1>0, <2>0, <2>1, <3>1, OutcomeLasts
  <2>3. last' = last \/ \E k \in Key, mode \in Modes : LookupNotVisible(t, k, mode)
    BY <1>2 DEF Client, StartTransaction, SetSnapshot, LookupLocal, LookupGlobal, IndexInsert,
                PreAbortCheck, Rollback
  <2> QED  BY <1>0, <2>0, <2>1, <2>2, <2>3, OutcomeLasts
<1>3. ASSUME NEW t \in Txn, Engine(t)
      PROVE  LastsInv'
  <2>0. OwnStep(t) /\ snap[t] <= csn
    BY <1>0, <1>3, EngineStep DEF HistInv, StatementsInv, StatementInv
  <2>1. ~GetNextCSN(t) => csn' = csn /\ hist' = hist
    BY <1>0, <1>3, EngineAbs
  <2>2. CASE GetNextCSN(t)
    BY <2>2, GetNextCSNLasts
  <2>3. CASE ~GetNextCSN(t) /\ GetVisibleRowVersion(t)
    <3> PICK k \in Key : k = cur[t].key
      BY <1>0, <2>3 DEF GetVisibleRowVersion, Inv, CurInv, CurOK
    <3> PICK c : c = VisibleCsn(snap[t], chain[k])
      OBVIOUS
    <3>1. Outcome(t, "read", k, snap[t], c)
      BY <2>3 DEF GetVisibleRowVersion
    <3>2. c = CommittedCsn(snap[t], k)
      BY <2>3, ReadIsSnapshot
    <3>3. last'[t].kind = "read" /\ last'[t].key = k /\ last'[t].snap = snap[t]
          /\ last'[t].csn = c
      BY <1>0, <3>1, OutcomeIs
    <3>4. last'[t].csn = CommittedCsn(last'[t].snap, last'[t].key)
      BY <3>2, <3>3
    <3> QED  BY <1>0, <2>0, <2>1, <2>3, <3>3, <3>4, OutcomeLasts
  <2>4. CASE ~GetNextCSN(t) /\ GetVisibleRow(t)
    <3> PICK k \in Key : k = cur[t].key
      BY <1>0, <2>4 DEF GetVisibleRow, Inv, CurInv, CurOK
    <3>1. CASE NewerThanSnapshot(t, chain[k])
      <4>1. last' = last
        BY <2>4, <3>1 DEF GetVisibleRow
      <4> QED  BY <1>0, <2>0, <2>1, <2>4, <4>1, OutcomeLasts
    <3>2. CASE ~NewerThanSnapshot(t, chain[k])
      <4> PICK c : c = HandedCsn(chain[k])
        OBVIOUS
      <4>1. Outcome(t, "update", k, snap[t], c)
        BY <2>4, <3>2 DEF GetVisibleRow
      <4>2. iso[t] = "RR" => c = CommittedCsn(snap[t], k)
        BY <2>4, <3>2, UpdateIsSnapshot
      <4>3. last'[t].kind = "update" /\ last'[t].key = k /\ last'[t].snap = snap[t]
            /\ last'[t].csn = c
        BY <1>0, <4>1, OutcomeIs
      <4>4. iso[t] = "RR" => last'[t].csn = CommittedCsn(last'[t].snap, last'[t].key)
        BY <4>2, <4>3
      <4> QED  BY <1>0, <2>0, <2>1, <2>4, <4>3, <4>4, OutcomeLasts
    <3> QED  BY <3>1, <3>2
  <2>5. CASE ~GetNextCSN(t) /\ (GetVisiblePrimaryHeader(t) \/ GetVisibleRowForUpdateEntry(t))
    <3>1. last' = last \/ Outcome(t, "phantom", cur[t].key, snap[t], 0)
      BY <2>5 DEF GetVisiblePrimaryHeader, GetVisibleRowForUpdateEntry
    <3>2. CASE Outcome(t, "phantom", cur[t].key, snap[t], 0)
      <4>1. last'[t].kind = "phantom" /\ last'[t].snap = snap[t]
        BY <1>0, <3>2, OutcomeIs
      <4> QED  BY <1>0, <2>0, <2>1, <2>5, <4>1, OutcomeLasts
    <3> QED  BY <1>0, <2>0, <2>1, <2>5, <3>1, <3>2, OutcomeLasts
  <2>6. CASE \/ AddInsertToLocalAccess(t) \/ EndTransaction(t) \/ EndRollback(t)
             \/ IndexRemove(t) \/ LockHeader(t) \/ Unlock(t) \/ LockBackoff(t)
             \/ ValidateWriteSet(t) \/ AbortValidated(t) \/ WriteGlobalChanges(t)
             \/ WriteSentinelChanges(t) \/ AbortUnlocked(t) \/ RollbackInsert(t)
    <3>1. last' = last
      BY <2>6 DEF AddInsertToLocalAccess, EndTransaction, EndRollback, IndexRemove, LockHeader,
                  Unlock, LockBackoff, ValidateWriteSet, AbortValidated, WriteGlobalChanges,
                  WriteSentinelChanges, AbortUnlocked, RollbackInsert
    <3> QED  BY <1>0, <2>0, <2>1, <2>2, <3>1, OutcomeLasts
  <2> QED  BY <1>3, <2>2, <2>3, <2>4, <2>5, <2>6 DEF Engine
<1> QED  BY <1>1, <1>2, <1>3 DEF Next

\* So the outcomes are always right.
LEMMA LastsInvariant == Spec => [](HistInv /\ LastsInv)
BY InitHist, NextHist, InitLasts, NextLasts, PTL DEF Spec

-----------------------------------------------------------------------------
(* The theorems. *)

\* A row read through the version chain is the newest version committed before the
\* reader's snapshot, for any number of transactions and keys, whatever commits were
\* half way through publishing when GetVisibleRowVersion stopped spinning.
THEOREM ReadsAreSnapshots == Spec => []SnapshotReads
<1>1. LastsInv => SnapshotReads
  BY DEF LastsInv, LastInv, SnapshotReads
<1> QED  BY <1>1, LastsInvariant, PTL

\* The row a REPEATABLE READ transaction maps for update or delete is the one its
\* snapshot shows (GetVisibleRowForUpdate and the checks of GetVisibleRow).
THEOREM UpdatesAreSnapshots == Spec => []UpdatesSnapshotRow
<1>1. LastsInv => UpdatesSnapshotRow
  BY DEF LastsInv, LastInv, UpdatesSnapshotRow
<1> QED  BY <1>1, LastsInvariant, PTL
=============================================================================
