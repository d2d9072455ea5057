---------------------------- MODULE MotOccProofs ----------------------------
(***************************************************************************)
(* Proofs about MotOcc, for every number of transactions and keys.         *)
(*                                                                         *)
(* Inv is inductive.  The argument: a step of transaction t updates only   *)
(* t's own entries of the per-transaction variables (TxnStep, with values  *)
(* of the right type), so what Inv says of another transaction can only be *)
(* disturbed through the lock words (OthersKeep); the lock words change in *)
(* LockHeader and Unlock alone, which take a free lock and release an own  *)
(* one.  What is left is what Inv says of t itself, action by action.      *)
(***************************************************************************)
EXTENDS MotOcc, SequenceTheorems, WellFoundedInduction, TLAPS

\* The loop over an access set visits its least key first.
LEMMA FirstIsLeast ==
    ASSUME NEW S \in SUBSET Nat, S # {}
    PROVE  First(S) \in S /\ \A j \in S : First(S) <= j
<1> DEFINE R == OpToRel(<, Nat)
<1>1. R = {ss \in Nat \X Nat : ss[1] < ss[2]}
  BY DEF OpToRel
<1>2. IsWellFoundedOn(R, Nat)
  BY NatLessThanWellFounded
<1> HIDE DEF R
<1>3. PICK m \in S : \A j \in S : ~(<<j, m>> \in R)
  BY <1>2, WFMin
<1>4. ASSUME NEW j \in S, j < m
      PROVE  FALSE
  <2>1. <<j, m>> \in Nat \X Nat /\ <<j, m>>[1] = j /\ <<j, m>>[2] = m
    OBVIOUS
  <2>2. <<j, m>> \in R
    BY <1>1, <1>4, <2>1
  <2> QED  BY <1>3, <2>2
<1>5. \A j \in S : m <= j
  BY <1>4
<1> QED  BY <1>5 DEF First

\* A client is handed a CSN.
LEMMA HandedCsnType ==
    ASSUME NEW row \in Seq(Version)
    PROVE  HandedCsn(row) \in Nat
<1>1. CASE row = <<>>
  BY <1>1 DEF HandedCsn
<1>2. CASE row # <<>>
  <2>1. 1 \in 1..Len(row)
    BY <1>2, EmptySeq
  <2>2. row[1] \in Version
    BY <2>1, ElementOfSeq
  <2> QED  BY <2>2 DEF HandedCsn, RowCsn, Version
<1> QED  BY <1>1, <1>2

\* So it is when GetRowFromChain walks the chain.
LEMMA VisibleCsnType ==
    ASSUME NEW s \in Nat, NEW row \in Seq(Version)
    PROVE  VisibleCsn(s, row) \in Nat
<1> DEFINE older == {i \in 1..Len(row) : s > row[i].csn}
<1>1. older \in SUBSET Nat
  OBVIOUS
<1>2. older # {} => First(older) \in 1..Len(row)
  BY <1>1, FirstIsLeast
<1>3. CASE older = {}
  BY <1>3, EmptySeq, HandedCsnType DEF VisibleCsn, GetRowFromChain
<1>4. CASE older # {}
  <2>1. \A i \in First(older)..Len(row) : row[i] \in Version
    BY <1>2, <1>4, ElementOfSeq, LenProperties
  <2>2. SubSeq(row, First(older), Len(row)) \in Seq(Version)
    BY <1>2, <1>4, <2>1, SubSeqProperties, LenProperties
  <2> QED  BY <1>4, <2>2, HandedCsnType DEF VisibleCsn, GetRowFromChain
<1> QED  BY <1>3, <1>4

\* A commit publishes row versions.
LEMMA NewVersionsType ==
    ASSUME NEW t, NEW k, NEW c \in Nat
    PROVE  NewVersions(t, k, c) \in Seq(Version)
<1>1. (acc[t][k].type = "DEL") \in BOOLEAN
  OBVIOUS
<1>2. /\ [csn |-> c, del |-> acc[t][k].type = "DEL"] \in Version
      /\ [csn |-> c, del |-> FALSE] \in Version
      /\ [csn |-> c, del |-> TRUE] \in Version
  BY <1>1 DEF Version
<1>3. \A v, w \in Version : <<v>> \in Seq(Version) /\ <<v, w>> \in Seq(Version)
  OBVIOUS
<1> HIDE DEF Version
<1> QED  BY <1>2, <1>3 DEF NewVersions

\* The record updates of the actions stay in their types.
LEMMA RecordTypes ==
    /\ Idle \in Lookup
    /\ NoAccess \in Access
    /\ \A c \in Lookup, k \in Nat : [c EXCEPT !.key = k] \in Lookup
    /\ \A c \in Lookup, r \in Seq(Version) : [c EXCEPT !.top = r] \in Lookup
    /\ \A a \in Access, ty \in AccessType : [a EXCEPT !.type = ty] \in Access
    /\ \A a \in Access, ty \in AccessType, u \in BOOLEAN :
           [a EXCEPT !.type = ty, !.upg = u] \in Access
<1>1. <<>> \in Seq(Version)
  BY EmptySeq
<1> HIDE DEF Version
<1> QED  BY <1>1 DEF Idle, Lookup, NoAccess, Access, AccessType

-----------------------------------------------------------------------------
(* The inductive invariant. *)

\* The key and the mode a statement works on.
CurOK(t) ==
    /\ pc[t] \in {"read", "header", "entry", "update", "insert",
                  "filterRemove", "abortRemove"} => cur[t].key \in Key
    /\ pc[t] \in {"header", "entry", "update"} =>
           cur[t].mode \in {"RD_FOR_UPDATE", "WR", "DEL"}

\* What the loop a transaction is in has left to visit.
TodoOK(t) ==
    /\ pc[t] \in {"idle", "active", "read", "header", "entry", "update",
                  "insert", "filterRemove"} => todo[t] = {}
    /\ pc[t] \in {"lock", "write"} => todo[t] # {} /\ todo[t] \subseteq WriteSet(t)
    /\ pc[t] = "sentinel" => todo[t] # {} /\ todo[t] \subseteq InsertSet(t)
    /\ pc[t] \in {"unlockRetry", "validate", "validated"} => WriteSet(t) # {}

\* The locks it owns.
LockOK(t) == \A k \in Key : lock[k] = t <=> k \in LockSet(t)

CurInv == \A t \in Txn : CurOK(t)
TodoInv == \A t \in Txn : TodoOK(t)

Inv == TypeOK /\ CurInv /\ TodoInv /\ LockOwnership

\* Write and insert sets are sets of keys, the inserts among the writes.
LEMMA SetTypes ==
    ASSUME NEW t
    PROVE  /\ WriteSet(t) \in SUBSET Key
           /\ InsertSet(t) \in SUBSET WriteSet(t)
           /\ InsertSet(t) \in SUBSET Key
BY DEF WriteSet, InsertSet, WriteTypes

-----------------------------------------------------------------------------
(* A step of t changes only t's entries, and keeps their types. *)

\* f turns into g by at most an update at x with a value of S.
Upd(f, g, x, S) == g = f \/ \E v \in S : g = [f EXCEPT ![x] = v]

TxnStep(t) ==
    /\ Upd(pc, pc', t, PC)
    /\ iso' = iso
    /\ Upd(snap, snap', t, Nat)
    /\ Upd(acc, acc', t, [Key -> Access])
    /\ Upd(cur, cur', t, Lookup)
    /\ Upd(todo, todo', t, SUBSET Key)
    /\ Upd(tries, tries', t, Nat)
    /\ Upd(ops, ops', t, Nat)
    /\ Upd(tcsn, tcsn', t, Nat)
    /\ Upd(last, last', t, Result)

\* TxnStep keeps the types and the entries of the other transactions.
LEMMA TxnStepType ==
    ASSUME TxnTypeOK, NEW t \in Txn, TxnStep(t)
    PROVE  /\ TxnTypeOK'
           /\ \A u \in Txn : u # t => /\ pc'[u] = pc[u]
                                      /\ acc'[u] = acc[u]
                                      /\ todo'[u] = todo[u]
                                      /\ cur'[u] = cur[u]
<1>1. pc' \in [Txn -> PC] /\ \A u \in Txn : u # t => pc'[u] = pc[u]
  BY DEF TxnTypeOK, TxnStep, Upd
<1>2. acc' \in [Txn -> [Key -> Access]] /\ \A u \in Txn : u # t => acc'[u] = acc[u]
  <2> DEFINE A == [Key -> Access]
  <2>1. acc \in [Txn -> A] /\ Upd(acc, acc', t, A)
    BY DEF TxnTypeOK, TxnStep
  <2> HIDE DEF A
  <2>2. acc' \in [Txn -> A] /\ \A u \in Txn : u # t => acc'[u] = acc[u]
    BY <2>1 DEF Upd
  <2> QED  BY <2>2 DEF A
<1>3. todo' \in [Txn -> SUBSET Key] /\ \A u \in Txn : u # t => todo'[u] = todo[u]
  BY DEF TxnTypeOK, TxnStep, Upd
<1>4. cur' \in [Txn -> Lookup] /\ \A u \in Txn : u # t => cur'[u] = cur[u]
  BY DEF TxnTypeOK, TxnStep, Upd
<1>5. snap' \in [Txn -> Nat]
  BY DEF TxnTypeOK, TxnStep, Upd
<1>6. tries' \in [Txn -> Nat]
  BY DEF TxnTypeOK, TxnStep, Upd
<1>7. ops' \in [Txn -> Nat]
  BY DEF TxnTypeOK, TxnStep, Upd
<1>8. tcsn' \in [Txn -> Nat]
  BY DEF TxnTypeOK, TxnStep, Upd
<1>9. last' \in [Txn -> Result]
  BY DEF TxnTypeOK, TxnStep, Upd
<1> QED  BY <1>1, <1>2, <1>3, <1>4, <1>5, <1>6, <1>7, <1>8, <1>9
         DEF TxnTypeOK, TxnStep

\* StartTransaction updates only what belongs to t.
LEMMA StartTransactionStep ==
    ASSUME TxnTypeOK, NEW t \in Txn, StartTransaction(t)
    PROVE  TxnStep(t)
BY RecordTypes, SetTypes DEF StartTransaction, TxnStep, Upd, TxnTypeOK, txnVars, Goto, PC

\* Rollback updates only what belongs to t.
LEMMA RollbackStep ==
    ASSUME TxnTypeOK, NEW t \in Txn, Rollback(t)
    PROVE  TxnStep(t)
BY RecordTypes, SetTypes DEF Rollback, TxnStep, Upd, TxnTypeOK, txnVars, FailStatement, Goto, PC

\* IndexRemove updates only what belongs to t.
LEMMA IndexRemoveStep ==
    ASSUME TxnTypeOK, NEW t \in Txn, IndexRemove(t)
    PROVE  TxnStep(t)
BY RecordTypes, SetTypes DEF IndexRemove, TxnStep, Upd, TxnTypeOK, txnVars, Goto, PC

\* Unlock updates only what belongs to t.
LEMMA UnlockStep ==
    ASSUME TxnTypeOK, NEW t \in Txn, Unlock(t)
    PROVE  TxnStep(t)
BY RecordTypes, SetTypes DEF Unlock, TxnStep, Upd, TxnTypeOK, txnVars

\* ValidateWriteSet updates only what belongs to t.
LEMMA ValidateWriteSetStep ==
    ASSUME TxnTypeOK, NEW t \in Txn, ValidateWriteSet(t)
    PROVE  TxnStep(t)
BY RecordTypes, SetTypes DEF ValidateWriteSet, TxnStep, Upd, TxnTypeOK, txnVars, Goto, PC

\* AbortValidated updates only what belongs to t.
LEMMA AbortValidatedStep ==
    ASSUME TxnTypeOK, NEW t \in Txn, AbortValidated(t)
    PROVE  TxnStep(t)
BY RecordTypes, SetTypes DEF AbortValidated, TxnStep, Upd, TxnTypeOK, txnVars, Goto, PC

\* WriteGlobalChanges updates only what belongs to t.
LEMMA WriteGlobalChangesStep ==
    ASSUME TxnTypeOK, NEW t \in Txn, WriteGlobalChanges(t)
    PROVE  TxnStep(t)
BY RecordTypes, SetTypes DEF WriteGlobalChanges, TxnStep, Upd, TxnTypeOK, txnVars, Goto, PC

\* WriteSentinelChanges updates only what belongs to t.
LEMMA WriteSentinelChangesStep ==
    ASSUME TxnTypeOK, NEW t \in Txn, WriteSentinelChanges(t)
    PROVE  TxnStep(t)
BY RecordTypes, SetTypes DEF WriteSentinelChanges, TxnStep, Upd, TxnTypeOK, txnVars, Goto, PC

\* EndTransaction updates only what belongs to t.
LEMMA EndTransactionStep ==
    ASSUME TxnTypeOK, NEW t \in Txn, EndTransaction(t)
    PROVE  TxnStep(t)
BY RecordTypes, SetTypes DEF EndTransaction, TxnStep, Upd, TxnTypeOK, txnVars, Goto, PC, Cleanup

\* AbortUnlocked updates only what belongs to t.
LEMMA AbortUnlockedStep ==
    ASSUME TxnTypeOK, NEW t \in Txn, AbortUnlocked(t)
    PROVE  TxnStep(t)
BY RecordTypes, SetTypes DEF AbortUnlocked, TxnStep, Upd, TxnTypeOK, txnVars, FailStatement, Goto, PC

\* EndRollback updates only what belongs to t.
LEMMA EndRollbackStep ==
    ASSUME TxnTypeOK, NEW t \in Txn, EndRollback(t)
    PROVE  TxnStep(t)
BY RecordTypes, SetTypes DEF EndRollback, TxnStep, Upd, TxnTypeOK, txnVars, Goto, PC, Cleanup

\* SetSnapshot updates only what belongs to t.
LEMMA SetSnapshotStep ==
    ASSUME SentinelTypeOK, TxnTypeOK, NEW t \in Txn, SetSnapshot(t)
    PROVE  TxnStep(t)
BY DEF SetSnapshot, TxnStep, Upd, TxnTypeOK, SentinelTypeOK, txnVars

\* GetNextCSN updates only what belongs to t.
LEMMA GetNextCSNStep ==
    ASSUME SentinelTypeOK, TxnTypeOK, NEW t \in Txn, GetNextCSN(t)
    PROVE  TxnStep(t)
BY SetTypes DEF GetNextCSN, TxnStep, Upd, TxnTypeOK, SentinelTypeOK, Goto, PC

\* LockHeader updates only what belongs to t.
LEMMA LockHeaderStep ==
    ASSUME TxnTypeOK, TodoInv, NEW t \in Txn, LockHeader(t)
    PROVE  TxnStep(t) /\ First(todo[t]) \in Key
<1>1. First(todo[t]) \in Key
  BY FirstIsLeast, ConstantsAssumption DEF LockHeader, TodoInv, TodoOK, TxnTypeOK
<1> QED  BY <1>1, SetTypes DEF LockHeader, TxnStep, Upd, TxnTypeOK, Goto, PC

\* LockBackoff updates only what belongs to t.
LEMMA LockBackoffStep ==
    ASSUME TxnTypeOK, NEW t \in Txn, LockBackoff(t)
    PROVE  TxnStep(t)
<1>1. tries[t] + 1 \in Nat
  BY DEF TxnTypeOK
<1> QED  BY <1>1, SetTypes DEF LockBackoff, TxnStep, Upd, Goto, PC

\* PreAbortCheck updates only what belongs to t.
LEMMA PreAbortCheckStep ==
    ASSUME TxnTypeOK, NEW t \in Txn, PreAbortCheck(t)
    PROVE  TxnStep(t)
<1> DEFINE kept == [k \in Key |-> IF acc[t][k].type \in WriteTypes THEN acc[t][k]
                                  ELSE NoAccess]
<1>1. kept \in [Key -> Access]
  <2>1. \A k \in Key : acc[t][k] \in Access
    BY DEF TxnTypeOK
  <2>2. NoAccess \in Access
    BY RecordTypes
  <2> HIDE DEF Access
  <2> QED  BY <2>1, <2>2
<1>2. acc' = [acc EXCEPT ![t] = kept]
  BY DEF PreAbortCheck
<1> HIDE DEF kept
<1>3. Upd(acc, acc', t, [Key -> Access])
  BY <1>1, <1>2 DEF Upd
<1> QED  BY <1>3, SetTypes DEF PreAbortCheck, TxnStep, Upd, Goto, PC

\* Recording what a statement reported.
LEMMA OutcomeStep ==
    ASSUME TxnTypeOK, NEW t \in Txn, NEW k \in Nat, NEW c \in Nat, NEW kind,
           kind \in {"read", "dirty", "dirtyUpdate", "phantom", "update"},
           Outcome(t, kind, k, snap[t], c)
    PROVE  Upd(last, last', t, Result)
<1>1. [kind |-> kind, key |-> k, snap |-> snap[t], csn |-> c] \in Result
  BY DEF Result, TxnTypeOK
<1> QED  BY <1>1 DEF Outcome, Upd

\* The end of a statement.
LEMMA FinishStatementStep ==
    ASSUME TxnTypeOK, NEW t \in Txn, FinishStatement(t)
    PROVE  Upd(pc, pc', t, PC) /\ Upd(snap, snap', t, Nat) /\ Upd(cur, cur', t, Lookup)
BY RecordTypes DEF FinishStatement, AfterStatement, Goto, PC, Upd, TxnTypeOK

\* A failed statement.
LEMMA FailStatementStep ==
    ASSUME TxnTypeOK, NEW t \in Txn, FailStatement(t)
    PROVE  Upd(pc, pc', t, PC) /\ Upd(todo, todo', t, SUBSET Key) /\ Upd(cur, cur', t, Lookup)
BY RecordTypes, SetTypes DEF FailStatement, Goto, PC, Upd, TxnTypeOK

\* GetVisibleRowVersion updates only what belongs to t.
LEMMA GetVisibleRowVersionStep ==
    ASSUME SentinelTypeOK, TxnTypeOK, CurInv, NEW t \in Txn, GetVisibleRowVersion(t)
    PROVE  TxnStep(t)
<1>1. cur[t].key \in Key /\ cur[t].key \in Nat /\ snap[t] \in Nat
  BY ConstantsAssumption DEF GetVisibleRowVersion, CurInv, CurOK, TxnTypeOK
<1>2. VisibleCsn(snap[t], chain[cur[t].key]) \in Nat
  BY <1>1, VisibleCsnType DEF SentinelTypeOK
<1>3. Upd(last, last', t, Result)
  BY <1>1, <1>2, OutcomeStep DEF GetVisibleRowVersion
<1> QED  BY <1>3, FinishStatementStep DEF GetVisibleRowVersion, TxnStep, Upd

\* GetVisiblePrimaryHeader updates only what belongs to t.
LEMMA GetVisiblePrimaryHeaderStep ==
    ASSUME TxnTypeOK, CurInv, NEW t \in Txn, GetVisiblePrimaryHeader(t)
    PROVE  TxnStep(t)
<1>1. cur[t].key \in Nat
  BY ConstantsAssumption DEF GetVisiblePrimaryHeader, CurInv, CurOK
<1>2. Upd(last, last', t, Result)
  BY <1>1, OutcomeStep DEF GetVisiblePrimaryHeader, Upd
<1> QED  BY <1>2, FinishStatementStep
         DEF GetVisiblePrimaryHeader, TxnStep, Upd, Goto, PC

\* GetVisibleRowForUpdateEntry updates only what belongs to t.
LEMMA GetVisibleRowForUpdateEntryStep ==
    ASSUME SentinelTypeOK, TxnTypeOK, CurInv, NEW t \in Txn,
           GetVisibleRowForUpdateEntry(t)
    PROVE  TxnStep(t)
<1> DEFINE k == cur[t].key
<1>1. k \in Key /\ k \in Nat /\ chain[k] \in Seq(Version) /\ cur[t] \in Lookup
  BY ConstantsAssumption DEF GetVisibleRowForUpdateEntry, CurInv, CurOK, SentinelTypeOK, TxnTypeOK
<1>2. Upd(last, last', t, Result)
  BY <1>1, OutcomeStep DEF GetVisibleRowForUpdateEntry, Upd
<1>3. [cur[t] EXCEPT !.top = chain[k]] \in Lookup
  BY <1>1, RecordTypes
<1>4. Upd(cur, cur', t, Lookup) /\ Upd(pc, pc', t, PC)
  BY <1>3, FinishStatementStep, FailStatementStep
  DEF GetVisibleRowForUpdateEntry, Upd, Goto, PC
<1>5. Upd(snap, snap', t, Nat) /\ Upd(todo, todo', t, SUBSET Key)
  BY FinishStatementStep, FailStatementStep DEF GetVisibleRowForUpdateEntry, Upd
<1> QED  BY <1>2, <1>4, <1>5 DEF GetVisibleRowForUpdateEntry, TxnStep, Upd

\* One access of t is replaced.
LEMMA UpdAccess ==
    ASSUME TxnTypeOK, NEW t \in Txn, NEW k \in Key, NEW a \in Access,
           acc' = [acc EXCEPT ![t][k] = a]
    PROVE  Upd(acc, acc', t, [Key -> Access])
<1>1. [acc[t] EXCEPT ![k] = a] \in [Key -> Access]
  BY DEF TxnTypeOK
<1> QED  BY <1>1 DEF Upd

\* GetVisibleRow updates only what belongs to t.
LEMMA GetVisibleRowStep ==
    ASSUME SentinelTypeOK, TxnTypeOK, CurInv, NEW t \in Txn, GetVisibleRow(t)
    PROVE  TxnStep(t)
<1> DEFINE k == cur[t].key
<1>1. k \in Key /\ k \in Nat /\ chain[k] \in Seq(Version) /\ snap[t] \in Nat
  BY ConstantsAssumption DEF GetVisibleRow, CurInv, CurOK, SentinelTypeOK, TxnTypeOK
<1>2. HandedCsn(chain[k]) \in Nat
  BY <1>1, HandedCsnType
<1>3. Upd(last, last', t, Result)
  BY <1>1, <1>2, OutcomeStep DEF GetVisibleRow, Upd
<1>4. [type |-> cur[t].mode, upg |-> FALSE, iod |-> FALSE, base |-> chain[k],
       snapshot |-> snap[t]] \in Access
  BY <1>1 DEF GetVisibleRow, CurInv, CurOK, Access, AccessType
<1>5. Upd(acc, acc', t, [Key -> Access])
  <2>1. acc' = acc \/ MapRowToLocalTable(t, k, chain[k])
    BY DEF GetVisibleRow
  <2> QED  BY <1>1, <1>4, <2>1, UpdAccess DEF MapRowToLocalTable, Upd
<1>6. Upd(cur, cur', t, Lookup) /\ Upd(pc, pc', t, PC)
  BY FinishStatementStep, FailStatementStep DEF GetVisibleRow
<1>7. Upd(snap, snap', t, Nat) /\ Upd(todo, todo', t, SUBSET Key)
  BY FinishStatementStep, FailStatementStep DEF GetVisibleRow, Upd
<1> QED  BY <1>3, <1>5, <1>6, <1>7 DEF GetVisibleRow, TxnStep, Upd

\* The beginning of a statement.
LEMMA BeginStatementStep ==
    ASSUME TxnTypeOK, NEW t \in Txn, NEW kind, BeginStatement(t, kind)
    PROVE  Upd(ops, ops', t, Nat)
<1>1. ops[t] + 1 \in Nat
  BY DEF TxnTypeOK
<1> QED  BY <1>1 DEF BeginStatement, Upd

\* LookupNotVisible updates only what belongs to t.
LEMMA LookupNotVisibleStep ==
    ASSUME TxnTypeOK, NEW t \in Txn, NEW k \in Key, NEW mode \in Modes,
           LookupNotVisible(t, k, mode)
    PROVE  TxnStep(t)
<1>1. Upd(last, last', t, Result)
  BY OutcomeStep, ConstantsAssumption DEF LookupNotVisible
<1>2. Upd(snap, snap', t, Nat)
  BY DEF LookupNotVisible, AfterStatement, Upd, TxnTypeOK
<1> QED  BY <1>1, <1>2, BeginStatementStep DEF LookupNotVisible, TxnStep, Upd

\* LookupGlobal updates only what belongs to t.
LEMMA LookupGlobalStep ==
    ASSUME SentinelTypeOK, TxnTypeOK, NEW t \in Txn, NEW k \in Key, NEW mode \in Modes,
           LookupGlobal(t, k, mode)
    PROVE  TxnStep(t)
<1>1. chain[k] \in Seq(Version) /\ dirty[k] \in BOOLEAN /\ k \in Nat
  BY ConstantsAssumption DEF SentinelTypeOK
<1>2. (dirty[k] /\ lock[k] # NoTxn) \in BOOLEAN
  OBVIOUS
<1>3. [key |-> k, mode |-> mode, top |-> chain[k], spun |-> dirty[k] /\ lock[k] # NoTxn]
      \in Lookup
  BY <1>1, <1>2 DEF Lookup
<1>4. Upd(cur, cur', t, Lookup)
  BY <1>3 DEF LookupGlobal, Upd
<1>5. Upd(pc, pc', t, PC)
  BY DEF LookupGlobal, Goto, PC, Upd
<1> QED  BY <1>4, <1>5, BeginStatementStep DEF LookupGlobal, TxnStep, Upd

\* The key of an insert is remembered.
LEMMA CurKeyStep ==
    ASSUME TxnTypeOK, NEW t \in Txn, NEW k \in Key, cur' = [cur EXCEPT ![t].key = k]
    PROVE  Upd(cur, cur', t, Lookup)
<1>1. [cur[t] EXCEPT !.key = k] \in Lookup
  BY RecordTypes, ConstantsAssumption DEF TxnTypeOK
<1> QED  BY <1>1 DEF Upd

\* IndexInsert updates only what belongs to t.
LEMMA IndexInsertStep ==
    ASSUME TxnTypeOK, NEW t \in Txn, NEW k \in Key, IndexInsert(t, k)
    PROVE  TxnStep(t)
<1>1. Upd(cur, cur', t, Lookup) /\ Upd(pc, pc', t, PC)
  BY CurKeyStep, FailStatementStep DEF IndexInsert, Goto, PC, Upd
<1>2. Upd(todo, todo', t, SUBSET Key)
  BY FailStatementStep DEF IndexInsert, Upd
<1> QED  BY <1>1, <1>2, BeginStatementStep DEF IndexInsert, TxnStep, Upd

\* LookupLocal updates only what belongs to t.
LEMMA LookupLocalStep ==
    ASSUME TxnTypeOK, NEW t \in Txn, NEW k \in Key, NEW mode \in Modes,
           LookupLocal(t, k, mode)
    PROVE  TxnStep(t)
<1>1. acc[t][k] \in Access /\ acc[t][k].type \in AccessType
  BY DEF TxnTypeOK, Access
<1>2. NextType(acc[t][k].type, mode) \in AccessType
  BY <1>1 DEF NextType, Modes, AccessType
<1>3. CASE acc[t][k].type = "INS" /\ mode = "DEL"
  <2>1. FilterOrderedSet(t, k)
    BY <1>3 DEF LookupLocal
  <2>2. \E a \in Access : acc' = [acc EXCEPT ![t][k] = a]
    <3>1. /\ NoAccess \in Access
          /\ [acc[t][k] EXCEPT !.type = "DEL", !.upg = FALSE] \in Access
      BY <1>1, RecordTypes DEF AccessType
    <3> QED  BY <2>1, <3>1 DEF FilterOrderedSet
  <2>3. Upd(acc, acc', t, [Key -> Access])
    BY <2>2, UpdAccess
  <2>4. Upd(cur, cur', t, Lookup) /\ Upd(pc, pc', t, PC)
    BY <2>1, CurKeyStep DEF FilterOrderedSet, Goto, PC, Upd
  <2>5. Upd(snap, snap', t, Nat)
    BY DEF LookupLocal, AfterStatement, Upd, TxnTypeOK
  <2> QED  BY <2>3, <2>4, <2>5, BeginStatementStep DEF LookupLocal, TxnStep, Upd
<1>4. CASE ~(acc[t][k].type = "INS" /\ mode = "DEL")
  <2>1. acc' = acc \/ acc' = [acc EXCEPT ![t][k] =
                                [acc[t][k] EXCEPT !.type = NextType(acc[t][k].type, mode)]]
    BY <1>4 DEF LookupLocal
  <2>2. [acc[t][k] EXCEPT !.type = NextType(acc[t][k].type, mode)] \in Access
    BY <1>1, <1>2, RecordTypes
  <2>3. Upd(acc, acc', t, [Key -> Access])
    BY <2>1, <2>2, UpdAccess DEF Upd
  <2>4. Upd(snap, snap', t, Nat)
    BY DEF LookupLocal, AfterStatement, Upd, TxnTypeOK
  <2> QED  BY <1>4, <2>3, <2>4, BeginStatementStep DEF LookupLocal, TxnStep, Upd
<1> QED  BY <1>3, <1>4

\* RollbackInsert updates only what belongs to t.
LEMMA RollbackInsertStep ==
    ASSUME TxnTypeOK, NEW t \in Txn, RollbackInsert(t)
    PROVE  TxnStep(t) /\ First(todo[t]) \in todo[t] /\ First(todo[t]) \in Key
<1>1. First(todo[t]) \in todo[t] /\ First(todo[t]) \in Key
  BY FirstIsLeast, ConstantsAssumption DEF RollbackInsert, TxnTypeOK
<1>2. Upd(acc, acc', t, [Key -> Access])
  BY <1>1, RecordTypes, UpdAccess DEF RollbackInsert
<1>3. Upd(cur, cur', t, Lookup) /\ Upd(pc, pc', t, PC)
  BY <1>1, CurKeyStep DEF RollbackInsert, Goto, PC, Upd
<1>4. todo[t] \ {First(todo[t])} \in SUBSET Key
  BY DEF TxnTypeOK
<1>5. Upd(todo, todo', t, SUBSET Key)
  BY <1>4 DEF RollbackInsert, Upd
<1> QED  BY <1>1, <1>2, <1>3, <1>5 DEF RollbackInsert, TxnStep, Upd

\* AddInsertToLocalAccess updates only what belongs to t.
LEMMA AddInsertToLocalAccessStep ==
    ASSUME SentinelTypeOK, TxnTypeOK, CurInv, NEW t \in Txn, AddInsertToLocalAccess(t)
    PROVE  TxnStep(t)
<1> DEFINE k == cur[t].key
           a == acc[t][k]
<1>1. k \in Key /\ chain[k] \in Seq(Version) /\ snap[t] \in Nat /\ a \in Access
  BY DEF AddInsertToLocalAccess, CurInv, CurOK, SentinelTypeOK, TxnTypeOK
<1>2. /\ InsertAccess(chain[k], snap[t], TRUE, TRUE) \in Access
      /\ InsertAccess(<<>>, 0, FALSE, FALSE) \in Access
  BY <1>1, EmptySeq DEF InsertAccess, Access, AccessType
<1>3. [a EXCEPT !.type = "INS", !.upg = TRUE] \in Access
  BY <1>1, RecordTypes DEF AccessType
<1>4. CASE CleanupOptimisticInsert(t, k)
  BY <1>4, SetTypes
  DEF AddInsertToLocalAccess, CleanupOptimisticInsert, TxnStep, Upd, Goto, PC
<1>5. CASE /\ \E ac \in Access : acc' = [acc EXCEPT ![t][k] = ac]
           /\ FinishStatement(t)
           /\ UNCHANGED <<refs, todo>>
  <2>1. Upd(acc, acc', t, [Key -> Access])
    BY <1>1, <1>5, UpdAccess
  <2> QED  BY <1>5, <2>1, FinishStatementStep DEF AddInsertToLocalAccess, TxnStep, Upd
<1> QED  BY <1>2, <1>3, <1>4, <1>5 DEF AddInsertToLocalAccess

-----------------------------------------------------------------------------
(* The sentinels keep their types. *)

\* The reference count after an insert was undone is a number.
LEMMA RollbackRefsType ==
    ASSUME SentinelTypeOK, NEW t, NEW k \in Key
    PROVE  RollbackRefs(t, k) \in [Key -> Int]
BY DEF SentinelTypeOK, RollbackRefs

\* LookupLocal keeps the types of the sentinels.
LEMMA LookupLocalSent ==
    ASSUME SentinelTypeOK, NEW t \in Txn, NEW k \in Key, NEW mode \in Modes,
           LookupLocal(t, k, mode)
    PROVE  SentinelTypeOK' /\ lock' = lock
<1>1. refs' \in [Key -> Int]
  BY RollbackRefsType DEF LookupLocal, FilterOrderedSet, SentinelTypeOK, sentVars
<1> QED  BY <1>1 DEF LookupLocal, SentinelTypeOK, sentVars

\* IndexInsert keeps the types of the sentinels.
LEMMA IndexInsertSent ==
    ASSUME SentinelTypeOK, NEW t \in Txn, NEW k \in Key, IndexInsert(t, k)
    PROVE  SentinelTypeOK' /\ lock' = lock
<1>1. refs' \in [Key -> Int]
  BY DEF IndexInsert, SentinelTypeOK, RefCountInc
<1>2. \/ UNCHANGED <<present, dirty, start, chain>>
      \/ /\ present' = [present EXCEPT ![k] = TRUE]
         /\ dirty' = [dirty EXCEPT ![k] = TRUE]
         /\ start' = [start EXCEPT ![k] = 0]
         /\ chain' = [chain EXCEPT ![k] = <<>>]
  BY DEF IndexInsert
<1>3. chain' \in [Key -> Seq(Version)]
  <2>1. chain' = chain \/ chain' = [chain EXCEPT ![k] = <<>>]
    BY <1>2
  <2> DEFINE S == Seq(Version)
  <2>2. chain \in [Key -> S] /\ <<>> \in S
    BY EmptySeq DEF SentinelTypeOK
  <2> HIDE DEF S
  <2>3. chain' \in [Key -> S]
    BY <2>1, <2>2
  <2> QED  BY <2>3 DEF S
<1>4. present' \in [Key -> BOOLEAN] /\ dirty' \in [Key -> BOOLEAN]
  BY <1>2 DEF SentinelTypeOK
<1>5. start' \in [Key -> Nat]
  <2>1. start' = start \/ start' = [start EXCEPT ![k] = 0]
    BY <1>2
  <2>2. start \in [Key -> Nat]
    BY DEF SentinelTypeOK
  <2> QED  BY <2>1, <2>2
<1> QED  BY <1>1, <1>3, <1>4, <1>5 DEF IndexInsert, SentinelTypeOK

\* AddInsertToLocalAccess keeps the types of the sentinels.
LEMMA AddInsertToLocalAccessSent ==
    ASSUME SentinelTypeOK, TxnTypeOK, CurInv, NEW t \in Txn, AddInsertToLocalAccess(t)
    PROVE  SentinelTypeOK' /\ lock' = lock
<1>1. refs' = refs \/ refs' = [refs EXCEPT ![cur[t].key] = refs[cur[t].key] - 1]
  BY DEF AddInsertToLocalAccess, CleanupOptimisticInsert
<1>2. cur[t].key \in Key
  BY DEF AddInsertToLocalAccess, CurInv, CurOK
<1>3. refs' \in [Key -> Int]
  BY <1>1, <1>2 DEF SentinelTypeOK
<1> QED  BY <1>3 DEF AddInsertToLocalAccess, SentinelTypeOK

\* IndexRemove keeps the types of the sentinels.
LEMMA IndexRemoveSent ==
    ASSUME SentinelTypeOK, NEW t \in Txn, IndexRemove(t)
    PROVE  SentinelTypeOK' /\ lock' = lock
BY DEF IndexRemove, SentinelTypeOK

\* RollbackInsert keeps the types of the sentinels.
LEMMA RollbackInsertSent ==
    ASSUME SentinelTypeOK, TxnTypeOK, NEW t \in Txn, RollbackInsert(t)
    PROVE  SentinelTypeOK' /\ lock' = lock
<1>1. refs' \in [Key -> Int]
  BY RollbackInsertStep, RollbackRefsType DEF RollbackInsert
<1> QED  BY <1>1 DEF RollbackInsert, SentinelTypeOK

\* GetNextCSN keeps the types of the sentinels.
LEMMA GetNextCSNSent ==
    ASSUME SentinelTypeOK, NEW t \in Txn, GetNextCSN(t)
    PROVE  SentinelTypeOK' /\ lock' = lock
<1>1. \A k \in Key : NewVersions(t, k, csn) \o hist[k] \in Seq(Version)
  BY NewVersionsType, ConcatProperties DEF SentinelTypeOK
<1>2. hist' \in [Key -> Seq(Version)]
  BY <1>1 DEF GetNextCSN, SentinelTypeOK
<1> QED  BY <1>2 DEF GetNextCSN, SentinelTypeOK, sentVars

\* A published chain is a sequence of versions.
LEMMA PublishType ==
    ASSUME TxnTypeOK, NEW t \in Txn, NEW k \in Key
    PROVE  NewVersions(t, k, tcsn[t]) \o acc[t][k].base \in Seq(Version)
<1>1. acc[t][k].base \in Seq(Version) /\ tcsn[t] \in Nat
  BY DEF TxnTypeOK, Access
<1> QED  BY <1>1, NewVersionsType, ConcatProperties

\* WriteGlobalChanges keeps the types of the sentinels.
LEMMA WriteGlobalChangesSent ==
    ASSUME SentinelTypeOK, TxnTypeOK, TodoInv, NEW t \in Txn, WriteGlobalChanges(t)
    PROVE  SentinelTypeOK' /\ lock' = lock
<1> DEFINE k == First(todo[t])
<1>1. k \in Key
  BY FirstIsLeast, ConstantsAssumption DEF WriteGlobalChanges, TodoInv, TodoOK, TxnTypeOK
<1>2. chain' = chain \/ chain' = [chain EXCEPT ![k] = NewVersions(t, k, tcsn[t]) \o acc[t][k].base]
  BY DEF WriteGlobalChanges
<1>3. chain' \in [Key -> Seq(Version)]
  <2>1. NewVersions(t, k, tcsn[t]) \o acc[t][k].base \in Seq(Version)
    BY <1>1, PublishType
  <2> QED  BY <1>2, <2>1 DEF SentinelTypeOK
<1>4. wbit' \in [Key -> BOOLEAN]
  BY DEF WriteGlobalChanges, SentinelTypeOK
<1>5. start' \in [Key -> Nat]
  <2>1. start' = start \/ start' = [start EXCEPT ![k] = tcsn[t]]
    BY DEF WriteGlobalChanges
  <2> QED  BY <2>1 DEF SentinelTypeOK, TxnTypeOK
<1> QED  BY <1>3, <1>4, <1>5 DEF WriteGlobalChanges, SentinelTypeOK

\* WriteSentinelChanges keeps the types of the sentinels.
LEMMA WriteSentinelChangesSent ==
    ASSUME SentinelTypeOK, TxnTypeOK, TodoInv, NEW t \in Txn, WriteSentinelChanges(t)
    PROVE  SentinelTypeOK' /\ lock' = lock
<1> DEFINE k == First(todo[t])
<1>1. k \in Key
  BY FirstIsLeast, ConstantsAssumption DEF WriteSentinelChanges, TodoInv, TodoOK, TxnTypeOK
<1>2. chain' = [chain EXCEPT ![k] = NewVersions(t, k, tcsn[t]) \o acc[t][k].base]
  BY DEF WriteSentinelChanges
<1>3. chain' \in [Key -> Seq(Version)]
  <2>1. NewVersions(t, k, tcsn[t]) \o acc[t][k].base \in Seq(Version)
    BY <1>1, PublishType
  <2> QED  BY <1>2, <2>1 DEF SentinelTypeOK
<1>4. start' \in [Key -> Nat] /\ wbit' \in [Key -> BOOLEAN] /\ dirty' \in [Key -> BOOLEAN]
  BY DEF WriteSentinelChanges, SentinelTypeOK, TxnTypeOK
<1> QED  BY <1>3, <1>4 DEF WriteSentinelChanges, SentinelTypeOK

\* LockHeader keeps the types of the sentinels.
LEMMA LockHeaderSent ==
    ASSUME SentinelTypeOK, NEW t \in Txn, LockHeader(t)
    PROVE  SentinelTypeOK'
<1>1. lock' \in [Key -> Txn \cup {NoTxn}]
  BY DEF LockHeader, SentinelTypeOK
<1> QED  BY <1>1 DEF LockHeader, SentinelTypeOK

\* Unlock keeps the types of the sentinels.
LEMMA UnlockSent ==
    ASSUME SentinelTypeOK, NEW t \in Txn, Unlock(t)
    PROVE  SentinelTypeOK'
<1>1. lock' \in [Key -> Txn \cup {NoTxn}] /\ wbit' \in [Key -> BOOLEAN]
  BY DEF Unlock, SentinelTypeOK
<1> QED  BY <1>1 DEF Unlock, SentinelTypeOK

-----------------------------------------------------------------------------
(* Every step of t keeps the invariant of the other transactions. *)

\* If the locks of u are the same after a step of t, so is the rest.
LEMMA OthersKeep ==
    ASSUME CurInv, TodoInv, LockOwnership, TxnTypeOK, NEW t \in Txn, TxnStep(t),
           NEW u \in Txn, u # t, \A k \in Key : lock'[k] = u <=> lock[k] = u
    PROVE  CurOK(u)' /\ TodoOK(u)' /\ LockOK(u)'
<1>1. pc'[u] = pc[u] /\ acc'[u] = acc[u] /\ todo'[u] = todo[u] /\ cur'[u] = cur[u]
  BY TxnStepType
<1>2. WriteSet(u)' = WriteSet(u) /\ InsertSet(u)' = InsertSet(u)
  BY <1>1 DEF WriteSet, InsertSet
<1>3. CurOK(u)'
  BY <1>1 DEF CurInv, CurOK
<1>4. TodoOK(u)'
  BY <1>1, <1>2 DEF TodoInv, TodoOK
<1>5. LockSet(u)' = LockSet(u)
  BY <1>1, <1>2 DEF LockSet
<1>6. LockOK(u)'
  BY <1>5 DEF LockOK, LockOwnership
<1> QED  BY <1>3, <1>4, <1>6

\* So it is enough to look at t.
LEMMA StepKeepsInv ==
    ASSUME Inv, NEW t \in Txn, TxnStep(t), SentinelTypeOK',
           \A u \in Txn : u # t => \A k \in Key : lock'[k] = u <=> lock[k] = u,
           CurOK(t)', TodoOK(t)', LockOK(t)'
    PROVE  Inv'
<1>1. TypeOK'
  BY TxnStepType DEF Inv, TypeOK
<1>2. \A u \in Txn : CurOK(u)' /\ TodoOK(u)' /\ LockOK(u)'
  BY OthersKeep DEF Inv, TypeOK
<1>3. CurInv' /\ TodoInv' 
  BY <1>2 DEF CurInv, TodoInv
<1>4. LockOwnership'
  BY <1>2 DEF LockOwnership, LockOK
<1> QED  BY <1>1, <1>3, <1>4 DEF Inv

\* For a step that takes and releases no lock.
LEMMA LockFreeStepKeepsInv ==
    ASSUME Inv, NEW t \in Txn, TxnStep(t), SentinelTypeOK', lock' = lock,
           CurOK(t)', TodoOK(t)', LockSet(t)' = LockSet(t)
    PROVE  Inv'
<1>1. LockOK(t)'
  BY DEF LockOK, LockOwnership, Inv
<1> QED  BY <1>1, StepKeepsInv

-----------------------------------------------------------------------------
(* One lemma per action. *)

\* StartTransaction keeps the invariant.
LEMMA StartTransactionInv ==
    ASSUME Inv, NEW t \in Txn, StartTransaction(t)
    PROVE  Inv'
<1>1. TxnStep(t)
  BY StartTransactionStep DEF Inv, TypeOK
<1>2. SentinelTypeOK' /\ lock' = lock
  BY DEF Inv, TypeOK, SentinelTypeOK, StartTransaction, sentVars
<1>3. CurOK(t)'
  BY DEF Inv, TypeOK, TxnTypeOK, CurInv, CurOK, StartTransaction, Goto, txnVars
<1>4. TodoOK(t)'
  BY SetTypes
  DEF Inv, TypeOK, TxnTypeOK, TodoInv, TodoOK, StartTransaction, Goto, txnVars
<1>5. LockSet(t)' = LockSet(t)
  BY DEF Inv, TypeOK, TxnTypeOK, TodoInv, TodoOK, LockSet, WriteSet,
      StartTransaction, Goto, txnVars
<1> QED  BY <1>1, <1>2, <1>3, <1>4, <1>5, LockFreeStepKeepsInv

\* SetSnapshot keeps the invariant.
LEMMA SetSnapshotInv ==
    ASSUME Inv, NEW t \in Txn, SetSnapshot(t)
    PROVE  Inv'
<1>1. TxnStep(t)
  BY SetSnapshotStep DEF Inv, TypeOK
<1>2. SentinelTypeOK' /\ lock' = lock
  BY DEF Inv, TypeOK, SentinelTypeOK, SetSnapshot, sentVars
<1>3. CurOK(t)'
  BY DEF Inv, TypeOK, TxnTypeOK, CurInv, CurOK, SetSnapshot, txnVars
<1>4. TodoOK(t)'
  BY SetTypes DEF Inv, TypeOK, TxnTypeOK, TodoInv, TodoOK, SetSnapshot, txnVars
<1>5. LockSet(t)' = LockSet(t)
  BY DEF Inv, TypeOK, TxnTypeOK, TodoInv, TodoOK, LockSet, WriteSet,
      SetSnapshot, txnVars
<1> QED  BY <1>1, <1>2, <1>3, <1>4, <1>5, LockFreeStepKeepsInv

\* LookupLocal keeps the invariant.
LEMMA LookupLocalInv ==
    ASSUME Inv, NEW t \in Txn, NEW k \in Key, NEW mode \in Modes, LookupLocal(t, k, mode)
    PROVE  Inv'
<1>1. TxnStep(t)
  BY LookupLocalStep DEF Inv, TypeOK
<1>2. SentinelTypeOK' /\ lock' = lock
  BY LookupLocalSent DEF Inv, TypeOK
<1>3. CurOK(t)'
  BY DEF Inv, TypeOK, TxnTypeOK, CurInv, CurOK, Lookup, Modes, LookupLocal,
      BeginStatement, FilterOrderedSet, Goto
<1>4. TodoOK(t)'
  BY SetTypes
  DEF Inv, TypeOK, TxnTypeOK, TodoInv, TodoOK, LookupLocal, BeginStatement,
      FilterOrderedSet, Goto
<1>5. LockSet(t)' = LockSet(t)
  BY DEF Inv, TypeOK, TxnTypeOK, TodoInv, TodoOK, LockSet, WriteSet,
      LookupLocal, BeginStatement, FilterOrderedSet, Goto
<1> QED  BY <1>1, <1>2, <1>3, <1>4, <1>5, LockFreeStepKeepsInv

\* LookupNotVisible keeps the invariant.
LEMMA LookupNotVisibleInv ==
    ASSUME Inv, NEW t \in Txn, NEW k \in Key, NEW mode \in Modes, LookupNotVisible(t, k, mode)
    PROVE  Inv'
<1>1. TxnStep(t)
  BY LookupNotVisibleStep DEF Inv, TypeOK
<1>2. SentinelTypeOK' /\ lock' = lock
  BY DEF Inv, TypeOK, SentinelTypeOK, LookupNotVisible, sentVars
<1>3. CurOK(t)'
  BY DEF Inv, TypeOK, TxnTypeOK, CurInv, CurOK, LookupNotVisible, Outcome,
      BeginStatement
<1>4. TodoOK(t)'
  BY SetTypes
  DEF Inv, TypeOK, TxnTypeOK, TodoInv, TodoOK, LookupNotVisible, Outcome,
      BeginStatement
<1>5. LockSet(t)' = LockSet(t)
  BY DEF Inv, TypeOK, TxnTypeOK, TodoInv, TodoOK, LockSet, WriteSet,
      LookupNotVisible, Outcome, BeginStatement
<1> QED  BY <1>1, <1>2, <1>3, <1>4, <1>5, LockFreeStepKeepsInv

\* LookupGlobal keeps the invariant.
LEMMA LookupGlobalInv ==
    ASSUME Inv, NEW t \in Txn, NEW k \in Key, NEW mode \in Modes, LookupGlobal(t, k, mode)
    PROVE  Inv'
<1>1. TxnStep(t)
  BY LookupGlobalStep DEF Inv, TypeOK
<1>2. SentinelTypeOK' /\ lock' = lock
  BY DEF Inv, TypeOK, SentinelTypeOK, LookupGlobal, sentVars
<1>3. CurOK(t)'
  BY DEF Inv, TypeOK, TxnTypeOK, CurInv, CurOK, Lookup, Modes, LookupGlobal,
      Goto, BeginStatement
<1>4. TodoOK(t)'
  BY SetTypes
  DEF Inv, TypeOK, TxnTypeOK, TodoInv, TodoOK, LookupGlobal, Goto,
      BeginStatement
<1>5. LockSet(t)' = LockSet(t)
  BY DEF Inv, TypeOK, TxnTypeOK, TodoInv, TodoOK, LockSet, WriteSet,
      LookupGlobal, Goto, BeginStatement
<1> QED  BY <1>1, <1>2, <1>3, <1>4, <1>5, LockFreeStepKeepsInv

\* IndexInsert keeps the invariant.
LEMMA IndexInsertInv ==
    ASSUME Inv, NEW t \in Txn, NEW k \in Key, IndexInsert(t, k)
    PROVE  Inv'
<1>1. TxnStep(t)
  BY IndexInsertStep DEF Inv, TypeOK
<1>2. SentinelTypeOK' /\ lock' = lock
  BY IndexInsertSent DEF Inv, TypeOK
<1>3. CurOK(t)'
  BY DEF Inv, TypeOK, TxnTypeOK, CurInv, CurOK, Lookup, Modes, IndexInsert,
      Goto, FailStatement, BeginStatement
<1>4. TodoOK(t)'
  BY SetTypes
  DEF Inv, TypeOK, TxnTypeOK, TodoInv, TodoOK, IndexInsert, Goto, FailStatement,
      BeginStatement
<1>5. LockSet(t)' = LockSet(t)
  BY DEF Inv, TypeOK, TxnTypeOK, TodoInv, TodoOK, LockSet, WriteSet,
      IndexInsert, Goto, FailStatement, BeginStatement
<1> QED  BY <1>1, <1>2, <1>3, <1>4, <1>5, LockFreeStepKeepsInv

\* Rollback keeps the invariant.
LEMMA RollbackInv ==
    ASSUME Inv, NEW t \in Txn, Rollback(t)
    PROVE  Inv'
<1>1. TxnStep(t)
  BY RollbackStep DEF Inv, TypeOK
<1>2. SentinelTypeOK' /\ lock' = lock
  BY DEF Inv, TypeOK, SentinelTypeOK, Rollback, sentVars
<1>3. CurOK(t)'
  BY DEF Inv, TypeOK, TxnTypeOK, CurInv, CurOK, Rollback, FailStatement, Goto
<1>4. TodoOK(t)'
  BY SetTypes
  DEF Inv, TypeOK, TxnTypeOK, TodoInv, TodoOK, Rollback, FailStatement, Goto
<1>5. LockSet(t)' = LockSet(t)
  BY DEF Inv, TypeOK, TxnTypeOK, TodoInv, TodoOK, LockSet, WriteSet, Rollback,
      FailStatement, Goto
<1> QED  BY <1>1, <1>2, <1>3, <1>4, <1>5, LockFreeStepKeepsInv

\* GetVisibleRowVersion keeps the invariant.
LEMMA GetVisibleRowVersionInv ==
    ASSUME Inv, NEW t \in Txn, GetVisibleRowVersion(t)
    PROVE  Inv'
<1>1. TxnStep(t)
  BY GetVisibleRowVersionStep DEF Inv, TypeOK
<1>2. SentinelTypeOK' /\ lock' = lock
  BY DEF Inv, TypeOK, SentinelTypeOK, GetVisibleRowVersion, sentVars
<1>3. CurOK(t)'
  BY DEF Inv, TypeOK, TxnTypeOK, CurInv, CurOK, GetVisibleRowVersion,
      FinishStatement, Goto, Outcome
<1>4. TodoOK(t)'
  BY SetTypes
  DEF Inv, TypeOK, TxnTypeOK, TodoInv, TodoOK, GetVisibleRowVersion,
      FinishStatement, Goto, Outcome
<1>5. LockSet(t)' = LockSet(t)
  BY DEF Inv, TypeOK, TxnTypeOK, TodoInv, TodoOK, LockSet, WriteSet,
      GetVisibleRowVersion, FinishStatement, Goto, Outcome
<1> QED  BY <1>1, <1>2, <1>3, <1>4, <1>5, LockFreeStepKeepsInv

\* GetVisiblePrimaryHeader keeps the invariant.
LEMMA GetVisiblePrimaryHeaderInv ==
    ASSUME Inv, NEW t \in Txn, GetVisiblePrimaryHeader(t)
    PROVE  Inv'
<1>1. TxnStep(t)
  BY GetVisiblePrimaryHeaderStep DEF Inv, TypeOK
<1>2. SentinelTypeOK' /\ lock' = lock
  BY DEF Inv, TypeOK, SentinelTypeOK, GetVisiblePrimaryHeader, sentVars
<1>3. CurOK(t)'
  BY DEF Inv, TypeOK, TxnTypeOK, CurInv, CurOK, GetVisiblePrimaryHeader, Goto,
      FinishStatement, Outcome
<1>4. TodoOK(t)'
  BY SetTypes
  DEF Inv, TypeOK, TxnTypeOK, TodoInv, TodoOK, GetVisiblePrimaryHeader, Goto,
      FinishStatement, Outcome
<1>5. LockSet(t)' = LockSet(t)
  BY DEF Inv, TypeOK, TxnTypeOK, TodoInv, TodoOK, LockSet, WriteSet,
      GetVisiblePrimaryHeader, Goto, FinishStatement, Outcome
<1> QED  BY <1>1, <1>2, <1>3, <1>4, <1>5, LockFreeStepKeepsInv

\* GetVisibleRow keeps the invariant.
LEMMA GetVisibleRowInv ==
    ASSUME Inv, NEW t \in Txn, GetVisibleRow(t)
    PROVE  Inv'
<1>1. TxnStep(t)
  BY GetVisibleRowStep DEF Inv, TypeOK
<1>2. SentinelTypeOK' /\ lock' = lock
  BY DEF Inv, TypeOK, SentinelTypeOK, GetVisibleRow, sentVars
<1>3. CurOK(t)'
  BY DEF Inv, TypeOK, TxnTypeOK, CurInv, CurOK, GetVisibleRow, FinishStatement,
      Goto, FailStatement, Outcome, MapRowToLocalTable
<1>4. TodoOK(t)'
  BY SetTypes
  DEF Inv, TypeOK, TxnTypeOK, TodoInv, TodoOK, GetVisibleRow, FinishStatement,
      Goto, FailStatement, Outcome, MapRowToLocalTable
<1>5. LockSet(t)' = LockSet(t)
  BY DEF Inv, TypeOK, TxnTypeOK, TodoInv, TodoOK, LockSet, WriteSet,
      GetVisibleRow, FinishStatement, Goto, FailStatement, Outcome,
      MapRowToLocalTable
<1> QED  BY <1>1, <1>2, <1>3, <1>4, <1>5, LockFreeStepKeepsInv

\* AddInsertToLocalAccess keeps the invariant.
LEMMA AddInsertToLocalAccessInv ==
    ASSUME Inv, NEW t \in Txn, AddInsertToLocalAccess(t)
    PROVE  Inv'
<1>1. TxnStep(t)
  BY AddInsertToLocalAccessStep DEF Inv, TypeOK
<1>2. SentinelTypeOK' /\ lock' = lock
  BY AddInsertToLocalAccessSent DEF Inv, TypeOK
<1>3. CurOK(t)'
  BY DEF Inv, TypeOK, TxnTypeOK, CurInv, CurOK, AddInsertToLocalAccess,
      FinishStatement, Goto, CleanupOptimisticInsert
<1>4. TodoOK(t)'
  BY SetTypes
  DEF Inv, TypeOK, TxnTypeOK, TodoInv, TodoOK, AddInsertToLocalAccess,
      FinishStatement, Goto, CleanupOptimisticInsert
<1>5. LockSet(t)' = LockSet(t)
  BY DEF Inv, TypeOK, TxnTypeOK, TodoInv, TodoOK, LockSet, WriteSet,
      AddInsertToLocalAccess, FinishStatement, Goto, CleanupOptimisticInsert
<1> QED  BY <1>1, <1>2, <1>3, <1>4, <1>5, LockFreeStepKeepsInv

\* IndexRemove keeps the invariant.
LEMMA IndexRemoveInv ==
    ASSUME Inv, NEW t \in Txn, IndexRemove(t)
    PROVE  Inv'
<1>1. TxnStep(t)
  BY IndexRemoveStep DEF Inv, TypeOK
<1>2. SentinelTypeOK' /\ lock' = lock
  BY IndexRemoveSent DEF Inv, TypeOK
<1>3. CurOK(t)'
  BY DEF Inv, TypeOK, TxnTypeOK, CurInv, CurOK, IndexRemove, Goto
<1>4. TodoOK(t)'
  BY SetTypes DEF Inv, TypeOK, TxnTypeOK, TodoInv, TodoOK, IndexRemove, Goto
<1>5. LockSet(t)' = LockSet(t)
  BY DEF Inv, TypeOK, TxnTypeOK, TodoInv, TodoOK, LockSet, WriteSet,
      IndexRemove, Goto
<1> QED  BY <1>1, <1>2, <1>3, <1>4, <1>5, LockFreeStepKeepsInv

\* LockBackoff keeps the invariant.
LEMMA LockBackoffInv ==
    ASSUME Inv, NEW t \in Txn, LockBackoff(t)
    PROVE  Inv'
<1>1. TxnStep(t)
  BY LockBackoffStep DEF Inv, TypeOK
<1>2. SentinelTypeOK' /\ lock' = lock
  BY DEF Inv, TypeOK, SentinelTypeOK, LockBackoff, sentVars
<1>3. WriteSet(t)' = WriteSet(t) /\ InsertSet(t)' = InsertSet(t)
  BY DEF LockBackoff, WriteSet, InsertSet
<1>4. CurOK(t)'
  BY DEF Inv, TypeOK, TxnTypeOK, CurInv, CurOK, LockBackoff, Goto
<1>5. TodoOK(t)'
  BY <1>3, SetTypes
  DEF Inv, TypeOK, TxnTypeOK, TodoInv, TodoOK, LockBackoff, Goto
<1>6. LockSet(t)' = LockSet(t)
  BY <1>3
  DEF Inv, TypeOK, TxnTypeOK, TodoInv, TodoOK, LockSet, LockBackoff, Goto
<1> QED  BY <1>1, <1>2, <1>4, <1>5, <1>6, LockFreeStepKeepsInv

\* ValidateWriteSet keeps the invariant.
LEMMA ValidateWriteSetInv ==
    ASSUME Inv, NEW t \in Txn, ValidateWriteSet(t)
    PROVE  Inv'
<1>1. TxnStep(t)
  BY ValidateWriteSetStep DEF Inv, TypeOK
<1>2. SentinelTypeOK' /\ lock' = lock
  BY DEF Inv, TypeOK, SentinelTypeOK, ValidateWriteSet, sentVars
<1>3. WriteSet(t)' = WriteSet(t) /\ InsertSet(t)' = InsertSet(t)
  BY DEF ValidateWriteSet, WriteSet, InsertSet
<1>4. CurOK(t)'
  BY DEF Inv, TypeOK, TxnTypeOK, CurInv, CurOK, ValidateWriteSet, Goto
<1>5. TodoOK(t)'
  BY <1>3, SetTypes
  DEF Inv, TypeOK, TxnTypeOK, TodoInv, TodoOK, ValidateWriteSet, Goto
<1>6. LockSet(t)' = LockSet(t)
  BY <1>3
  DEF Inv, TypeOK, TxnTypeOK, TodoInv, TodoOK, LockSet, ValidateWriteSet, Goto
<1> QED  BY <1>1, <1>2, <1>4, <1>5, <1>6, LockFreeStepKeepsInv

\* GetNextCSN keeps the invariant.
LEMMA GetNextCSNInv ==
    ASSUME Inv, NEW t \in Txn, GetNextCSN(t)
    PROVE  Inv'
<1>1. TxnStep(t)
  BY GetNextCSNStep DEF Inv, TypeOK
<1>2. SentinelTypeOK' /\ lock' = lock
  BY GetNextCSNSent DEF Inv, TypeOK
<1>3. WriteSet(t)' = WriteSet(t) /\ InsertSet(t)' = InsertSet(t)
  BY DEF GetNextCSN, WriteSet, InsertSet
<1>4. CurOK(t)'
  BY DEF Inv, TypeOK, TxnTypeOK, CurInv, CurOK, GetNextCSN, Goto
<1>5. TodoOK(t)'
  BY <1>3, SetTypes
  DEF Inv, TypeOK, TxnTypeOK, TodoInv, TodoOK, GetNextCSN, Goto
<1>6. LockSet(t)' = LockSet(t)
  BY <1>3 DEF Inv, TypeOK, TxnTypeOK, TodoInv, TodoOK, LockSet, GetNextCSN, Goto
<1> QED  BY <1>1, <1>2, <1>4, <1>5, <1>6, LockFreeStepKeepsInv

\* AbortValidated keeps the invariant.
LEMMA AbortValidatedInv ==
    ASSUME Inv, NEW t \in Txn, AbortValidated(t)
    PROVE  Inv'
<1>1. TxnStep(t)
  BY AbortValidatedStep DEF Inv, TypeOK
<1>2. SentinelTypeOK' /\ lock' = lock
  BY DEF Inv, TypeOK, SentinelTypeOK, AbortValidated, sentVars
<1>3. WriteSet(t)' = WriteSet(t) /\ InsertSet(t)' = InsertSet(t)
  BY DEF AbortValidated, WriteSet, InsertSet
<1>4. CurOK(t)'
  BY DEF Inv, TypeOK, TxnTypeOK, CurInv, CurOK, AbortValidated, Goto
<1>5. TodoOK(t)'
  BY <1>3, SetTypes
  DEF Inv, TypeOK, TxnTypeOK, TodoInv, TodoOK, AbortValidated, Goto
<1>6. LockSet(t)' = LockSet(t)
  BY <1>3
  DEF Inv, TypeOK, TxnTypeOK, TodoInv, TodoOK, LockSet, AbortValidated, Goto
<1> QED  BY <1>1, <1>2, <1>4, <1>5, <1>6, LockFreeStepKeepsInv

\* WriteGlobalChanges keeps the invariant.
LEMMA WriteGlobalChangesInv ==
    ASSUME Inv, NEW t \in Txn, WriteGlobalChanges(t)
    PROVE  Inv'
<1>1. TxnStep(t)
  BY WriteGlobalChangesStep DEF Inv, TypeOK
<1>2. SentinelTypeOK' /\ lock' = lock
  BY WriteGlobalChangesSent DEF Inv, TypeOK
<1>3. WriteSet(t)' = WriteSet(t) /\ InsertSet(t)' = InsertSet(t)
  BY DEF WriteGlobalChanges, WriteSet, InsertSet
<1>4. First(todo[t]) \in todo[t]
  BY FirstIsLeast, ConstantsAssumption
  DEF WriteGlobalChanges, Inv, TypeOK, TxnTypeOK, TodoInv, TodoOK
<1>5. CurOK(t)'
  BY DEF Inv, TypeOK, TxnTypeOK, CurInv, CurOK, WriteGlobalChanges, Goto
<1>6. TodoOK(t)'
  BY <1>3, <1>4, SetTypes
  DEF Inv, TypeOK, TxnTypeOK, TodoInv, TodoOK, WriteGlobalChanges, Goto
<1>7. LockSet(t)' = LockSet(t)
  BY <1>3
  DEF Inv, TypeOK, TxnTypeOK, TodoInv, TodoOK, LockSet, WriteGlobalChanges, Goto
<1> QED  BY <1>1, <1>2, <1>5, <1>6, <1>7, LockFreeStepKeepsInv

\* WriteSentinelChanges keeps the invariant.
LEMMA WriteSentinelChangesInv ==
    ASSUME Inv, NEW t \in Txn, WriteSentinelChanges(t)
    PROVE  Inv'
<1>1. TxnStep(t)
  BY WriteSentinelChangesStep DEF Inv, TypeOK
<1>2. SentinelTypeOK' /\ lock' = lock
  BY WriteSentinelChangesSent DEF Inv, TypeOK
<1>3. WriteSet(t)' = WriteSet(t) /\ InsertSet(t)' = InsertSet(t)
  BY DEF WriteSentinelChanges, WriteSet, InsertSet
<1>4. First(todo[t]) \in todo[t]
  BY FirstIsLeast, ConstantsAssumption
  DEF WriteSentinelChanges, Inv, TypeOK, TxnTypeOK, TodoInv, TodoOK
<1>5. CurOK(t)'
  BY DEF Inv, TypeOK, TxnTypeOK, CurInv, CurOK, WriteSentinelChanges, Goto
<1>6. TodoOK(t)'
  BY <1>3, <1>4, SetTypes
  DEF Inv, TypeOK, TxnTypeOK, TodoInv, TodoOK, WriteSentinelChanges, Goto
<1>7. LockSet(t)' = LockSet(t)
  BY <1>3
  DEF Inv, TypeOK, TxnTypeOK, TodoInv, TodoOK, LockSet, WriteSentinelChanges,
      Goto
<1> QED  BY <1>1, <1>2, <1>5, <1>6, <1>7, LockFreeStepKeepsInv

\* EndTransaction keeps the invariant.
LEMMA EndTransactionInv ==
    ASSUME Inv, NEW t \in Txn, EndTransaction(t)
    PROVE  Inv'
<1>1. TxnStep(t)
  BY EndTransactionStep DEF Inv, TypeOK
<1>2. SentinelTypeOK' /\ lock' = lock
  BY DEF Inv, TypeOK, SentinelTypeOK, EndTransaction, sentVars
<1>3. CurOK(t)'
  BY DEF Inv, TypeOK, TxnTypeOK, CurInv, CurOK, EndTransaction, Goto, Cleanup
<1>4. TodoOK(t)'
  BY SetTypes
  DEF Inv, TypeOK, TxnTypeOK, TodoInv, TodoOK, EndTransaction, Goto, Cleanup
<1>5. LockSet(t)' = LockSet(t)
  BY DEF Inv, TypeOK, TxnTypeOK, TodoInv, TodoOK, LockSet, WriteSet,
      EndTransaction, Goto, Cleanup
<1> QED  BY <1>1, <1>2, <1>3, <1>4, <1>5, LockFreeStepKeepsInv

\* AbortUnlocked keeps the invariant.
LEMMA AbortUnlockedInv ==
    ASSUME Inv, NEW t \in Txn, AbortUnlocked(t)
    PROVE  Inv'
<1>1. TxnStep(t)
  BY AbortUnlockedStep DEF Inv, TypeOK
<1>2. SentinelTypeOK' /\ lock' = lock
  BY DEF Inv, TypeOK, SentinelTypeOK, AbortUnlocked, sentVars
<1>3. CurOK(t)'
  BY DEF Inv, TypeOK, TxnTypeOK, CurInv, CurOK, AbortUnlocked, FailStatement,
      Goto
<1>4. TodoOK(t)'
  BY SetTypes
  DEF Inv, TypeOK, TxnTypeOK, TodoInv, TodoOK, AbortUnlocked, FailStatement,
      Goto
<1>5. LockSet(t)' = LockSet(t)
  BY DEF Inv, TypeOK, TxnTypeOK, TodoInv, TodoOK, LockSet, WriteSet,
      AbortUnlocked, FailStatement, Goto
<1> QED  BY <1>1, <1>2, <1>3, <1>4, <1>5, LockFreeStepKeepsInv

\* RollbackInsert keeps the invariant.
LEMMA RollbackInsertInv ==
    ASSUME Inv, NEW t \in Txn, RollbackInsert(t)
    PROVE  Inv'
<1>1. TxnStep(t) /\ First(todo[t]) \in Key
  BY RollbackInsertStep DEF Inv, TypeOK
<1>2. SentinelTypeOK' /\ lock' = lock
  BY RollbackInsertSent DEF Inv, TypeOK
<1>3. CurOK(t)'
  BY <1>1
  DEF Inv, TypeOK, TxnTypeOK, CurInv, CurOK, Lookup, Modes, RollbackInsert, Goto
<1>4. TodoOK(t)'
  BY SetTypes DEF Inv, TypeOK, TxnTypeOK, TodoInv, TodoOK, RollbackInsert, Goto
<1>5. LockSet(t)' = LockSet(t)
  BY DEF Inv, TypeOK, TxnTypeOK, TodoInv, TodoOK, LockSet, WriteSet,
      RollbackInsert, Goto
<1> QED  BY <1>1, <1>2, <1>3, <1>4, <1>5, LockFreeStepKeepsInv

\* EndRollback keeps the invariant.
LEMMA EndRollbackInv ==
    ASSUME Inv, NEW t \in Txn, EndRollback(t)
    PROVE  Inv'
<1>1. TxnStep(t)
  BY EndRollbackStep DEF Inv, TypeOK
<1>2. SentinelTypeOK' /\ lock' = lock
  BY DEF Inv, TypeOK, SentinelTypeOK, EndRollback, sentVars
<1>3. CurOK(t)'
  BY DEF Inv, TypeOK, TxnTypeOK, CurInv, CurOK, EndRollback, Goto, Cleanup
<1>4. TodoOK(t)'
  BY SetTypes
  DEF Inv, TypeOK, TxnTypeOK, TodoInv, TodoOK, EndRollback, Goto, Cleanup
<1>5. LockSet(t)' = LockSet(t)
  BY DEF Inv, TypeOK, TxnTypeOK, TodoInv, TodoOK, LockSet, WriteSet,
      EndRollback, Goto, Cleanup
<1> QED  BY <1>1, <1>2, <1>3, <1>4, <1>5, LockFreeStepKeepsInv

\* PreAbortCheck keeps the invariant.
LEMMA PreAbortCheckInv ==
    ASSUME Inv, NEW t \in Txn, PreAbortCheck(t)
    PROVE  Inv'
<1>1. TxnStep(t)
  BY PreAbortCheckStep DEF Inv, TypeOK
<1>2. SentinelTypeOK' /\ lock' = lock
  BY DEF Inv, TypeOK, SentinelTypeOK, PreAbortCheck, sentVars
<1>3. CurOK(t)'
  BY DEF Inv, TypeOK, TxnTypeOK, CurInv, CurOK, PreAbortCheck, Goto
<1>4. WriteSet(t)' = WriteSet(t)
  <2>1. ASSUME NEW k \in Key
        PROVE  acc'[t][k].type \in WriteTypes <=> acc[t][k].type \in WriteTypes
    <3>1. acc'[t][k] = IF acc[t][k].type \in WriteTypes THEN acc[t][k] ELSE NoAccess
      BY DEF PreAbortCheck, Inv, TypeOK, TxnTypeOK
    <3> QED  BY <3>1 DEF NoAccess, WriteTypes
  <2> QED  BY <2>1 DEF WriteSet
<1>5. TodoOK(t)'
  BY <1>4, SetTypes DEF Inv, TypeOK, TxnTypeOK, TodoInv, TodoOK, PreAbortCheck, Goto
<1>6. LockSet(t)' = LockSet(t)
  BY <1>4 DEF Inv, TypeOK, TxnTypeOK, TodoInv, TodoOK, LockSet, PreAbortCheck, Goto
<1> QED  BY <1>1, <1>2, <1>3, <1>5, <1>6, LockFreeStepKeepsInv

\* GetVisibleRowForUpdateEntry keeps the invariant.
LEMMA GetVisibleRowForUpdateEntryInv ==
    ASSUME Inv, NEW t \in Txn, GetVisibleRowForUpdateEntry(t)
    PROVE  Inv'
<1>1. TxnStep(t)
  BY GetVisibleRowForUpdateEntryStep DEF Inv, TypeOK
<1>2. SentinelTypeOK' /\ lock' = lock
  BY DEF Inv, TypeOK, SentinelTypeOK, GetVisibleRowForUpdateEntry, sentVars
<1>3. CurOK(t)'
  <2>1. CASE pc'[t] = "update"
    <3>1. cur'[t] = [cur[t] EXCEPT !.top = chain[cur[t].key]] /\ cur[t] \in Lookup
      BY <2>1 DEF GetVisibleRowForUpdateEntry, FinishStatement, FailStatement, Goto,
                  Inv, TypeOK, TxnTypeOK
    <3>2. cur'[t].key = cur[t].key /\ cur'[t].mode = cur[t].mode
      BY <3>1 DEF Lookup
    <3> QED  BY <2>1, <3>2 DEF Inv, CurInv, CurOK, GetVisibleRowForUpdateEntry
  <2>2. CASE pc'[t] # "update"
    BY <2>2 DEF Inv, TypeOK, TxnTypeOK, CurOK, GetVisibleRowForUpdateEntry,
                FinishStatement, FailStatement, Goto
  <2> QED  BY <2>1, <2>2
<1>4. TodoOK(t)'
  BY DEF Inv, TypeOK, TxnTypeOK, TodoInv, TodoOK, GetVisibleRowForUpdateEntry,
      FinishStatement, FailStatement, Goto
<1>5. LockSet(t)' = LockSet(t)
  BY DEF Inv, TypeOK, TxnTypeOK, LockSet, GetVisibleRowForUpdateEntry,
      FinishStatement, FailStatement, Goto
<1> QED  BY <1>1, <1>2, <1>3, <1>4, <1>5, LockFreeStepKeepsInv

\* LockHeader keeps the invariant.
LEMMA LockHeaderInv ==
    ASSUME Inv, NEW t \in Txn, LockHeader(t)
    PROVE  Inv'
<1> DEFINE k == First(todo[t])
<1>1. TxnStep(t) /\ k \in Key
  BY LockHeaderStep DEF Inv, TypeOK
<1>2. SentinelTypeOK'
  BY LockHeaderSent DEF Inv, TypeOK
<1>3. k \in todo[t] /\ todo[t] \subseteq WriteSet(t) /\ todo[t] # {}
  BY FirstIsLeast, ConstantsAssumption
  DEF LockHeader, Inv, TypeOK, TxnTypeOK, TodoInv, TodoOK
<1>4. WriteSet(t)' = WriteSet(t) /\ InsertSet(t)' = InsertSet(t)
  BY DEF LockHeader, WriteSet, InsertSet
<1>5. LockSet(t) = WriteSet(t) \ todo[t]
  BY DEF LockHeader, LockSet
<1>6. CurOK(t)'
  BY DEF Inv, TypeOK, TxnTypeOK, CurOK, LockHeader, Goto
<1>7. TodoOK(t)'
  BY <1>3, <1>4 DEF Inv, TypeOK, TxnTypeOK, TodoOK, LockHeader, Goto
<1>8. t # NoTxn
  BY ConstantsAssumption
<1>9. LockOK(t)'
  <2>1. CASE lock[k] = NoTxn
    <3>1. \A j \in Key : lock'[j] = t <=> (lock[j] = t \/ j = k)
      BY <1>1, <2>1 DEF LockHeader, Inv, TypeOK, SentinelTypeOK
    <3>2. LockSet(t)' = LockSet(t) \cup {k}
      BY <1>3, <1>4, <1>5, <2>1
      DEF LockHeader, LockSet, Goto, Inv, TypeOK, TxnTypeOK
    <3> QED  BY <3>1, <3>2 DEF LockOK, Inv, LockOwnership
  <2>2. CASE lock[k] # NoTxn
    <3>1. LockSet(t)' = LockSet(t)
      BY <1>4, <1>5, <2>2 DEF LockHeader, LockSet, Goto, Inv, TypeOK, TxnTypeOK
    <3> QED  BY <2>2, <3>1 DEF LockHeader, LockOK, Inv, LockOwnership
  <2> QED  BY <2>1, <2>2
<1>10. \A u \in Txn : u # t => \A j \in Key : lock'[j] = u <=> lock[j] = u
  BY <1>1, ConstantsAssumption DEF LockHeader, Inv, TypeOK, SentinelTypeOK
<1> QED  BY <1>1, <1>2, <1>6, <1>7, <1>9, <1>10, StepKeepsInv

\* Unlock keeps the invariant.
LEMMA UnlockInv ==
    ASSUME Inv, NEW t \in Txn, Unlock(t)
    PROVE  Inv'
<1> DEFINE k == First(todo[t])
<1>1. TxnStep(t)
  BY UnlockStep DEF Inv, TypeOK
<1>2. SentinelTypeOK'
  BY UnlockSent DEF Inv, TypeOK
<1>3. k \in todo[t] /\ k \in Key
  BY FirstIsLeast, ConstantsAssumption DEF Unlock, Inv, TypeOK, TxnTypeOK
<1>4. CurOK(t)'
  BY DEF CurOK, Unlock
<1>5. TodoOK(t)'
  BY DEF Inv, TodoInv, TodoOK, Unlock, WriteSet
<1>6. LockSet(t) = todo[t] /\ LockSet(t)' = todo[t] \ {k}
  BY DEF Unlock, LockSet, Inv, TypeOK, TxnTypeOK
<1>7. lock[k] = t
  BY <1>3, <1>6 DEF Inv, LockOwnership
<1>8. \A j \in Key : lock'[j] = IF j = k THEN NoTxn ELSE lock[j]
  BY DEF Unlock, Inv, TypeOK, SentinelTypeOK
<1>9. LockOK(t)'
  <2>1. \A j \in Key : lock'[j] = t <=> (lock[j] = t /\ j # k)
    BY <1>8, ConstantsAssumption
  <2>2. \A j \in Key : lock[j] = t <=> j \in LockSet(t)
    BY DEF Inv, LockOwnership
  <2> QED  BY <1>6, <2>1, <2>2 DEF LockOK
<1>10. \A u \in Txn : u # t => \A j \in Key : lock'[j] = u <=> lock[j] = u
  BY <1>7, <1>8, ConstantsAssumption
<1> QED  BY <1>1, <1>2, <1>4, <1>5, <1>9, <1>10, StepKeepsInv

-----------------------------------------------------------------------------
(* The theorems. *)

\* The initial states satisfy the invariant.
LEMMA InitInv == Init => Inv
<1> SUFFICES ASSUME Init PROVE Inv
  OBVIOUS
<1> DEFINE c0 == [k \in Key |->
                    IF k \in InitKey THEN <<[csn |-> 1, del |-> FALSE]>> ELSE <<>>]
<1>1. c0 \in [Key -> Seq(Version)]
  <2>1. [csn |-> 1, del |-> FALSE] \in Version
    BY DEF Version
  <2> HIDE DEF Version
  <2>2. <<[csn |-> 1, del |-> FALSE]>> \in Seq(Version) /\ <<>> \in Seq(Version)
    BY <2>1, EmptySeq
  <2> QED  BY <2>2
<1>2. chain \in [Key -> Seq(Version)] /\ hist \in [Key -> Seq(Version)]
  <2>1. chain = c0 /\ hist = c0
    BY DEF Init
  <2> QED  BY <1>1, <2>1
<1>3. SentinelTypeOK
  BY <1>2 DEF Init, SentinelTypeOK
<1>4. acc \in [Txn -> [Key -> Access]]
  BY RecordTypes DEF Init
<1>5. cur \in [Txn -> Lookup]
  BY RecordTypes DEF Init
<1>6. last \in [Txn -> Result]
  <2>1. NoLast \in Result
    BY DEF NoLast, Result
  <2> QED  BY <2>1 DEF Init
<1>7. pc \in [Txn -> PC]
  BY DEF Init, PC
<1>8. TxnTypeOK
  BY <1>4, <1>5, <1>6, <1>7 DEF Init, TxnTypeOK
<1>9. \A t \in Txn : pc[t] = "idle" /\ todo[t] = {}
  BY DEF Init
<1>10. CurInv /\ TodoInv
  BY <1>9 DEF CurInv, CurOK, TodoInv, TodoOK
<1>11. \A t \in Txn : LockSet(t) = {}
  BY <1>9 DEF LockSet
<1>12. LockOwnership
  BY <1>11, ConstantsAssumption DEF LockOwnership, Init
<1> QED  BY <1>3, <1>8, <1>10, <1>12 DEF Inv, TypeOK

\* A stuttering step keeps it.
LEMMA StutterInv == Inv /\ UNCHANGED vars => Inv'
<1> SUFFICES ASSUME Inv, UNCHANGED vars PROVE Inv'
  OBVIOUS
<1> USE DEF vars, sentVars, txnVars
<1>1. TypeOK'
  BY DEF Inv, TypeOK, SentinelTypeOK, TxnTypeOK
<1>2. CurInv'
  BY DEF Inv, CurInv, CurOK
<1>3. TodoInv'
  BY DEF Inv, TodoInv, TodoOK, WriteSet, InsertSet
<1>4. \A t \in Txn : LockSet(t)' = LockSet(t)
  BY DEF LockSet, WriteSet
<1>5. LockOwnership'
  BY <1>4 DEF Inv, LockOwnership
<1> QED  BY <1>1, <1>2, <1>3, <1>5 DEF Inv

\* Every step keeps it.
LEMMA NextInv == Inv /\ [Next]_vars => Inv'
<1> SUFFICES ASSUME Inv, [Next]_vars PROVE Inv'
  OBVIOUS
<1>1. ASSUME NEW t \in Txn, Client(t)
      PROVE  Inv'
  BY <1>1, StartTransactionInv, SetSnapshotInv, LookupLocalInv, LookupNotVisibleInv,
     LookupGlobalInv, IndexInsertInv, PreAbortCheckInv, RollbackInv
  DEF Client
<1>2. ASSUME NEW t \in Txn, Engine(t)
      PROVE  Inv'
  BY <1>2, GetVisibleRowVersionInv, GetVisiblePrimaryHeaderInv,
     GetVisibleRowForUpdateEntryInv, GetVisibleRowInv, AddInsertToLocalAccessInv,
     IndexRemoveInv, LockHeaderInv, UnlockInv, LockBackoffInv, ValidateWriteSetInv,
     GetNextCSNInv, AbortValidatedInv, WriteGlobalChangesInv, WriteSentinelChangesInv,
     EndTransactionInv, AbortUnlockedInv, RollbackInsertInv, EndRollbackInv
  DEF Engine
<1>3. CASE UNCHANGED vars
  BY <1>3, StutterInv
<1> QED  BY <1>1, <1>2, <1>3 DEF Next

\* Every variable keeps its type in every behaviour of the engine.
THEOREM TypeCorrect == Spec => []TypeOK
<1>1. Inv => TypeOK
  BY DEF Inv
<1> QED  BY <1>1, InitInv, NextInv, PTL DEF Spec

\* Locks are never leaked and never shared, for any number of transactions and
\* keys: LockHeaders' retry, abort and success exits all leave exactly the locks
\* the rest of the commit relies on.
THEOREM LockSafety == Spec => []LockOwnership
<1>1. Inv => LockOwnership
  BY DEF Inv
<1> QED  BY <1>1, InitInv, NextInv, PTL DEF Spec

=============================================================================
