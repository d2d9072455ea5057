---------------------------- MODULE MotGcProofs ----------------------------
(***************************************************************************)
(* Proofs about MOT's garbage collector, for all finite sets of sessions   *)
(* and of sentinels, in two stages.                                        *)
(*                                                                         *)
(* The epochs.  EpochInv is inductive when no thread is delayed between    *)
(* taking its snapshot and publishing its epoch ("epoch" \notin Delays:    *)
(* the run gc_epoch shows what happens otherwise).  The argument: a        *)
(* session that starts publishes the current CSN, which is not before any  *)
(* minimum in the making; the minimum a scan of MinActiveEpoch has so far  *)
(* is not after the epoch of any session it has visited, and the scanning  *)
(* session itself, whose epoch stands still, covers the sessions that were *)
(* idle when they were visited (ScanInv).                                  *)
(*                                                                         *)
(* The collector.  GcInv adds the limbo queues, the version chain and the  *)
(* two counts of a sentinel; it is inductive when Delays = {}.  After the  *)
(* lemmas about places in lists (which GcSharedInfo counts) it is stated   *)
(* with its argument, then kept by the actions one by one, and the         *)
(* theorems at the end follow from it.                                     *)
(***************************************************************************)
EXTENDS MotGc, FiniteSetTheorems, WellFoundedInduction, TLAPS

Scan == [left : SUBSET Sessions, min : Nat, others : BOOLEAN]

EpochTypes ==
    /\ csn \in Nat \ {0} /\ active \in Nat
    /\ pc \in [Sessions -> PC]
    /\ epoch \in [Sessions -> Nat]
    /\ snap \in [Sessions -> Nat]
    /\ scan \in [Sessions -> Scan]

\* A session between its snapshot and its epoch.
Starting(s) == pc[s] \in {"snap", "found"}

\* What a session has published.
SessionInv(s) ==
    /\ epoch[s] <= csn /\ snap[s] <= csn
    /\ Starting(s) => snap[s] = csn
    /\ InTxn(s) => epoch[s] # 0 /\ active <= epoch[s] /\ epoch[s] <= snap[s]

\* The scan of t is not going to miss session s.
Covered(t, s) ==
    \/ s \in scan[t].left
    \/ scan[t].min # 0 /\ scan[t].min <= epoch[s]
    \/ t \in scan[t].left /\ epoch[t] <= epoch[s]

ScanInv(t) ==
    pc[t] = "scan" =>
        /\ glock = t
        /\ epoch[t] # 0
        /\ scan[t].min <= csn
        /\ t \in scan[t].left \/ scan[t].min # 0
        /\ \A s \in Sessions : InTxn(s) => Covered(t, s)

EpochInv ==
    /\ EpochTypes
    /\ active <= csn
    /\ \A s \in Sessions : SessionInv(s)
    /\ \A s \in Sessions : ScanInv(s)

\* The initial states satisfy the invariant.
LEMMA InitEpoch == Init => EpochInv
<1> SUFFICES ASSUME Init PROVE EpochInv
  OBVIOUS
<1>1. NoScan \in Scan
  BY DEF NoScan, Scan
<1>2. EpochTypes
  BY <1>1 DEF Init, EpochTypes, PC
<1> QED  BY <1>2 DEF Init, EpochInv, SessionInv, ScanInv, Starting, InTxn

\* A step of s that computes no minimum: the other sessions keep what they have
\* published, and s publishes the current CSN or what it had.
PlainStep(s) ==
    /\ EpochTypes'
    /\ csn' = csn \/ (csn' = csn + 1 /\ \A t \in Sessions \ {s} : ~Starting(t))
    /\ active' = active /\ glock' = glock
    /\ \A t \in Sessions : t # s => /\ pc'[t] = pc[t] /\ epoch'[t] = epoch[t]
                                    /\ snap'[t] = snap[t] /\ scan'[t] = scan[t]
    /\ pc[s] # "scan" /\ pc'[s] # "scan"
    /\ epoch'[s] <= csn' /\ snap'[s] <= csn'
    /\ Starting(s)' => snap'[s] = csn'
    /\ InTxn(s)' => /\ epoch'[s] <= snap'[s]
                    /\ (InTxn(s) /\ epoch'[s] = epoch[s]) \/ epoch'[s] = csn

\* Such a step keeps the invariant.
LEMMA PlainStepKeeps ==
    ASSUME EpochInv, NEW s \in Sessions, PlainStep(s)
    PROVE  EpochInv'
<1>0. /\ csn \in Nat \ {0} /\ csn' \in Nat /\ csn <= csn' /\ active \in Nat /\ active <= csn
      /\ \A t \in Sessions : /\ epoch[t] \in Nat /\ snap[t] \in Nat /\ scan[t] \in Scan
                             /\ epoch'[t] \in Nat /\ snap'[t] \in Nat
  BY DEF EpochInv, EpochTypes, PlainStep
<1>1. ASSUME NEW t \in Sessions
      PROVE  SessionInv(t)'
  <2>1. SessionInv(t)
    BY DEF EpochInv
  <2>2. CASE t = s
    BY <1>0, <2>1, <2>2 DEF PlainStep, SessionInv
  <2>3. CASE t # s
    <3>1. /\ pc'[t] = pc[t] /\ epoch'[t] = epoch[t] /\ snap'[t] = snap[t]
          /\ (Starting(t) => csn' = csn) /\ active' = active
      BY <2>3 DEF PlainStep
    <3> QED  BY <1>0, <2>1, <3>1 DEF SessionInv, Starting, InTxn
  <2> QED  BY <2>2, <2>3
<1>2. ASSUME NEW t \in Sessions, pc'[t] = "scan"
      PROVE  ScanInv(t)'
  <2>1. /\ t # s /\ pc[t] = "scan" /\ glock' = glock /\ epoch'[t] = epoch[t]
        /\ scan'[t] = scan[t]
    BY <1>2 DEF PlainStep
  <2>2. ScanInv(t) /\ SessionInv(t)
    BY DEF EpochInv
  <2>3. scan[t].min \in Nat
    BY <1>0 DEF Scan
  <2>4. ASSUME NEW u \in Sessions, InTxn(u)'
        PROVE  Covered(t, u)'
    <3>1. CASE InTxn(u) /\ epoch'[u] = epoch[u]
      BY <2>1, <2>2, <3>1 DEF ScanInv, Covered
    <3>2. CASE epoch'[u] = csn
      BY <1>0, <2>1, <2>2, <2>3, <3>2 DEF ScanInv, Covered, SessionInv
    <3>3. u # s => InTxn(u) /\ epoch'[u] = epoch[u]
      BY <2>4 DEF PlainStep, InTxn
    <3>4. u = s => (InTxn(u) /\ epoch'[u] = epoch[u]) \/ epoch'[u] = csn
      BY <2>4 DEF PlainStep
    <3> QED  BY <3>1, <3>2, <3>3, <3>4
  <2> QED  BY <1>0, <2>1, <2>2, <2>3, <2>4 DEF ScanInv
<1>3. \A t \in Sessions : ScanInv(t)'
  BY <1>2 DEF ScanInv
<1>4. active' <= csn' /\ EpochTypes'
  BY <1>0 DEF PlainStep
<1> QED  BY <1>1, <1>3, <1>4 DEF EpochInv

-----------------------------------------------------------------------------
(* The steps of a transaction. *)

\* Snapshot, statements and writes.
LEMMA TransactionPlain ==
    ASSUME EpochInv, NEW s \in Sessions,
           \/ TakeSnapshot(s) \/ FindRow(s) \/ GcStartTxn(s)
           \/ NextStatement(s) \/ GcEndStatement(s)
           \/ \E o \in {"update", "delete"} : Write(s, o)
           \/ InsertNew(s) \/ InsertOnSentinel(s) \/ Rollback(s) \/ GcMaintenance(s)
    PROVE  PlainStep(s)
<1>0. EpochTypes /\ SessionInv(s)
  BY DEF EpochInv
<1>1. CASE TakeSnapshot(s)
  BY <1>0, <1>1 DEF TakeSnapshot, Goto, gcVars, PlainStep, EpochTypes, SessionInv, Starting,
                    InTxn, PC
<1>2. CASE FindRow(s)
  BY <1>0, <1>2 DEF FindRow, Goto, gcVars, PlainStep, EpochTypes, SessionInv, Starting,
                    InTxn, PC
<1>3. CASE GcStartTxn(s)
  BY <1>0, <1>3 DEF GcStartTxn, PublishedEpoch, Goto, gcVars, txnVars, PlainStep, EpochTypes,
                    SessionInv, Starting, InTxn, PC
<1>4. CASE NextStatement(s)
  BY <1>0, <1>4 DEF NextStatement, gcVars, PlainStep, EpochTypes, SessionInv, Starting,
                    InTxn, PC
<1>5. CASE GcEndStatement(s)
  BY <1>0, <1>5 DEF GcEndStatement, Goto, gcVars, PlainStep, EpochTypes, SessionInv, Starting,
                    InTxn, PC
<1>6. CASE \E o \in {"update", "delete"} : Write(s, o)
  BY <1>0, <1>6 DEF Write, gcVars, PlainStep, EpochTypes, SessionInv, Starting, InTxn
<1>7. CASE InsertNew(s)
  BY <1>0, <1>7 DEF InsertNew, gcVars, PlainStep, EpochTypes, SessionInv, Starting, InTxn
<1>8. CASE InsertOnSentinel(s)
  BY <1>0, <1>8 DEF InsertOnSentinel, gcVars, PlainStep, EpochTypes, SessionInv, Starting, InTxn
<1>9. CASE Rollback(s)
  <2>1. /\ Goto(s, "open", "end") /\ EndTxn(s) /\ csn' = csn /\ active' = active
        /\ glock' = glock /\ epoch' = epoch /\ scan' = scan
    BY <1>9 DEF Rollback, gcVars
  <2> QED  BY <1>0, <2>1 DEF EndTxn, Goto, PlainStep, EpochTypes, SessionInv, Starting, InTxn, PC
<1>10. CASE GcMaintenance(s)
  <2>1. /\ Goto(s, "committed", "end") /\ EndTxn(s) /\ csn' = csn /\ active' = active
        /\ glock' = glock /\ epoch' = epoch /\ scan' = scan
    BY <1>10 DEF GcMaintenance, gcVars
  <2> QED  BY <1>0, <2>1 DEF EndTxn, Goto, PlainStep, EpochTypes, SessionInv, Starting, InTxn, PC
<1> QED  BY <1>1, <1>2, <1>3, <1>4, <1>5, <1>6, <1>7, <1>8, <1>9, <1>10

\* A commit moves the CSN; nobody else is between its snapshot and its epoch then.
LEMMA CommitPlain ==
    ASSUME EpochInv, NEW s \in Sessions, Commit(s), MayStep(s), "epoch" \notin Delays
    PROVE  PlainStep(s)
<1>0. EpochTypes /\ SessionInv(s)
  BY DEF EpochInv
<1>1. \A t \in Sessions \ {s} : ~Starting(t)
  <2>1. "epoch" \in DOMAIN Window \ Delays /\ Window["epoch"] = {"snap", "found"}
    BY DEF Window
  <2> QED  BY <2>1 DEF MayStep, Starting
<1>2. /\ Goto(s, "open", "committed") /\ csn' = csn + 1 /\ active' = active /\ glock' = glock
      /\ epoch' = epoch /\ snap' = snap /\ scan' = scan
  BY DEF Commit, gcVars
<1> QED  BY <1>0, <1>1, <1>2 DEF Goto, PlainStep, EpochTypes, SessionInv, Starting, InTxn, PC

-----------------------------------------------------------------------------
(* The steps of the collector. *)

\* The steps that only move from queue to queue and destroy elements: s is outside any
\* transaction and publishes the current CSN, nothing, or what it had.
LEMMA CleaningPlain ==
    ASSUME EpochInv, NEW s \in Sessions, NEW next,
           pc[s] \notin {"scan", "open", "committed"}, next \in PC,
           next \notin {"scan", "snap", "found", "open", "committed"},
           pc' = [pc EXCEPT ![s] = next],
           csn' = csn, active' = active, glock' = glock, snap' = snap,
           scan' = scan \/ \E r \in Scan : scan' = [scan EXCEPT ![s] = r],
           epoch' = epoch \/ \E e \in {0, csn} : epoch' = [epoch EXCEPT ![s] = e]
    PROVE  PlainStep(s)
<1>0. EpochTypes /\ SessionInv(s)
  BY DEF EpochInv
<1>1. scan' \in [Sessions -> Scan] /\ \A t \in Sessions : t # s => scan'[t] = scan[t]
  BY <1>0 DEF EpochTypes
<1>2. /\ epoch' \in [Sessions -> Nat] /\ \A t \in Sessions : t # s => epoch'[t] = epoch[t]
      /\ epoch'[s] <= csn'
  BY <1>0 DEF EpochTypes, SessionInv
<1>3. pc' \in [Sessions -> PC] /\ pc'[s] = next /\ \A t \in Sessions : t # s => pc'[t] = pc[t]
  BY <1>0 DEF EpochTypes
<1> QED  BY <1>0, <1>1, <1>2, <1>3 DEF PlainStep, EpochTypes, SessionInv, Starting, InTxn

\* Begin and end of the loop over the queues.
LEMMA QueuePlain ==
    ASSUME EpochInv, NEW s \in Sessions,
           \/ SkipQuiesce(s) \/ RunQuicese(s) \/ GcCleanAll(s) \/ PassQueue(s)
           \/ AddToGcList(s) \/ RemoveFromGcList(s) \/ CleanWithKnown(s)
           \/ SetActiveEpochBusy(s) \/ LeaveQueue(s)
    PROVE  PlainStep(s)
<1>0. EpochTypes
  BY DEF EpochInv
<1>1. CASE SkipQuiesce(s)
  BY <1>1, CleaningPlain DEF SkipQuiesce, Goto, PC, gcVars, txnVars
<1>2. CASE RunQuicese(s) \/ GcCleanAll(s)
  BY <1>2, CleaningPlain DEF RunQuicese, GcCleanAll, StartCleaning, Goto, PC, txnVars
<1>3. CASE AddToGcList(s) \/ RemoveFromGcList(s)
  BY <1>3, CleaningPlain DEF AddToGcList, RemoveFromGcList, ChangeGcList, Goto, PC, gcVars,
                             txnVars
<1>4. CASE CleanWithKnown(s)
  BY <1>4, CleaningPlain DEF CleanWithKnown, Goto, PC, txnVars
<1>5. CASE SetActiveEpochBusy(s)
  <2>1. [NoScan EXCEPT !.others = TRUE] \in Scan
    BY DEF NoScan, Scan
  <2> QED  BY <1>5, <2>1, CleaningPlain DEF SetActiveEpochBusy, Goto, PC, txnVars
<1>6. ASSUME NextQueue(s)
      PROVE  /\ \E next \in {"queue", "remove", "idle"} : pc' = [pc EXCEPT ![s] = next]
             /\ epoch' = epoch \/ \E e \in {0, csn} : epoch' = [epoch EXCEPT ![s] = e]
  <2>1. epoch = [epoch EXCEPT ![s] = epoch[s]]
    BY <1>0 DEF EpochTypes
  <2> QED  BY <1>6, <2>1 DEF NextQueue
<1>7. CASE PassQueue(s)
  <2>1. NextQueue(s) /\ pc[s] = "queue" /\ csn' = csn /\ active' = active /\ glock' = glock
        /\ snap' = snap /\ scan' = scan
    BY <1>7 DEF PassQueue, txnVars
  <2> QED  BY <1>6, <2>1, CleaningPlain DEF PC
<1>8. CASE LeaveQueue(s)
  <2>1. pc[s] = "clean" /\ csn' = csn /\ active' = active /\ glock' = glock
        /\ snap' = snap /\ scan' = scan
    BY <1>8 DEF LeaveQueue, txnVars
  <2>2. /\ \E next \in {"queue", "remove", "idle"} : pc' = [pc EXCEPT ![s] = next]
        /\ epoch' = epoch \/ \E e \in {0, csn} : epoch' = [epoch EXCEPT ![s] = e]
    BY <1>6, <1>8 DEF LeaveQueue
  <2> QED  BY <2>1, <2>2, CleaningPlain DEF PC
<1> QED  BY <1>1, <1>2, <1>3, <1>4, <1>5, <1>7, <1>8

\* The destruction of elements.
LEMMA DestroyPlain ==
    ASSUME EpochInv, NEW s \in Sessions,
           SetPerformGcEpoch(s) \/ CleanElement(s) \/ SkipDtor(s) \/ Dtor(s)
    PROVE  PlainStep(s)
<1>0. EpochTypes
  BY DEF EpochInv
<1>1. CASE SetPerformGcEpoch(s)
  <2>1. NoScan \in Scan
    BY DEF NoScan, Scan
  <2> QED  BY <1>1, <2>1, CleaningPlain DEF SetPerformGcEpoch, Goto, PC, txnVars
<1>2. CASE CleanElement(s)
  <2>1. pc = [pc EXCEPT ![s] = pc[s]]
    BY <1>0 DEF EpochTypes
  <2>2. /\ pc[s] = "clean" /\ \E next \in {"clean", "dtor"} : pc' = [pc EXCEPT ![s] = next]
        /\ csn' = csn /\ active' = active /\ glock' = glock /\ snap' = snap /\ scan' = scan
        /\ epoch' = epoch
    BY <1>2, <2>1 DEF CleanElement, txnVars
  <2> QED  BY <2>2, CleaningPlain DEF PC
<1>3. CASE SkipDtor(s)
  BY <1>3, CleaningPlain DEF SkipDtor, Goto, PC, txnVars
<1>4. CASE Dtor(s)
  BY <1>4, CleaningPlain DEF Dtor, Goto, PC, txnVars
<1> QED  BY <1>1, <1>2, <1>3, <1>4

\* The scan begins: every session of the list is still to be visited, and there is
\* no minimum yet.
LEMMA SetActiveEpochEpoch ==
    ASSUME EpochInv, NEW s \in Sessions, SetActiveEpoch(s)
    PROVE  EpochInv'
<1> DEFINE r == [left |-> {t \in Sessions : pc[t] # "closed"}, min |-> 0, others |-> FALSE]
<1>0. /\ EpochTypes /\ \A t \in Sessions : SessionInv(t) /\ ScanInv(t)
      /\ active <= csn
  BY DEF EpochInv
<1>1. /\ pc[s] = "queue" /\ pc' = [pc EXCEPT ![s] = "scan"] /\ glock = Nobody /\ glock' = s
      /\ epoch' = [epoch EXCEPT ![s] = csn] /\ scan' = [scan EXCEPT ![s] = r]
      /\ csn' = csn /\ active' = active /\ snap' = snap
  BY DEF SetActiveEpoch, Goto, txnVars
<1>2. r \in Scan /\ r.min = 0 /\ \A t \in Sessions : t \in r.left <=> pc[t] # "closed"
  BY DEF Scan
<1> HIDE DEF r
<1>3. EpochTypes'
  BY <1>0, <1>1, <1>2 DEF EpochTypes, PC
<1>4. /\ epoch'[s] = csn /\ scan'[s] = r /\ pc'[s] = "scan"
      /\ \A t \in Sessions : t # s => pc'[t] = pc[t] /\ epoch'[t] = epoch[t]
                                      /\ scan'[t] = scan[t]
  BY <1>0, <1>1 DEF EpochTypes
<1>5. ASSUME NEW t \in Sessions
      PROVE  SessionInv(t)'
  <2>1. CASE t = s
    BY <1>0, <1>1, <1>4, <2>1 DEF SessionInv, Starting, InTxn, EpochTypes
  <2>2. CASE t # s
    BY <1>0, <1>1, <1>4, <2>2 DEF SessionInv, Starting, InTxn
  <2> QED  BY <2>1, <2>2
<1>6. ASSUME NEW t \in Sessions
      PROVE  ScanInv(t)'
  <2>1. CASE t = s
    <3>1. ASSUME NEW u \in Sessions, InTxn(u)'
          PROVE  Covered(s, u)'
      <4>1. u # s /\ pc[u] # "closed"
        BY <1>4, <3>1 DEF InTxn
      <4> QED  BY <1>2, <1>4, <4>1 DEF Covered
    <3>2. s \in r.left
      BY <1>1, <1>2
    <3> QED  BY <1>0, <1>1, <1>2, <1>4, <2>1, <3>1, <3>2 DEF ScanInv, EpochTypes
  <2>2. CASE t # s
    <3>1. pc[t] # "scan"
      BY <1>0, <1>1, GcAssumption DEF ScanInv
    <3> QED  BY <1>4, <2>2, <3>1 DEF ScanInv
  <2> QED  BY <2>1, <2>2
<1> QED  BY <1>0, <1>1, <1>3, <1>5, <1>6 DEF EpochInv

\* The scan visits one session.
LEMMA VisitManagerEpoch ==
    ASSUME EpochInv, NEW s \in Sessions, NEW t \in Sessions, VisitManager(s, t)
    PROVE  EpochInv'
<1> DEFINE o == scan[s]
           m == IF epoch[t] = 0 THEN o.min ELSE LowerEpoch(o.min, epoch[t])
           b == o.others \/ (epoch[t] # 0 /\ t # s)
           r == [left |-> o.left \ {t}, min |-> m, others |-> b]
<1>0. /\ EpochTypes /\ \A u \in Sessions : SessionInv(u) /\ ScanInv(u)
      /\ active <= csn
  BY DEF EpochInv
<1>1. /\ pc[s] = "scan" /\ pc' = pc /\ glock' = glock /\ t \in o.left
      /\ epoch' = epoch /\ scan' = [scan EXCEPT ![s] = r]
      /\ csn' = csn /\ active' = active /\ snap' = snap
  BY DEF VisitManager, txnVars
<1>2. o \in Scan /\ o.min \in Nat /\ o.left \subseteq Sessions
  BY <1>0 DEF EpochTypes, Scan
<1>3. \A u \in Sessions : epoch[u] \in Nat /\ epoch[u] <= csn /\ csn \in Nat
  BY <1>0 DEF EpochTypes, SessionInv
<1>4. /\ m \in Nat
      /\ epoch[t] # 0 => m # 0 /\ m <= epoch[t]
      /\ o.min # 0 => m # 0 /\ m <= o.min
      /\ m = o.min \/ m = epoch[t]
  BY <1>2, <1>3 DEF LowerEpoch
<1>5. b \in BOOLEAN
  OBVIOUS
<1> HIDE DEF m, b
<1>6. r \in Scan /\ r.min = m /\ r.left = o.left \ {t}
  <2>1. m \in Nat
    BY <1>2, <1>3 DEF m, LowerEpoch
  <2> QED  BY <1>2, <1>5, <2>1 DEF Scan
<1> HIDE DEF r, o
<1>7. EpochTypes'
  BY <1>0, <1>1, <1>6 DEF EpochTypes
<1>8. scan'[s] = r /\ \A u \in Sessions : u # s => scan'[u] = scan[u]
  BY <1>0, <1>1 DEF EpochTypes
<1>9. \A u \in Sessions : SessionInv(u)'
  BY <1>0, <1>1 DEF SessionInv, Starting, InTxn
<1>10. ScanInv(s)'
  <2>1. /\ glock = s /\ epoch[s] # 0 /\ o.min <= csn
        /\ s \in o.left \/ o.min # 0
        /\ \A u \in Sessions : InTxn(u) => Covered(s, u)
    BY <1>0, <1>1 DEF ScanInv, o
  <2>2. m <= csn
    BY <1>2, <1>3, <1>4, <2>1
  <2>3. s \in r.left \/ m # 0
    BY <1>2, <1>3, <1>4, <1>6, <2>1
  <2>4. ASSUME NEW u \in Sessions, InTxn(u)
        PROVE  \/ u \in r.left
               \/ m # 0 /\ m <= epoch[u]
               \/ s \in r.left /\ epoch[s] <= epoch[u]
    <3>0. m \in Nat
      BY <1>2, <1>3 DEF m, LowerEpoch
    <3>1. \/ u \in o.left
          \/ o.min # 0 /\ o.min <= epoch[u]
          \/ s \in o.left /\ epoch[s] <= epoch[u]
      BY <2>1, <2>4 DEF Covered, o
    <3>2. CASE o.min # 0 /\ o.min <= epoch[u]
      BY <1>2, <1>3, <1>4, <3>0, <3>2
    <3>3. CASE s \in o.left /\ epoch[s] <= epoch[u]
      BY <1>3, <1>4, <1>6, <2>1, <3>0, <3>3
    <3>4. CASE u \in o.left /\ u # t
      BY <1>6, <3>4
    <3>5. CASE u = t
      <4>1. CASE epoch[t] # 0
        BY <1>4, <3>5, <4>1
      <4>2. CASE epoch[t] = 0
        BY <1>0, <2>4, <3>5, <4>2 DEF SessionInv
      <4> QED  BY <4>1, <4>2
    <3> QED  BY <3>1, <3>2, <3>3, <3>4, <3>5
  <2> QED  BY <1>1, <1>6, <1>8, <2>1, <2>2, <2>3, <2>4 DEF ScanInv, Covered, InTxn
<1>11. ASSUME NEW u \in Sessions, u # s
       PROVE  ScanInv(u)'
  BY <1>0, <1>1, <1>8, <1>11 DEF ScanInv, Covered, InTxn
<1> QED  BY <1>0, <1>1, <1>7, <1>9, <1>10, <1>11 DEF EpochInv

\* The scan is over: its minimum is not after the epoch of any session in a transaction.
LEMMA PublishMinimumEpoch ==
    ASSUME EpochInv, NEW s \in Sessions, PublishMinimum(s)
    PROVE  EpochInv'
<1>0. /\ EpochTypes /\ \A u \in Sessions : SessionInv(u) /\ ScanInv(u)
      /\ active <= csn
  BY DEF EpochInv
<1>1. /\ pc[s] = "scan" /\ pc' = [pc EXCEPT ![s] = "perform"] /\ scan[s].left = {}
      /\ active' = (IF scan[s].min = 0 THEN csn ELSE scan[s].min)
      /\ epoch' = epoch /\ scan' = scan /\ csn' = csn /\ snap' = snap
  BY DEF PublishMinimum, Goto, txnVars, gcVars
<1>2. scan[s].min \in Nat /\ csn \in Nat
  BY <1>0 DEF EpochTypes, Scan
<1>3. /\ scan[s].min # 0 /\ scan[s].min <= csn /\ glock = s
      /\ \A u \in Sessions : InTxn(u) => scan[s].min <= epoch[u]
  BY <1>0, <1>1 DEF ScanInv, Covered
<1>4. active' = scan[s].min
  BY <1>1, <1>3
<1>5. EpochTypes'
  BY <1>0, <1>1, <1>2, <1>4 DEF EpochTypes, PC
<1>6. pc'[s] = "perform" /\ \A u \in Sessions : u # s => pc'[u] = pc[u]
  BY <1>0, <1>1 DEF EpochTypes
<1>7. ASSUME NEW u \in Sessions
      PROVE  SessionInv(u)' /\ ScanInv(u)'
  <2>1. InTxn(u)' => InTxn(u)
    BY <1>6 DEF InTxn
  <2>2. Starting(u)' => Starting(u)
    BY <1>6 DEF Starting
  <2>3. SessionInv(u)'
    BY <1>0, <1>1, <1>3, <1>4, <2>1, <2>2 DEF SessionInv
  <2>4. pc'[u] # "scan"
    BY <1>0, <1>3, <1>6 DEF ScanInv
  <2> QED  BY <2>3, <2>4 DEF ScanInv
<1> QED  BY <1>1, <1>3, <1>4, <1>5, <1>7 DEF EpochInv

-----------------------------------------------------------------------------
\* Every step keeps the invariant.
LEMMA NextEpoch ==
    ASSUME EpochInv, [Next]_vars, "epoch" \notin Delays
    PROVE  EpochInv'
<1>1. CASE UNCHANGED vars
  BY <1>1 DEF EpochInv, EpochTypes, SessionInv, ScanInv, Covered, Starting, InTxn, vars,
              txnVars, gcVars
<1>2. ASSUME NEW s \in Sessions, MayStep(s),
             AddToGcList(s) \/ GcCleanAll(s) \/ Transaction(s) \/ Collector(s)
      PROVE  EpochInv'
  <2>1. CASE \E t \in Sessions : VisitManager(s, t)
    BY <2>1, VisitManagerEpoch
  <2>2. CASE PlainStep(s)
    BY <2>2, PlainStepKeeps
  <2> QED  BY <1>2, <2>1, <2>2, TransactionPlain, CommitPlain, QueuePlain, DestroyPlain,
              SetActiveEpochEpoch, PublishMinimumEpoch
           DEF Transaction, Collector
<1> QED  BY <1>1, <1>2 DEF Next

\* The minimum of the epochs is a barrier, for any number of sessions: it never passes
\* the epoch of a session in a transaction, nor that epoch the snapshot the session
\* reads with (GcStartTxn and MinActiveEpoch of other sessions), as long as no thread is
\* delayed between its snapshot and its epoch.
THEOREM EpochIsBarrier == "epoch" \notin Delays /\ Spec => []EpochBarrier
<1>1. EpochInv => EpochBarrier
  BY DEF EpochInv, SessionInv, EpochBarrier
<1>2. ASSUME "epoch" \notin Delays
      PROVE  Spec => []EpochInv
  <2>1. EpochInv /\ [Next]_vars => EpochInv'
    BY <1>2, NextEpoch
  <2> QED  BY <2>1, InitEpoch, PTL DEF Spec
<1>3. ASSUME "epoch" \notin Delays
      PROVE  Spec => []EpochBarrier
  BY <1>1, <1>2, <1>3, PTL
<1> QED  BY <1>3

-----------------------------------------------------------------------------
(* Numbers, sequences and the places of a family of lists. *)

\* A relation that contains < on S and has a minimal element in S has a least one.
LEMMA LeastOf ==
    ASSUME NEW S \in SUBSET Nat, NEW R, \A x, y \in Nat : x < y => <<x, y>> \in R,
           \E x \in S : \A y \in S : ~(<<y, x>> \in R)
    PROVE  \E x \in S : \A y \in S : x <= y
<1>1. PICK x \in S : \A y \in S : ~(<<y, x>> \in R)
  OBVIOUS
<1>2. ASSUME NEW y \in S
      PROVE  x <= y
  <2>1. x \in Nat /\ y \in Nat /\ ~(y < x)
    BY <1>1
  <2> QED  BY <2>1
<1> QED  BY <1>2

\* A set of naturals has a least element.
LEMMA Least ==
    ASSUME NEW S \in SUBSET Nat, S # {}
    PROVE  \E x \in S : \A y \in S : x <= y
<1>1. \E x \in S : \A y \in S : ~(<<y, x>> \in OpToRel(<, Nat))
  BY NatLessThanWellFounded, WFMin
<1>2. \A x, y \in Nat : x < y => <<x, y>> \in OpToRel(<, Nat)
  BY DEF OpToRel
<1> QED  BY <1>1, <1>2, LeastOf

\* NewestOf is the newest of a set of rows, 0 if there is none.
LEMMA NewestIs ==
    ASSUME NEW S \in SUBSET Csn
    PROVE  /\ NewestOf(S) \in 0..MaxCsn
           /\ NewestOf(S) = 0 <=> S = {}
           /\ S # {} => NewestOf(S) \in S
           /\ \A r \in S : r <= NewestOf(S)
<1>0. MaxCsn \in Nat /\ \A r \in S : r \in 1..MaxCsn
  BY GcAssumption DEF Csn
<1>1. CASE S = {}
  BY <1>0, <1>1 DEF NewestOf
<1>2. CASE S # {}
  <2> DEFINE T == {n \in Nat : \E r \in S : n = MaxCsn - r}
  <2>1. T \in SUBSET Nat /\ T # {}
    <3>1. PICK r \in S : TRUE
      BY <1>2
    <3>2. MaxCsn - r \in T
      BY <1>0, <3>1
    <3> QED  BY <3>2
  <2> HIDE DEF T
  <2>2. PICK n \in T : \A m \in T : n <= m
    BY <2>1, Least
  <2>3. PICK x \in S : n = MaxCsn - x
    BY DEF T
  <2>4. ASSUME NEW y \in S
        PROVE  x >= y
    <3>1. MaxCsn - y \in T
      BY <1>0 DEF T
    <3> QED  BY <1>0, <2>2, <2>3, <3>1
  <2>5. Max(S) \in S /\ \A r \in S : Max(S) >= r
    BY <2>4 DEF Max
  <2>6. NewestOf(S) = Max(S)
    BY <1>2 DEF NewestOf
  <2> QED  BY <1>0, <1>2, <2>5, <2>6
<1> QED  BY <1>1, <1>2

\* The largest element of a set of rows is NewestOf.
LEMMA NewestEq ==
    ASSUME NEW S \in SUBSET Csn, NEW r \in S, \A q \in S : q <= r
    PROVE  NewestOf(S) = r
<1>1. r \in Nat /\ NewestOf(S) \in Nat /\ r <= NewestOf(S) /\ NewestOf(S) \in S
  BY NewestIs, GcAssumption DEF Csn
<1> QED  BY <1>1

\* What is in a sequence after Append, Tail and \o.
LEMMA RangeAppend ==
    ASSUME NEW S, NEW l \in Seq(S), NEW e \in S
    PROVE  Range(Append(l, e)) = Range(l) \cup {e}
<1>1. /\ DOMAIN Append(l, e) = 1..Len(l) + 1 /\ DOMAIN l = 1..Len(l) /\ Len(l) \in Nat
      /\ \A i \in 1..Len(l) : Append(l, e)[i] = l[i]
      /\ Append(l, e)[Len(l) + 1] = e
  OBVIOUS
<1>2. Range(l) \cup {e} \subseteq Range(Append(l, e))
  BY <1>1 DEF Range
<1>3. ASSUME NEW i \in 1..Len(l) + 1
      PROVE  Append(l, e)[i] \in Range(l) \cup {e}
  BY <1>1 DEF Range
<1> QED  BY <1>1, <1>2, <1>3 DEF Range

LEMMA RangeTail ==
    ASSUME NEW S, NEW l \in Seq(S), l # <<>>
    PROVE  /\ Head(l) \in S /\ Head(l) \in Range(l) /\ Head(l) = l[1] /\ 1 \in DOMAIN l
           /\ Range(Tail(l)) \subseteq Range(l)
           /\ Range(l) \subseteq Range(Tail(l)) \cup {Head(l)}
           /\ \A i \in DOMAIN l : i = 1 \/ l[i] \in Range(Tail(l))
<1>1. /\ DOMAIN Tail(l) = 1..Len(l) - 1 /\ DOMAIN l = 1..Len(l) /\ Len(l) \in Nat \ {0}
      /\ \A i \in 1..Len(l) - 1 : Tail(l)[i] = l[i + 1]
      /\ Head(l) = l[1]
  OBVIOUS
<1>2. ASSUME NEW i \in 1..Len(l), i # 1
      PROVE  l[i] \in Range(Tail(l))
  <2>1. i - 1 \in 1..Len(l) - 1 /\ Tail(l)[i - 1] = l[i]
    BY <1>1, <1>2
  <2> QED  BY <1>1, <2>1 DEF Range
<1>3. Range(Tail(l)) \subseteq Range(l)
  BY <1>1 DEF Range
<1>4. 1 \in DOMAIN l /\ Head(l) \in Range(l) /\ Head(l) \in S
  BY <1>1 DEF Range
<1> QED  BY <1>1, <1>2, <1>3, <1>4 DEF Range

LEMMA RangeConcat ==
    ASSUME NEW S, NEW l \in Seq(S), NEW m \in Seq(S)
    PROVE  l \o m \in Seq(S) /\ Range(l \o m) = Range(l) \cup Range(m)
<1>1. /\ DOMAIN (l \o m) = 1..Len(l) + Len(m) /\ DOMAIN l = 1..Len(l) /\ DOMAIN m = 1..Len(m)
      /\ Len(l) \in Nat /\ Len(m) \in Nat
      /\ \A i \in 1..Len(l) : (l \o m)[i] = l[i]
      /\ \A i \in 1..Len(m) : (l \o m)[Len(l) + i] = m[i]
  OBVIOUS
<1>2. ASSUME NEW i \in 1..Len(l) + Len(m)
      PROVE  (l \o m)[i] \in Range(l) \cup Range(m)
  <2>1. CASE i \in 1..Len(l)
    BY <1>1, <2>1 DEF Range
  <2>2. CASE i \notin 1..Len(l)
    <3>1. i - Len(l) \in 1..Len(m) /\ (l \o m)[Len(l) + (i - Len(l))] = m[i - Len(l)]
      BY <1>1, <2>2
    <3>2. Len(l) + (i - Len(l)) = i
      BY <1>1
    <3> QED  BY <1>1, <3>1, <3>2 DEF Range
  <2> QED  BY <2>1, <2>2
<1>3. Range(l) \cup Range(m) \subseteq Range(l \o m)
  <2>1. \A i \in 1..Len(l) : i \in DOMAIN (l \o m)
    BY <1>1
  <2>2. \A i \in 1..Len(m) : Len(l) + i \in DOMAIN (l \o m)
    BY <1>1
  <2> QED  BY <1>1, <2>1, <2>2 DEF Range
<1>4. Range(l \o m) \subseteq Range(l) \cup Range(m)
  BY <1>1, <1>2 DEF Range
<1>5. l \o m \in Seq(S)
  OBVIOUS
<1> QED  BY <1>3, <1>4, <1>5

\* A place is a list and a position in it.
LEMMA PlaceIs ==
    ASSUME NEW K, NEW S, NEW F \in [K -> Seq(S)], NEW x, NEW p
    PROVE  p \in Places(F, x) <=> \E k \in K : \E i \in 1..Len(F[k]) : p = <<k, i>> /\ F[k][i] = x
<1>1. \A k \in K : DOMAIN F[k] = 1..Len(F[k]) /\ DOMAIN F = K
  OBVIOUS
<1>2. ASSUME NEW k \in K, NEW i \in 1..Len(F[k])
      PROVE  <<k, i>> \in Places(F, x) <=> F[k][i] = x
  <2>1. <<k, i>> \in {k} \X DOMAIN F[k]
    BY <1>1
  <2>2. <<k, i>> \in UNION {{j} \X DOMAIN F[j] : j \in DOMAIN F}
    BY <1>1, <2>1
  <2> QED  BY <2>2 DEF Places
<1>3. ASSUME p \in Places(F, x)
      PROVE  \E k \in K : \E i \in 1..Len(F[k]) : p = <<k, i>> /\ F[k][i] = x
  <2>1. p \in UNION {{j} \X DOMAIN F[j] : j \in DOMAIN F} /\ F[p[1]][p[2]] = x
    BY <1>3 DEF Places
  <2>2. PICK k \in K : p \in {k} \X DOMAIN F[k]
    BY <1>1, <2>1
  <2>3. PICK i \in 1..Len(F[k]) : p = <<k, i>>
    BY <1>1, <2>2
  <2> QED  BY <2>1, <2>3
<1> QED  BY <1>2, <1>3

LEMMA PlaceAt ==
    ASSUME NEW K, NEW S, NEW F \in [K -> Seq(S)], NEW x, NEW k \in K, NEW i \in 1..Len(F[k])
    PROVE  <<k, i>> \in Places(F, x) <=> F[k][i] = x
<1>1. \A j \in K : \A h \in 1..Len(F[j]) : <<k, i>> = <<j, h>> => j = k /\ h = i
  OBVIOUS
<1> QED  BY <1>1, PlaceIs

\* There are finitely many places.
LEMMA PlacesFinite ==
    ASSUME NEW K, IsFiniteSet(K), NEW S, NEW F \in [K -> Seq(S)], NEW x
    PROVE  IsFiniteSet(Places(F, x)) /\ Cardinality(Places(F, x)) \in Nat
<1> DEFINE f == [k \in K |-> {k} \X DOMAIN F[k]]
           T == {{k} \X DOMAIN F[k] : k \in DOMAIN F}
<1>1. DOMAIN F = K /\ \A k \in K : DOMAIN F[k] = 1..Len(F[k]) /\ Len(F[k]) \in Nat
  OBVIOUS
<1>2. f \in Surjection(K, T)
  BY <1>1 DEF Surjection
<1>3. IsFiniteSet(T)
  BY <1>2, FS_Surjection
<1>4. ASSUME NEW k \in K
      PROVE  IsFiniteSet({k} \X DOMAIN F[k])
  <2>1. IsFiniteSet({k})
    BY FS_Singleton
  <2>2. Len(F[k]) \in Int /\ 1 \in Int
    BY <1>1
  <2>3. IsFiniteSet(1..Len(F[k]))
    BY <2>2, FS_Interval
  <2> QED  BY <1>1, <2>1, <2>3, FS_Product
<1>5. \A U \in T : IsFiniteSet(U)
  BY <1>1, <1>4
<1>6. IsFiniteSet(UNION T)
  BY <1>3, <1>5, FS_UNION
<1>7. Places(F, x) \in SUBSET UNION T
  BY DEF Places
<1>8. IsFiniteSet(Places(F, x))
  BY <1>6, <1>7, FS_Subset
<1> QED  BY <1>8, FS_CardinalityType

\* The family of lists G is F with y appended to list k.
Longer(K, S, F, G, k, y) ==
    /\ IsFiniteSet(K) /\ F \in [K -> Seq(S)] /\ G \in [K -> Seq(S)] /\ k \in K /\ y \in S
    /\ G[k] = Append(F[k], y) /\ \A j \in K \ {k} : G[j] = F[j]

\* It has one place more for y.
LEMMA PlacesAppend ==
    ASSUME NEW K, NEW S, NEW F, NEW G, NEW k, NEW y, Longer(K, S, F, G, k, y), NEW x
    PROVE  Cardinality(Places(G, x)) = Cardinality(Places(F, x)) + (IF x = y THEN 1 ELSE 0)
<1> USE DEF Longer
<1> DEFINE n == Len(F[k])
<1>1. /\ n \in Nat /\ Len(G[k]) = n + 1 /\ G[k][n + 1] = y
      /\ \A i \in 1..n : G[k][i] = F[k][i]
  OBVIOUS
<1> HIDE DEF n
<1>2. <<k, n + 1>> \notin Places(F, x)
  <2>1. ASSUME NEW j \in K, NEW i \in 1..Len(F[j]), <<k, n + 1>> = <<j, i>>
        PROVE  FALSE
    BY <1>1, <2>1 DEF n
  <2> QED  BY <2>1, PlaceIs
<1>3. ASSUME NEW p, p \in Places(F, x)
      PROVE  p \in Places(G, x)
  <2>0. PICK j \in K : \E i \in 1..Len(F[j]) : p = <<j, i>> /\ F[j][i] = x
    BY <1>3, PlaceIs
  <2>1. PICK i \in 1..Len(F[j]) : p = <<j, i>> /\ F[j][i] = x
    BY <2>0
  <2>2. i \in 1..Len(G[j]) /\ G[j][i] = F[j][i]
    <3>1. CASE j = k
      <4>1. i \in 1..n
        BY <2>1, <3>1 DEF n
      <4> QED  BY <1>1, <3>1, <4>1
    <3>2. CASE j # k
      BY <3>2
    <3> QED  BY <3>1, <3>2
  <2> QED  BY <2>1, <2>2, PlaceIs
<1>4. ASSUME NEW p, p \in Places(G, x)
      PROVE  p \in Places(F, x) \/ (p = <<k, n + 1>> /\ x = y)
  <2>0. PICK j \in K : \E i \in 1..Len(G[j]) : p = <<j, i>> /\ G[j][i] = x
    BY <1>4, PlaceIs
  <2>1. PICK i \in 1..Len(G[j]) : p = <<j, i>> /\ G[j][i] = x
    BY <2>0
  <2>2. CASE j = k /\ i = n + 1
    BY <1>1, <2>1, <2>2
  <2>3. CASE ~(j = k /\ i = n + 1)
    <3>1. i \in 1..Len(F[j]) /\ G[j][i] = F[j][i]
      <4>1. CASE j = k
        <5>1. i \in 1..n
          BY <1>1, <2>3, <4>1
        <5> QED  BY <1>1, <4>1, <5>1 DEF n
      <4>2. CASE j # k
        BY <4>2
      <4> QED  BY <4>1, <4>2
    <3> QED  BY <2>1, <3>1, PlaceIs
  <2> QED  BY <2>2, <2>3
<1>5. IsFiniteSet(Places(F, x)) /\ Cardinality(Places(F, x)) \in Nat
  BY PlacesFinite
<1>6. CASE x = y
  <2>1. <<k, n + 1>> \in Places(G, x)
    <3>1. n + 1 \in 1..Len(G[k])
      BY <1>1
    <3> QED  BY <1>1, <1>6, <3>1, PlaceIs
  <2>2. Places(G, x) = Places(F, x) \cup {<<k, n + 1>>}
    BY <1>3, <1>4, <2>1
  <2>3. Cardinality(Places(G, x)) = Cardinality(Places(F, x)) + 1
    <3> HIDE DEF Longer
    <3> QED  BY <1>2, <1>5, <2>2, FS_AddElement
  <2> QED  BY <1>6, <2>3
<1>7. CASE x # y
  <2>1. Places(G, x) = Places(F, x)
    BY <1>3, <1>4, <1>7
  <2> QED  BY <1>5, <1>7, <2>1
<1> QED  BY <1>6, <1>7

\* List k of F has lost its head in G.
Shorter(K, S, F, G, k) ==
    /\ IsFiniteSet(K) /\ F \in [K -> Seq(S)] /\ G \in [K -> Seq(S)] /\ k \in K
    /\ F[k] # <<>> /\ G[k] = Tail(F[k]) /\ \A j \in K \ {k} : G[j] = F[j]

\* There is one place less for that.
LEMMA PlacesTail ==
    ASSUME NEW K, NEW S, NEW F, NEW G, NEW k, Shorter(K, S, F, G, k), NEW x
    PROVE  Cardinality(Places(G, x)) =
             Cardinality(Places(F, x)) - (IF x = F[k][1] THEN 1 ELSE 0)
<1> USE DEF Shorter
<1> DEFINE n == Len(F[k])
           D == Places(F, x) \ {<<k, 1>>}
           f == [p \in D |-> IF p[1] = k THEN <<k, p[2] - 1>> ELSE p]
<1>1. /\ n \in Nat \ {0} /\ Len(G[k]) = n - 1
      /\ \A i \in 1..n - 1 : G[k][i] = F[k][i + 1]
  OBVIOUS
<1> HIDE DEF n
<1>2. ASSUME NEW p \in D
      PROVE  \E j \in K : \E i \in 1..Len(F[j]) :
                p = <<j, i>> /\ F[j][i] = x /\ (j = k => i \in 2..n /\ i - 1 \in 1..n - 1)
  <2>0. PICK j \in K : \E i \in 1..Len(F[j]) : p = <<j, i>> /\ F[j][i] = x
    BY <1>2, PlaceIs
  <2>1. PICK i \in 1..Len(F[j]) : p = <<j, i>> /\ F[j][i] = x
    BY <2>0
  <2>2. j = k => i # 1
    BY <1>2, <2>1
  <2>3. j = k => i \in 2..n /\ i - 1 \in 1..n - 1
    BY <1>1, <2>2 DEF n
  <2> QED  BY <2>1, <2>3
<1>3. ASSUME NEW p \in D
      PROVE  f[p] \in Places(G, x)
  <2>0. PICK j \in K : \E i \in 1..Len(F[j]) :
                p = <<j, i>> /\ F[j][i] = x /\ (j = k => i \in 2..n /\ i - 1 \in 1..n - 1)
    BY <1>2
  <2>1. PICK i \in 1..Len(F[j]) :
                p = <<j, i>> /\ F[j][i] = x /\ (j = k => i \in 2..n /\ i - 1 \in 1..n - 1)
    BY <2>0
  <2>2. CASE j = k
    <3>1. i - 1 \in 1..n - 1 /\ (i - 1) + 1 = i
      BY <2>1, <2>2
    <3>2. i - 1 \in 1..Len(G[k]) /\ G[k][i - 1] = x
      BY <1>1, <2>1, <2>2, <3>1
    <3>3. f[p] = <<k, i - 1>>
      BY <2>1, <2>2
    <3>4. <<k, i - 1>> \in Places(G, x)
      BY <3>2, PlaceAt
    <3> QED  BY <3>3, <3>4
  <2>3. CASE j # k
    <3>1. f[p] = <<j, i>> /\ i \in 1..Len(G[j]) /\ G[j][i] = x
      BY <2>1, <2>3
    <3>2. <<j, i>> \in Places(G, x)
      BY <3>1, PlaceAt
    <3> QED  BY <3>1, <3>2
  <2> QED  BY <2>2, <2>3
<1>4. ASSUME NEW p \in D, NEW r \in D, f[p] = f[r]
      PROVE  p = r
  <2>0. PICK j \in K : \E i \in 1..Len(F[j]) : p = <<j, i>> /\ i \in Int
    BY <1>2
  <2>1. PICK i \in 1..Len(F[j]) : p = <<j, i>> /\ i \in Int
    BY <2>0
  <2>2. PICK jj \in K : \E ii \in 1..Len(F[jj]) : r = <<jj, ii>> /\ ii \in Int
    BY <1>2
  <2>3. PICK ii \in 1..Len(F[jj]) : r = <<jj, ii>> /\ ii \in Int
    BY <2>2
  <2>4. /\ f[p] = IF j = k THEN <<k, i - 1>> ELSE <<j, i>>
        /\ f[r] = IF jj = k THEN <<k, ii - 1>> ELSE <<jj, ii>>
    BY <2>1, <2>3
  <2>5. j = jj /\ i = ii
    BY <1>4, <2>1, <2>3, <2>4
  <2> QED  BY <2>1, <2>3, <2>5
<1>5. ASSUME NEW r \in Places(G, x)
      PROVE  \E p \in D : f[p] = r
  <2>0. PICK j \in K : \E i \in 1..Len(G[j]) : r = <<j, i>> /\ G[j][i] = x
    BY <1>5, PlaceIs
  <2>1. PICK i \in 1..Len(G[j]) : r = <<j, i>> /\ G[j][i] = x
    BY <2>0
  <2>2. CASE j = k
    <3>1. /\ i + 1 \in 1..Len(F[k]) /\ F[k][i + 1] = x /\ i + 1 # 1 /\ (i + 1) - 1 = i
      <4>1. i \in 1..n - 1
        BY <1>1, <2>1, <2>2
      <4>2. F[k][i + 1] = x
        BY <1>1, <2>1, <2>2, <4>1
      <4> QED  BY <1>1, <4>1, <4>2 DEF n
    <3>2. <<k, i + 1>> \in Places(F, x)
      BY <3>1, PlaceAt
    <3>3. <<k, i + 1>> \in D
      BY <3>1, <3>2
    <3>4. f[<<k, i + 1>>] = <<k, (i + 1) - 1>>
      BY <3>3
    <3> QED  BY <2>1, <2>2, <3>1, <3>3, <3>4
  <2>3. CASE j # k
    <3>1. <<j, i>> \in D
      <4>1. G[j] = F[j]
        BY <2>3
      <4>2. <<j, i>> \in Places(F, x)
        BY <2>1, <4>1, PlaceAt
      <4> QED  BY <2>3, <4>2
    <3>2. f[<<j, i>>] = <<j, i>>
      BY <2>3, <3>1
    <3> QED  BY <2>1, <3>1, <3>2
  <2> QED  BY <2>2, <2>3
<1> HIDE DEF f, D
<1>6. f \in Bijection(D, Places(G, x))
  <2>1. f \in [D -> Places(G, x)]
    BY <1>3 DEF f
  <2> QED  BY <1>4, <1>5, <2>1 DEF Bijection, Injection, IsInjective, Surjection
<1>7. IsFiniteSet(Places(F, x)) /\ Cardinality(Places(F, x)) \in Nat
  BY PlacesFinite
<1>8. <<k, 1>> \in Places(F, x) <=> x = F[k][1]
  <2>1. 1 \in 1..Len(F[k])
    BY <1>1 DEF n
  <2>2. \A j \in K : \A i \in 1..Len(F[j]) : <<k, 1>> = <<j, i>> => j = k /\ i = 1
    OBVIOUS
  <2> QED  BY <2>1, <2>2, PlaceIs
<1>9. IsFiniteSet(D) /\ Cardinality(D) = Cardinality(Places(F, x)) - (IF x = F[k][1] THEN 1 ELSE 0)
  <2>1. /\ IsFiniteSet(D)
        /\ Cardinality(D) = IF <<k, 1>> \in Places(F, x) THEN Cardinality(Places(F, x)) - 1
                                                        ELSE Cardinality(Places(F, x))
    BY <1>7, FS_RemoveElement DEF D
  <2> QED  BY <1>7, <1>8, <2>1
<1>10. Cardinality(Places(G, x)) = Cardinality(D)
  BY <1>6, <1>9, FS_Bijection DEF ExistsBijection
<1> QED  BY <1>9, <1>10

\* List h of F was moved to the end of list k in G.
Moved(K, S, F, G, k, h) ==
    /\ IsFiniteSet(K) /\ F \in [K -> Seq(S)] /\ G \in [K -> Seq(S)] /\ k \in K /\ h \in K /\ k # h
    /\ G[h] = <<>> /\ Len(G[k]) = Len(F[k]) + Len(F[h])
    /\ \A i \in 1..Len(F[k]) : G[k][i] = F[k][i]
    /\ \A i \in 1..Len(F[h]) : G[k][Len(F[k]) + i] = F[h][i]
    /\ \A j \in K \ {k, h} : G[j] = F[j]

\* There are as many places as before.
LEMMA PlacesMove ==
    ASSUME NEW K, NEW S, NEW F, NEW G, NEW k, NEW h, Moved(K, S, F, G, k, h), NEW x
    PROVE  Cardinality(Places(G, x)) = Cardinality(Places(F, x))
<1> USE DEF Moved
<1> DEFINE n == Len(F[k])
           m == Len(F[h])
           D == Places(F, x)
           f == [p \in D |-> IF p[1] = h THEN <<k, n + p[2]>> ELSE p]
<1>0. ASSUME NEW p, p \in Places(F, x)
      PROVE  \E j \in K : \E i \in 1..Len(F[j]) : p = <<j, i>> /\ F[j][i] = x
  BY <1>0, PlaceIs, SMTT(60)
<1>1. /\ n \in Nat /\ m \in Nat /\ Len(G[k]) = n + m /\ Len(G[h]) = 0
      /\ \A i \in 1..n : G[k][i] = F[k][i]
      /\ \A i \in 1..m : G[k][n + i] = F[h][i]
  OBVIOUS
<1> HIDE DEF n, m
<1>2. ASSUME NEW p \in D
      PROVE  \E j \in K : \E i \in 1..Len(F[j]) : p = <<j, i>> /\ F[j][i] = x
  BY <1>0
<1>3. ASSUME NEW p \in D
      PROVE  f[p] \in Places(G, x)
  <2>0. PICK j \in K : \E i \in 1..Len(F[j]) : p = <<j, i>> /\ F[j][i] = x
    BY <1>2
  <2>1. PICK i \in 1..Len(F[j]) : p = <<j, i>> /\ F[j][i] = x
    BY <2>0
  <2>2. CASE j = h
    <3>1. i \in 1..m
      BY <2>1, <2>2 DEF m
    <3>2. n + i \in 1..Len(G[k]) /\ G[k][n + i] = x
      BY <1>1, <2>1, <2>2, <3>1
    <3>3. f[p] = <<k, n + i>>
      BY <2>1, <2>2
    <3>4. <<k, n + i>> \in Places(G, x)
      BY <3>2, PlaceAt
    <3> QED  BY <3>3, <3>4
  <2>3. CASE j = k
    <3>1. i \in 1..n
      BY <2>1, <2>3 DEF n
    <3>2. i \in 1..Len(G[k]) /\ G[k][i] = x
      BY <1>1, <2>1, <2>3, <3>1
    <3>3. f[p] = <<k, i>>
      BY <2>1, <2>3
    <3>4. <<k, i>> \in Places(G, x)
      BY <3>2, PlaceAt
    <3> QED  BY <3>3, <3>4
  <2>4. CASE j # h /\ j # k
    <3>1. f[p] = <<j, i>> /\ i \in 1..Len(G[j]) /\ G[j][i] = x
      BY <2>1, <2>4
    <3>2. <<j, i>> \in Places(G, x)
      BY <3>1, PlaceAt
    <3> QED  BY <3>1, <3>2
  <2> QED  BY <2>2, <2>3, <2>4
<1>4. ASSUME NEW p \in D, NEW r \in D, f[p] = f[r]
      PROVE  p = r
  <2>0. PICK j \in K : \E i \in 1..Len(F[j]) : p = <<j, i>> /\ i \in Int
    BY <1>2
  <2>1. PICK i \in 1..Len(F[j]) : p = <<j, i>> /\ i \in Int
    BY <2>0
  <2>2. PICK jj \in K : \E ii \in 1..Len(F[jj]) : r = <<jj, ii>> /\ ii \in Int
    BY <1>2
  <2>3. PICK ii \in 1..Len(F[jj]) : r = <<jj, ii>> /\ ii \in Int
    BY <2>2
  <2>4. /\ f[p] = IF j = h THEN <<k, n + i>> ELSE <<j, i>>
        /\ f[r] = IF jj = h THEN <<k, n + ii>> ELSE <<jj, ii>>
    BY <2>1, <2>3
  <2>5. /\ j = k => i <= n /\ i >= 1
        /\ jj = k => ii <= n /\ ii >= 1
        /\ i >= 1 /\ ii >= 1
    BY <1>1, SMTT(40) DEF n
  <2>6. j = jj /\ i = ii
    <3>1. CASE j = h /\ jj = h
      BY <1>1, <1>4, <2>1, <2>3, <2>4, <3>1
    <3>2. CASE j = h /\ jj # h
      BY <1>1, <1>4, <2>1, <2>3, <2>4, <2>5, <3>2
    <3>3. CASE j # h /\ jj = h
      BY <1>1, <1>4, <2>1, <2>3, <2>4, <2>5, <3>3
    <3>4. CASE j # h /\ jj # h
      BY <1>4, <2>4, <3>4
    <3> QED  BY <3>1, <3>2, <3>3, <3>4
  <2> QED  BY <2>1, <2>3, <2>6
<1>5. ASSUME NEW r \in Places(G, x)
      PROVE  \E p \in D : f[p] = r
  <2>0. PICK j \in K : \E i \in 1..Len(G[j]) : r = <<j, i>> /\ G[j][i] = x
    BY <1>5, PlaceIs, SMTT(40)
  <2>1. PICK i \in 1..Len(G[j]) : r = <<j, i>> /\ G[j][i] = x
    BY <2>0
  <2>2. CASE j = k /\ i > n
    <3>1. i - n \in 1..m /\ n + (i - n) = i
      BY <1>1, <2>1, <2>2
    <3>2. F[h][i - n] = x /\ i - n \in 1..Len(F[h])
      BY <1>1, <2>1, <2>2, <3>1 DEF m
    <3>3. <<h, i - n>> \in D
      BY <3>2, PlaceAt
    <3>4. f[<<h, i - n>>] = <<k, n + (i - n)>>
      BY <3>3
    <3> QED  BY <2>1, <2>2, <3>1, <3>3, <3>4
  <2>3. CASE j = k /\ ~(i > n)
    <3>1. i \in 1..n
      BY <1>1, <2>1, <2>3
    <3>2. F[k][i] = x /\ i \in 1..Len(F[k])
      BY <1>1, <2>1, <2>3, <3>1 DEF n
    <3>3. <<k, i>> \in D
      BY <3>2, PlaceAt
    <3>4. f[<<k, i>>] = <<k, i>>
      BY <3>3
    <3> QED  BY <2>1, <2>3, <3>3, <3>4
  <2>4. CASE j # k
    <3>0. j # h
      BY <1>1, <2>1
    <3>1. G[j] = F[j]
      BY <2>4, <3>0
    <3>2. <<j, i>> \in D
      BY <2>1, <3>1, PlaceAt
    <3>3. f[<<j, i>>] = <<j, i>>
      BY <3>0, <3>2
    <3> QED  BY <2>1, <3>2, <3>3
  <2> QED  BY <2>2, <2>3, <2>4
<1> HIDE DEF f, D
<1>6. f \in Bijection(D, Places(G, x))
  <2>1. f \in [D -> Places(G, x)]
    BY <1>3 DEF f
  <2> QED  BY <1>4, <1>5, <2>1 DEF Bijection, Injection, IsInjective, Surjection
<1>7. IsFiniteSet(D)
  BY PlacesFinite DEF D
<1>8. Cardinality(Places(G, x)) = Cardinality(D)
  BY <1>6, <1>7, FS_Bijection DEF ExistsBijection
<1> QED  BY <1>8 DEF D

-----------------------------------------------------------------------------
(***************************************************************************)
(* The inductive invariant of the whole collector, when no thread is       *)
(* delayed in a window (Delays = {}).  Its parts need each other:          *)
(*                                                                         *)
(*  - MinimumInv: what a session cleans with is not after the epoch of any *)
(*    session in a transaction.  The one exception is the generic queue of *)
(*    a session that closes and has seen nobody else: then whoever is in a *)
(*    transaction holds no sentinel of that queue.                         *)
(*  - HeldInv: a sentinel out of the index that a transaction still holds  *)
(*    is in a delete vector, or in a generic queue with a CSN that the     *)
(*    epoch of the transaction holds back.                                 *)
(*  - ChainInv, LimboInv: a clean-up removes only rows below one that is   *)
(*    older than every snapshot, and a later element of the same sentinel  *)
(*    points to a row at least as new.                                     *)
(*  - CoverInv: CountCovers, plus one for the element a roll-back over a   *)
(*    tombstone leaves while that tombstone is on top (a claim): its       *)
(*    clean-up counts off a tombstone that may have been counted off.      *)
(***************************************************************************)

\* What SetPerformGcEpoch, CleanElement and the callbacks leave in cur.
DtorElement ==
    [kind : {"delete", "version"}, sent : Sentinels, row : 0..MaxCsn, csn : Csn, slot : Int]

ScanOf == [left : SUBSET Sessions, min : 0..MaxCsn, others : BOOLEAN]

\* The types; that the counts do not fall below zero follows from CountInv and CoverInv.
GcTypes ==
    /\ csn \in Csn /\ active \in 0..MaxCsn /\ glock \in Sessions \cup {Nobody}
    /\ index \in Sentinels \cup {Nobody} /\ used \in SUBSET Sentinels /\ tombs \in SUBSET Csn
    /\ refs \in [Sentinels -> Int] /\ gcRefs \in [Sentinels -> Int]
    /\ minCsn \in [Sentinels -> 0..MaxCsn]
    /\ rows \in [Sentinels -> SUBSET Csn] /\ hist \in [Sentinels -> SUBSET Csn]
    /\ pc \in [Sessions -> PC]
    /\ epoch \in [Sessions -> 0..MaxCsn] /\ snap \in [Sessions -> 0..MaxCsn]
    /\ held \in [Sessions -> Sentinels \cup {Nobody}]
    /\ op \in [Sessions -> {"none", "update", "delete", "insert", "upgrade"}]
    /\ mine \in [Sessions -> 0..MaxCsn]
    /\ limbo \in [Sessions -> [Queues -> Seq(Element)]]
    /\ dels \in [Sessions -> Seq(Sentinels)]
    /\ closing \in [Sessions -> BOOLEAN] /\ fresh \in [Sessions -> BOOLEAN]
    /\ que \in [Sessions -> Queues] /\ perform \in [Sessions -> 0..MaxCsn + 1]
    /\ scan \in [Sessions -> ScanOf]
    /\ cur \in [Sessions -> DtorElement \cup {NoElement}]

\* The elements of a queue, the sentinels of a delete vector.
Els(s, q) == Range(limbo[s][q])
Marked(s) == Range(dels[s])

Cleaning(s) == pc[s] \in {"queue", "scan", "perform", "clean", "dtor"}

\* Control state of a session.
ControlInv(s) ==
    /\ ~InTxn(s) => op[s] = "none"
    /\ op[s] = "none" => mine[s] = 0
    /\ op[s] # "none" => held[s] # Nobody
    /\ ~Cleaning(s) => ~closing[s] /\ ~fresh[s]
    /\ pc[s] = "found" => held[s] = index
    /\ pc[s] = "perform" => scan[s].left = {}
    /\ \A q \in Queues : \A e \in Els(s, q) : q = QueueOf(e.kind)

\* GcSharedInfo is exact.
CountInv(x) == gcRefs[x] = Cardinality(Places(Lists, x))

\* A sentinel in the pool is clean; the one in the index is the one that is counted on;
\* one that is in neither place has an owner in limbo.
PoolInv(x) ==
    /\ x \notin used => rows[x] = {} /\ hist[x] = {} /\ minCsn[x] = 0 /\ gcRefs[x] = 0
    /\ refs[x] > 0 <=> x = index
    /\ x = index => x \in used
    /\ x \in used /\ x # index => gcRefs[x] > 0

\* r is the row of x that a snapshot with CSN c shows.
Shows(x, r, c) == r \in hist[x] /\ r < c /\ \A q \in hist[x] : q < c => q <= r

\* The version chain has all rows some snapshot shows.
ChainInv(x) ==
    /\ rows[x] \subseteq hist[x]
    /\ minCsn[x] < csn
    /\ \A r \in hist[x] : r < csn
    /\ \A r \in hist[x] : Shows(x, r, csn) => r \in rows[x]
    /\ \A t \in Sessions : InTxn(t) =>
        /\ minCsn[x] < epoch[t]
        /\ \A r \in hist[x] : Shows(x, r, snap[t]) => r \in rows[x]

\* An element with a row: nothing was committed above the row before the CSN of the
\* element, and the row is there unless a newer clean-up has been there.
ElementInv(e) ==
    /\ e.row \in hist[e.sent] /\ e.row <= e.csn
    /\ \A r \in hist[e.sent] : r > e.row => r >= e.csn
    /\ e.csn <= minCsn[e.sent] \/ e.row \in rows[e.sent]
    /\ e.kind = "delete" => e.row \in tombs

LimboInv(s) ==
    /\ \A q \in {1, 2} : \A e \in Els(s, q) : ElementInv(e)
    /\ \A q \in Queues : \A e \in Els(s, q) : e.csn <= csn
    /\ \A e \in Els(s, 3) : e.sent # index
    /\ \A x \in Marked(s) : x # index

\* The element being destroyed.
DtorInv(s) ==
    pc[s] = "dtor" => /\ cur[s] \in DtorElement /\ ElementInv(cur[s])
                      /\ cur[s].csn < perform[s] /\ que[s] # 3

Inserting(s) == pc[s] = "open" /\ op[s] \in {"insert", "upgrade"}

\* The write of a transaction.
OpInv(s) ==
    /\ pc[s] = "open" /\ op[s] \in {"update", "delete"} =>
        mine[s] \notin tombs \cup {0} /\ mine[s] < csn
    /\ Inserting(s) => \A r \in hist[held[s]] : r > mine[s] => r >= epoch[s]
    /\ pc[s] = "open" /\ op[s] = "insert" => mine[s] = 0
    /\ pc[s] = "open" /\ op[s] = "upgrade" => mine[s] \in tombs /\ mine[s] \in hist[held[s]]
    /\ pc[s] = "committed" =>
        /\ op[s] # "none" /\ mine[s] \in rows[held[s]] /\ epoch[s] <= mine[s]
        /\ op[s] = "delete" => mine[s] \in tombs

\* Somebody owns x, for a session with epoch c.
Owned(x, c) ==
    \E s \in Sessions :
        \/ x \in Marked(s)
        \/ \E e \in Els(s, 3) : e.sent = x /\ e.csn >= c

HeldInv(t) ==
    InTxn(t) /\ held[t] # Nobody =>
        /\ held[t] \in used
        /\ held[t] # index => Owned(held[t], epoch[t])

\* Session t holds no sentinel of the generic queue of s.
Apart(s, t) == \A e \in Els(s, 3) : e.sent # held[t]

MinimumInv(s) ==
    /\ pc[s] \in {"scan", "perform"} /\ closing[s] /\ que[s] = 3 /\ ~scan[s].others =>
        \A t \in Sessions : InTxn(t) => t \in scan[s].left \/ Apart(s, t)
    /\ pc[s] \in {"clean", "dtor"} \/ (fresh[s] /\ ~closing[s]) =>
        /\ perform[s] <= csn \/ (closing[s] /\ que[s] = 3)
        /\ \A t \in Sessions : InTxn(t) =>
            perform[s] <= epoch[t] \/ (closing[s] /\ que[s] = 3 /\ Apart(s, t))

\* Elements a roll-back left for the tombstone on top.
Claim(e, x) ==
    /\ e.kind = "delete" /\ e.sent = x
    /\ e.row = Top(x) /\ e.row < e.csn /\ minCsn[x] < e.csn

Pending(s) == Els(s, 1) \cup (IF pc[s] = "dtor" THEN {cur[s]} ELSE {})

Claimed(x) == \E s \in Sessions : \E e \in Pending(s) : Claim(e, x)

Live(x) == IF Top(x) \in tombs \cup {0} THEN 0 ELSE 1
Owed(x) == {r \in rows[x] \cap tombs : r > minCsn[x]}

CoverInv(x) ==
    /\ refs[x] >= Cardinality(Inserters(x)) + Live(x) + Cardinality(Owed(x))
                   + (IF Claimed(x) THEN 1 ELSE 0)
    /\ \A s, t \in Sessions : \A e \in Pending(s), d \in Pending(t) :
         Claim(e, x) /\ Claim(d, x) => e.csn = d.csn

GcInv ==
    /\ EpochInv /\ GcTypes
    /\ \A s \in Sessions : /\ ControlInv(s) /\ LimboInv(s) /\ DtorInv(s) /\ OpInv(s)
                           /\ HeldInv(s) /\ MinimumInv(s)
    /\ \A x \in Sentinels : CountInv(x) /\ PoolInv(x) /\ ChainInv(x) /\ CoverInv(x)

-----------------------------------------------------------------------------
(* Types, and what a step leaves alone. *)

\* A step leaves session t alone.
Same(t) ==
    /\ pc'[t] = pc[t] /\ epoch'[t] = epoch[t] /\ snap'[t] = snap[t] /\ held'[t] = held[t]
    /\ op'[t] = op[t] /\ mine'[t] = mine[t] /\ limbo'[t] = limbo[t] /\ dels'[t] = dels[t]
    /\ closing'[t] = closing[t] /\ que'[t] = que[t] /\ perform'[t] = perform[t]
    /\ fresh'[t] = fresh[t] /\ scan'[t] = scan[t] /\ cur'[t] = cur[t]

Frame(s) == GcTypes' /\ \A t \in Sessions \ {s} : Same(t)

\* Steps of a transaction up to its end.
LEMMA TransactionFrame ==
    ASSUME GcInv, NEW s \in Sessions,
           \/ TakeSnapshot(s) \/ FindRow(s) \/ GcStartTxn(s)
           \/ NextStatement(s) \/ GcEndStatement(s)
           \/ \E o \in {"update", "delete"} : Write(s, o)
    PROVE  Frame(s)
<1>0. GcTypes /\ ControlInv(s) /\ Csn \subseteq 0..MaxCsn /\ 0 \in 0..MaxCsn
  BY GcAssumption DEF GcInv, Csn
<1>1. CASE TakeSnapshot(s)
  BY <1>0, <1>1 DEF TakeSnapshot, Goto, sentVars, gcVars, GcTypes, Frame, Same, PC
<1>2. CASE FindRow(s)
  BY <1>0, <1>2 DEF FindRow, Goto, sentVars, gcVars, GcTypes, Frame, Same, PC
<1>3. CASE GcStartTxn(s)
  BY <1>0, <1>3 DEF GcStartTxn, PublishedEpoch, Goto, sentVars, txnVars, gcVars, GcTypes, Frame,
                    Same, PC
<1>4. CASE NextStatement(s)
  BY <1>0, <1>4 DEF NextStatement, sentVars, gcVars, GcTypes, Frame, Same
<1>5. CASE GcEndStatement(s)
  BY <1>0, <1>5 DEF GcEndStatement, Goto, sentVars, gcVars, GcTypes, Frame, Same, PC
<1>6. ASSUME NEW o \in {"update", "delete"}, Write(s, o)
      PROVE  Frame(s)
  <2>1. VisibleRow(s, held[s]) \in 0..MaxCsn
    <3>1. held[s] \in Sentinels
      BY <1>0, <1>6 DEF Write, GcTypes
    <3>2. {r \in rows[held[s]] : r < snap[s]} \in SUBSET Csn
      BY <1>0, <3>1 DEF GcTypes
    <3> QED  BY <3>2, NewestIs DEF VisibleRow
  <2>2. /\ op' = [op EXCEPT ![s] = o] /\ mine' = [mine EXCEPT ![s] = VisibleRow(s, held[s])]
        /\ UNCHANGED <<csn, active, glock, sentVars, pc, epoch, snap, held, limbo, gcVars>>
    BY <1>6 DEF Write
  <2>3. /\ op' \in [Sessions -> {"none", "update", "delete", "insert", "upgrade"}]
        /\ mine' \in [Sessions -> 0..MaxCsn]
        /\ \A t \in Sessions \ {s} : op'[t] = op[t] /\ mine'[t] = mine[t]
    BY <1>0, <1>6, <2>1, <2>2 DEF GcTypes
  <2>4. GcTypes'
    BY <1>0, <2>2, <2>3 DEF sentVars, gcVars, GcTypes
  <2> QED  BY <2>2, <2>3, <2>4 DEF gcVars, Frame, Same
<1> QED  BY <1>1, <1>2, <1>3, <1>4, <1>5, <1>6

\* The newest row of a chain.
LEMMA TopIs ==
    ASSUME GcTypes, NEW x \in Sentinels
    PROVE  /\ Top(x) \in 0..MaxCsn
           /\ Top(x) = 0 <=> rows[x] = {}
           /\ rows[x] # {} => Top(x) \in rows[x]
           /\ \A r \in rows[x] : r <= Top(x)
<1>1. rows[x] \in SUBSET Csn
  BY DEF GcTypes
<1> QED  BY <1>1, NewestIs DEF Top

\* Inserts and commits.
LEMMA InsertFrame ==
    ASSUME GcInv, NEW s \in Sessions, InsertNew(s) \/ InsertOnSentinel(s) \/ Commit(s)
    PROVE  Frame(s)
<1>0. GcTypes /\ ControlInv(s) /\ Csn \subseteq 0..MaxCsn /\ 0 \in 0..MaxCsn /\ MaxCsn \in Nat
  BY GcAssumption DEF GcInv, Csn
<1>1. CASE InsertNew(s)
  <2>1. PICK x \in Sentinels \ used :
          /\ index' = x /\ used' = used \cup {x}
          /\ refs' = [refs EXCEPT ![x] = 1] /\ gcRefs' = [gcRefs EXCEPT ![x] = 0]
          /\ minCsn' = [minCsn EXCEPT ![x] = 0] /\ rows' = [rows EXCEPT ![x] = {}]
          /\ hist' = [hist EXCEPT ![x] = {}] /\ held' = [held EXCEPT ![s] = x]
    BY <1>1 DEF InsertNew
  <2>2. op' = [op EXCEPT ![s] = "insert"]
        /\ UNCHANGED <<csn, active, glock, tombs, pc, epoch, snap, mine, limbo, gcVars>>
    BY <1>1 DEF InsertNew
  <2>3. /\ refs' \in [Sentinels -> Int] /\ gcRefs' \in [Sentinels -> Int]
        /\ minCsn' \in [Sentinels -> 0..MaxCsn]
        /\ rows' \in [Sentinels -> SUBSET Csn] /\ hist' \in [Sentinels -> SUBSET Csn]
        /\ held' \in [Sessions -> Sentinels \cup {Nobody}]
    <3>1. /\ refs \in [Sentinels -> Int] /\ gcRefs \in [Sentinels -> Int]
          /\ minCsn \in [Sentinels -> 0..MaxCsn]
          /\ rows \in [Sentinels -> SUBSET Csn] /\ hist \in [Sentinels -> SUBSET Csn]
          /\ held \in [Sessions -> Sentinels \cup {Nobody}]
      BY <1>0 DEF GcTypes
    <3>2. refs' \in [Sentinels -> Int] /\ gcRefs' \in [Sentinels -> Int]
      BY <2>1, <3>1
    <3>3. minCsn' \in [Sentinels -> 0..MaxCsn] /\ held' \in [Sessions -> Sentinels \cup {Nobody}]
      BY <1>0, <2>1, <3>1
    <3>4. rows' \in [Sentinels -> SUBSET Csn] /\ hist' \in [Sentinels -> SUBSET Csn]
      BY <2>1, <3>1
    <3> QED  BY <3>2, <3>3, <3>4
  <2>4. op' \in [Sessions -> {"none", "update", "delete", "insert", "upgrade"}]
        /\ index' \in Sentinels /\ used' \in SUBSET Sentinels
    BY <1>0, <2>1, <2>2 DEF GcTypes
  <2>5. \A t \in Sessions \ {s} : held'[t] = held[t] /\ op'[t] = op[t]
    BY <1>0, <2>1, <2>2 DEF GcTypes
  <2>6. GcTypes'
    BY <1>0, <2>2, <2>3, <2>4 DEF gcVars, GcTypes
  <2> QED  BY <2>2, <2>5, <2>6 DEF gcVars, Frame, Same
<1>2. CASE InsertOnSentinel(s)
  <2>1. index \in Sentinels /\ Top(index) \in 0..MaxCsn
    BY <1>0, <1>2, TopIs DEF InsertOnSentinel, GcTypes
  <2>2. (IF rows[index] = {} THEN "insert" ELSE "upgrade") \in {"insert", "upgrade"}
    OBVIOUS
  <2>3. /\ refs' = [refs EXCEPT ![index] = @ + 1] /\ held' = [held EXCEPT ![s] = index]
        /\ op' = [op EXCEPT ![s] = IF rows[index] = {} THEN "insert" ELSE "upgrade"]
        /\ mine' = [mine EXCEPT ![s] = Top(index)]
        /\ UNCHANGED <<csn, active, glock, index, used, gcRefs, minCsn, rows, tombs, hist,
                       pc, epoch, snap, limbo, gcVars>>
    BY <1>2 DEF InsertOnSentinel
  <2>4. refs \in [Sentinels -> Int]
    BY <1>0 DEF GcTypes
  <2>5. refs' \in [Sentinels -> Int]
    BY <2>1, <2>3, <2>4
  <2>6. /\ op' \in [Sessions -> {"none", "update", "delete", "insert", "upgrade"}]
        /\ held' \in [Sessions -> Sentinels \cup {Nobody}] /\ mine' \in [Sessions -> 0..MaxCsn]
        /\ \A t \in Sessions \ {s} : held'[t] = held[t] /\ op'[t] = op[t] /\ mine'[t] = mine[t]
    BY <1>0, <2>1, <2>2, <2>3 DEF GcTypes
  <2>7. GcTypes'
    BY <1>0, <2>3, <2>5, <2>6 DEF gcVars, GcTypes
  <2> QED  BY <2>3, <2>6, <2>7 DEF gcVars, Frame, Same
<1>3. CASE Commit(s)
  <2>1. held[s] \in Sentinels
    BY <1>0, <1>3 DEF Commit, ControlInv, GcTypes
  <2>2. csn + 1 \in Csn
    BY <1>0, <1>3 DEF Commit, GcTypes, Csn
  <2>3. /\ pc' = [pc EXCEPT ![s] = "committed"] /\ csn' = csn + 1
        /\ rows' = [rows EXCEPT ![held[s]] = @ \cup {csn}]
        /\ hist' = [hist EXCEPT ![held[s]] = @ \cup {csn}]
        /\ tombs' = IF op[s] = "delete" THEN tombs \cup {csn} ELSE tombs
        /\ mine' = [mine EXCEPT ![s] = csn]
        /\ UNCHANGED <<active, glock, index, used, refs, gcRefs, minCsn, epoch, snap, held, op,
                       limbo, gcVars>>
    BY <1>3 DEF Commit, Goto
  <2>4. /\ csn \in Csn /\ csn \in 0..MaxCsn /\ tombs \in SUBSET Csn /\ "committed" \in PC
        /\ rows \in [Sentinels -> SUBSET Csn] /\ hist \in [Sentinels -> SUBSET Csn]
        /\ pc \in [Sessions -> PC] /\ mine \in [Sessions -> 0..MaxCsn]
    BY <1>0 DEF GcTypes, Csn, PC
  <2>5. rows' \in [Sentinels -> SUBSET Csn] /\ hist' \in [Sentinels -> SUBSET Csn]
    BY <2>1, <2>3, <2>4
  <2>6. csn' \in Csn /\ tombs' \in SUBSET Csn
    BY <2>2, <2>3, <2>4
  <2>7. /\ pc' \in [Sessions -> PC] /\ mine' \in [Sessions -> 0..MaxCsn]
        /\ \A t \in Sessions \ {s} : pc'[t] = pc[t] /\ mine'[t] = mine[t]
    BY <2>3, <2>4
  <2>8. GcTypes'
    BY <1>0, <2>3, <2>5, <2>6, <2>7 DEF gcVars, GcTypes
  <2> QED  BY <2>3, <2>7, <2>8 DEF gcVars, Frame, Same
<1> QED  BY <1>1, <1>2, <1>3

\* What GcRecord does to the queues.
LEMMA RecordIs ==
    ASSUME GcTypes, NEW s \in Sessions, NEW kind \in {"delete", "version", "sentinel"},
           NEW x \in Sentinels, NEW row \in 0..MaxCsn, NEW at \in Csn, GcRecord(s, kind, x, row, at)
    PROVE  LET e == [kind |-> kind, sent |-> x, row |-> row, csn |-> at]
           IN  /\ e \in Element /\ QueueOf(kind) \in Queues
               /\ gcRefs' \in [Sentinels -> Int]
               /\ \A y \in Sentinels : gcRefs'[y] = gcRefs[y] + (IF y = x THEN 1 ELSE 0)
               /\ limbo' \in [Sessions -> [Queues -> Seq(Element)]]
               /\ limbo'[s][QueueOf(kind)] = Append(limbo[s][QueueOf(kind)], e)
               /\ \A q \in Queues \ {QueueOf(kind)} : limbo'[s][q] = limbo[s][q]
               /\ \A t \in Sessions \ {s} : limbo'[t] = limbo[t]
<1> DEFINE e == [kind |-> kind, sent |-> x, row |-> row, csn |-> at]
<1>1. e \in Element
  BY DEF Element
<1>2. QueueOf(kind) \in Queues
  BY DEF QueueOf, Queues
<1>3. /\ gcRefs' = [gcRefs EXCEPT ![x] = @ + 1]
      /\ limbo' = [limbo EXCEPT ![s][QueueOf(kind)] = Append(@, e)]
  BY DEF GcRecord
<1> HIDE DEF e
<1>t. limbo \in [Sessions -> [Queues -> Seq(Element)]] /\ gcRefs \in [Sentinels -> Int]
  BY DEF GcTypes
<1>4. limbo' \in [Sessions -> [Queues -> Seq(Element)]]
  <2> DEFINE l == Append(limbo[s][QueueOf(kind)], e)
  <2>1. l \in Seq(Element)
    BY <1>1, <1>2, <1>t
  <2>2. limbo' = [limbo EXCEPT ![s][QueueOf(kind)] = l]
    BY <1>3
  <2> HIDE DEF l
  <2> QED  BY <1>2, <1>t, <2>1, <2>2
<1>5. /\ gcRefs' \in [Sentinels -> Int]
      /\ \A y \in Sentinels : gcRefs'[y] = gcRefs[y] + (IF y = x THEN 1 ELSE 0)
  BY <1>3, <1>t
<1>6. /\ limbo'[s][QueueOf(kind)] = Append(limbo[s][QueueOf(kind)], e)
      /\ \A q \in Queues \ {QueueOf(kind)} : limbo'[s][q] = limbo[s][q]
      /\ \A t \in Sessions \ {s} : limbo'[t] = limbo[t]
  BY <1>2, <1>3, <1>t
<1> QED  BY <1>1, <1>2, <1>4, <1>5, <1>6 DEF e

\* The end of a transaction.
LEMMA EndFrame ==
    ASSUME GcInv, NEW s \in Sessions, GcMaintenance(s) \/ Rollback(s)
    PROVE  Frame(s)
<1>0. GcTypes /\ ControlInv(s) /\ Csn \subseteq 0..MaxCsn /\ 0 \in 0..MaxCsn /\ OpInv(s)
  BY GcAssumption DEF GcInv, Csn
<1>t. refs \in [Sentinels -> Int]
  BY <1>0 DEF GcTypes
<1>1. EndTxn(s) /\ pc' = [pc EXCEPT ![s] = "end"]
      /\ UNCHANGED <<csn, active, glock, used, minCsn, rows, tombs, hist, epoch, gcVars>>
  BY DEF GcMaintenance, Rollback, Goto
<1>2. /\ gcRefs' \in [Sentinels -> Int] /\ limbo' \in [Sessions -> [Queues -> Seq(Element)]]
      /\ \A t \in Sessions \ {s} : limbo'[t] = limbo[t]
      /\ refs' \in [Sentinels -> Int] /\ index' \in Sentinels \cup {Nobody}
  <2>1. CASE GcMaintenance(s)
    <3>1. CASE LimboKind(op[s]) = "none"
      BY <1>0, <2>1, <3>1 DEF GcMaintenance, GcTypes
    <3>2. CASE LimboKind(op[s]) # "none"
      <4>1. /\ pc[s] = "committed" /\ op[s] \in {"update", "delete", "insert", "upgrade"}
        BY <1>0, <2>1 DEF GcMaintenance, Goto, OpInv, GcTypes
      <4>2. LimboKind(op[s]) \in {"delete", "version"}
        BY <3>2, <4>1 DEF LimboKind
      <4>3. held[s] \in Sentinels /\ mine[s] \in Csn /\ mine[s] \in 0..MaxCsn
        BY <1>0, <4>1 DEF ControlInv, OpInv, GcTypes
      <4>4. GcRecord(s, LimboKind(op[s]), held[s], mine[s], mine[s]) /\ UNCHANGED <<refs, index>>
        BY <2>1, <3>2 DEF GcMaintenance
      <4>5. refs' \in [Sentinels -> Int] /\ index' \in Sentinels \cup {Nobody}
        BY <1>0, <4>4 DEF GcTypes
      <4>6. LimboKind(op[s]) \in {"delete", "version", "sentinel"}
        BY <4>2
      <4> QED  BY <1>0, <4>3, <4>4, <4>5, <4>6, RecordIs
    <3> QED  BY <3>1, <3>2
  <2>2. CASE Rollback(s)
    <3>1. CASE op[s] = "insert"
      <4>1. RollbackNew(s) /\ held[s] \in Sentinels
        BY <1>0, <2>2, <3>1 DEF Rollback, ControlInv, GcTypes
      <4>2. csn \in Csn /\ "sentinel" \in {"delete", "version", "sentinel"}
        BY <1>0 DEF GcTypes
      <4>3. CASE refs[held[s]] = 1
        <5>1. GcRecord(s, "sentinel", held[s], 0, csn) /\ index' = Nobody
              /\ refs' = [refs EXCEPT ![held[s]] = @ - 1]
          BY <4>1, <4>3 DEF RollbackNew
        <5>2. refs' \in [Sentinels -> Int]
          BY <1>t, <4>1, <5>1
        <5> QED  BY <1>0, <4>1, <4>2, <5>1, <5>2, RecordIs
      <4>4. CASE refs[held[s]] # 1
        <5>1. UNCHANGED <<index, gcRefs, limbo>> /\ refs' = [refs EXCEPT ![held[s]] = @ - 1]
          BY <4>1, <4>4 DEF RollbackNew
        <5>2. refs' \in [Sentinels -> Int]
          BY <1>t, <4>1, <5>1
        <5> QED  BY <1>0, <5>1, <5>2 DEF GcTypes
      <4> QED  BY <4>3, <4>4
    <3>2. CASE op[s] = "upgrade"
      <4>1. RollbackUpgrade(s) /\ held[s] \in Sentinels /\ mine[s] \in 0..MaxCsn
        BY <1>0, <2>2, <3>2 DEF Rollback, ControlInv, GcTypes
      <4>2. csn \in Csn /\ "delete" \in {"delete", "version", "sentinel"}
        BY <1>0 DEF GcTypes
      <4>3. CASE refs[held[s]] = 1
        <5>1. GcRecord(s, "delete", held[s], mine[s], csn) /\ UNCHANGED <<index, refs>>
          BY <4>1, <4>3 DEF RollbackUpgrade
        <5> QED  BY <1>0, <4>1, <4>2, <5>1, RecordIs DEF GcTypes
      <4>4. CASE refs[held[s]] # 1
        <5>1. UNCHANGED <<index, gcRefs, limbo>> /\ refs' = [refs EXCEPT ![held[s]] = @ - 1]
          BY <4>1, <4>4 DEF RollbackUpgrade
        <5>2. refs' \in [Sentinels -> Int]
          BY <1>t, <4>1, <5>1
        <5> QED  BY <1>0, <5>1, <5>2 DEF GcTypes
      <4> QED  BY <4>3, <4>4
    <3>3. CASE op[s] \notin {"insert", "upgrade"}
      BY <1>0, <2>2, <3>3 DEF Rollback, GcTypes
    <3> QED  BY <3>1, <3>2, <3>3
  <2> QED  BY <2>1, <2>2
<1> QED  BY <1>0, <1>1, <1>2 DEF EndTxn, gcVars, GcTypes, Frame, Same, PC

\* A function changed at one point.
LEMMA ChangeAt ==
    ASSUME NEW S, NEW T, NEW f \in [S -> T], NEW s \in S, NEW v \in T
    PROVE  /\ [f EXCEPT ![s] = v] \in [S -> T] /\ [f EXCEPT ![s] = v][s] = v
           /\ \A t \in S \ {s} : [f EXCEPT ![s] = v][t] = f[t]
OBVIOUS

\* A step that changes only what the collector keeps for session s.
LEMMA LocalFrame ==
    ASSUME GcTypes, NEW s \in Sessions,
           UNCHANGED <<csn, sentVars, txnVars, limbo, dels, cur>>,
           active' \in 0..MaxCsn, glock' \in Sessions \cup {Nobody},
           pc' \in [Sessions -> PC], \A t \in Sessions \ {s} : pc'[t] = pc[t],
           epoch' \in [Sessions -> 0..MaxCsn], \A t \in Sessions \ {s} : epoch'[t] = epoch[t],
           closing' \in [Sessions -> BOOLEAN],
           \A t \in Sessions \ {s} : closing'[t] = closing[t],
           fresh' \in [Sessions -> BOOLEAN], \A t \in Sessions \ {s} : fresh'[t] = fresh[t],
           que' \in [Sessions -> Queues], \A t \in Sessions \ {s} : que'[t] = que[t],
           perform' \in [Sessions -> 0..MaxCsn + 1],
           \A t \in Sessions \ {s} : perform'[t] = perform[t],
           scan' \in [Sessions -> ScanOf], \A t \in Sessions \ {s} : scan'[t] = scan[t]
    PROVE  Frame(s)
<1>1. GcTypes'
  BY DEF GcTypes, sentVars, txnVars
<1>2. \A t \in Sessions \ {s} : Same(t)
  BY DEF Same, txnVars
<1> QED  BY <1>1, <1>2 DEF Frame

\* What NextQueue changes.
NextQueueFrame(s) ==
    /\ pc' \in [Sessions -> PC] /\ \A t \in Sessions \ {s} : pc'[t] = pc[t]
    /\ epoch' \in [Sessions -> 0..MaxCsn] /\ \A t \in Sessions \ {s} : epoch'[t] = epoch[t]
    /\ closing' \in [Sessions -> BOOLEAN]
    /\ \A t \in Sessions \ {s} : closing'[t] = closing[t]
    /\ fresh' \in [Sessions -> BOOLEAN] /\ \A t \in Sessions \ {s} : fresh'[t] = fresh[t]
    /\ que' \in [Sessions -> Queues] /\ \A t \in Sessions \ {s} : que'[t] = que[t]
    /\ perform' \in [Sessions -> 0..MaxCsn + 1]
    /\ \A t \in Sessions \ {s} : perform'[t] = perform[t]

LEMMA NextQueueTypes ==
    ASSUME GcTypes, NEW s \in Sessions, NextQueue(s)
    PROVE  NextQueueFrame(s)
<1>0. /\ pc \in [Sessions -> PC] /\ epoch \in [Sessions -> 0..MaxCsn]
      /\ csn \in 0..MaxCsn /\ 0 \in 0..MaxCsn /\ 0 \in 0..MaxCsn + 1 /\ MaxCsn \in Nat
      /\ closing \in [Sessions -> BOOLEAN] /\ fresh \in [Sessions -> BOOLEAN]
      /\ que \in [Sessions -> Queues] /\ perform \in [Sessions -> 0..MaxCsn + 1]
      /\ FALSE \in BOOLEAN /\ Queues = {1, 2, 3}
  <2>1. Queues = {1, 2, 3}
    BY DEF Queues
  <2>2. csn \in Csn /\ MaxCsn \in Nat
    BY GcAssumption DEF GcTypes
  <2>3. csn \in 0..MaxCsn /\ 0 \in 0..MaxCsn /\ 0 \in 0..MaxCsn + 1 /\ MaxCsn \in Nat
    BY <2>2 DEF Csn
  <2> QED  BY <2>1, <2>3 DEF GcTypes
<1>1. CASE que[s] < 3
  <2>1. /\ que' = [que EXCEPT ![s] = @ + 1] /\ pc' = [pc EXCEPT ![s] = "queue"]
        /\ epoch' = [epoch EXCEPT ![s] = IF closing[s] THEN @ ELSE csn]
        /\ UNCHANGED <<perform, fresh, closing>>
    BY <1>1 DEF NextQueue
  <2>2. que[s] + 1 \in Queues /\ "queue" \in PC
    BY <1>0, <1>1 DEF PC
  <2>3. /\ que' \in [Sessions -> Queues] /\ \A t \in Sessions \ {s} : que'[t] = que[t]
        /\ pc' \in [Sessions -> PC] /\ \A t \in Sessions \ {s} : pc'[t] = pc[t]
    BY <1>0, <2>1, <2>2
  <2>4. epoch' \in [Sessions -> 0..MaxCsn] /\ \A t \in Sessions \ {s} : epoch'[t] = epoch[t]
    BY <1>0, <2>1
  <2> QED  BY <1>0, <2>1, <2>3, <2>4 DEF NextQueueFrame
<1>2. CASE ~(que[s] < 3)
  <2>1. /\ que' = [que EXCEPT ![s] = 1]
        /\ pc' = [pc EXCEPT ![s] = IF closing[s] THEN "remove" ELSE "idle"]
        /\ epoch' = [epoch EXCEPT ![s] = 0] /\ perform' = [perform EXCEPT ![s] = 0]
        /\ fresh' = [fresh EXCEPT ![s] = FALSE] /\ closing' = [closing EXCEPT ![s] = FALSE]
    BY <1>2 DEF NextQueue
  <2>2. (IF closing[s] THEN "remove" ELSE "idle") \in PC
    BY DEF PC
  <2>3. /\ pc' \in [Sessions -> PC] /\ \A t \in Sessions \ {s} : pc'[t] = pc[t]
        /\ que' \in [Sessions -> Queues] /\ \A t \in Sessions \ {s} : que'[t] = que[t]
    BY <1>0, <2>1, <2>2
  <2>4. /\ epoch' \in [Sessions -> 0..MaxCsn] /\ \A t \in Sessions \ {s} : epoch'[t] = epoch[t]
        /\ perform' \in [Sessions -> 0..MaxCsn + 1]
        /\ \A t \in Sessions \ {s} : perform'[t] = perform[t]
    BY <1>0, <2>1
  <2>5. fresh' \in [Sessions -> BOOLEAN] /\ \A t \in Sessions \ {s} : fresh'[t] = fresh[t]
    BY <1>0, <2>1, ChangeAt, Zenon
  <2>6. /\ closing' \in [Sessions -> BOOLEAN]
        /\ \A t \in Sessions \ {s} : closing'[t] = closing[t]
    BY <1>0, <2>1, ChangeAt, Zenon
  <2> QED  BY <2>3, <2>4, <2>5, <2>6 DEF NextQueueFrame
<1> QED  BY <1>1, <1>2

\* The steps of the collector that move between queues and epochs.
LEMMA QueueFrame ==
    ASSUME GcInv, NEW s \in Sessions,
           \/ SkipQuiesce(s) \/ RunQuicese(s) \/ GcCleanAll(s) \/ PassQueue(s)
           \/ AddToGcList(s) \/ RemoveFromGcList(s) \/ CleanWithKnown(s)
           \/ SetActiveEpoch(s) \/ SetActiveEpochBusy(s) \/ \E t \in Sessions : VisitManager(s, t)
           \/ PublishMinimum(s) \/ SetPerformGcEpoch(s)
    PROVE  Frame(s)
<1>0. /\ GcTypes /\ Csn \subseteq 0..MaxCsn /\ 0 \in 0..MaxCsn /\ MaxCsn \in Nat
      /\ 0..MaxCsn \subseteq 0..MaxCsn + 1
  BY GcAssumption DEF GcInv, Csn
<1>t. /\ pc \in [Sessions -> PC] /\ epoch \in [Sessions -> 0..MaxCsn] /\ csn \in 0..MaxCsn
      /\ closing \in [Sessions -> BOOLEAN] /\ fresh \in [Sessions -> BOOLEAN]
      /\ que \in [Sessions -> Queues] /\ perform \in [Sessions -> 0..MaxCsn + 1]
      /\ scan \in [Sessions -> ScanOf] /\ active \in 0..MaxCsn
      /\ glock \in Sessions \cup {Nobody}
  BY <1>0 DEF GcTypes
<1>u. Queues = {1, 2, 3}
  BY DEF Queues
<1>1. CASE SkipQuiesce(s) \/ AddToGcList(s) \/ RemoveFromGcList(s)
  <2>1. /\ UNCHANGED <<csn, active, glock, sentVars, txnVars, limbo, gcVars>>
        /\ \E a \in PC : pc' = [pc EXCEPT ![s] = a]
        /\ epoch' = [epoch EXCEPT ![s] = 0] \/ epoch' = epoch
    BY <1>1 DEF SkipQuiesce, AddToGcList, RemoveFromGcList, ChangeGcList, Goto, PC
  <2>2. /\ pc' \in [Sessions -> PC] /\ \A t \in Sessions \ {s} : pc'[t] = pc[t]
        /\ epoch' \in [Sessions -> 0..MaxCsn] /\ \A t \in Sessions \ {s} : epoch'[t] = epoch[t]
    BY <1>0, <1>t, <2>1
  <2> QED  BY <1>0, <1>t, <2>1, <2>2, LocalFrame DEF gcVars
<1>2. ASSUME NEW from, NEW close \in BOOLEAN, StartCleaning(s, from, close)
      PROVE  Frame(s)
  <2>1. /\ UNCHANGED <<csn, active, glock, sentVars, txnVars, limbo, dels, perform, fresh, scan, cur>>
        /\ pc' = [pc EXCEPT ![s] = "queue"] /\ epoch' = [epoch EXCEPT ![s] = csn]
        /\ closing' = [closing EXCEPT ![s] = close] /\ que' = [que EXCEPT ![s] = 1]
    BY <1>2 DEF StartCleaning, Goto
  <2>2. "queue" \in PC
    BY DEF PC
  <2>3. /\ closing' \in [Sessions -> BOOLEAN]
        /\ \A t \in Sessions \ {s} : closing'[t] = closing[t]
    BY <1>t, <2>1, ChangeAt, Zenon
  <2>4. /\ pc' \in [Sessions -> PC] /\ \A t \in Sessions \ {s} : pc'[t] = pc[t]
        /\ epoch' \in [Sessions -> 0..MaxCsn] /\ \A t \in Sessions \ {s} : epoch'[t] = epoch[t]
        /\ que' \in [Sessions -> Queues] /\ \A t \in Sessions \ {s} : que'[t] = que[t]
    BY <1>t, <1>u, <2>1, <2>2
  <2> QED  BY <1>0, <1>t, <2>1, <2>3, <2>4, LocalFrame
<1>3. CASE PassQueue(s)
  <2>1. /\ NextQueue(s)
        /\ UNCHANGED <<csn, active, glock, sentVars, txnVars, limbo, dels, scan, cur>>
    BY <1>3 DEF PassQueue
  <2>2. NextQueueFrame(s)
    BY <1>0, <2>1, NextQueueTypes
  <2> QED  BY <1>0, <1>t, <2>1, <2>2, LocalFrame DEF NextQueueFrame
<1>4. CASE CleanWithKnown(s)
  <2>1. /\ UNCHANGED <<csn, active, glock, sentVars, txnVars, limbo, dels, closing, que, fresh,
                       scan, cur>>
        /\ pc' = [pc EXCEPT ![s] = "clean"] /\ epoch' = [epoch EXCEPT ![s] = csn]
        /\ perform' = [perform EXCEPT ![s] = IF fresh[s] THEN @ ELSE active]
    BY <1>4 DEF CleanWithKnown, Goto
  <2>2. /\ pc' \in [Sessions -> PC] /\ \A t \in Sessions \ {s} : pc'[t] = pc[t]
        /\ epoch' \in [Sessions -> 0..MaxCsn] /\ \A t \in Sessions \ {s} : epoch'[t] = epoch[t]
    BY <1>t, <2>1 DEF PC
  <2>3. /\ perform' \in [Sessions -> 0..MaxCsn + 1]
        /\ \A t \in Sessions \ {s} : perform'[t] = perform[t]
    BY <1>0, <1>t, <2>1
  <2> QED  BY <1>0, <1>t, <2>1, <2>2, <2>3, LocalFrame
<1>5. ASSUME NEW r \in ScanOf, NEW a \in PC,
             UNCHANGED <<csn, active, sentVars, txnVars, limbo, dels, closing, que, perform, fresh,
                         cur>>,
             glock' \in Sessions \cup {Nobody},
             epoch' = [epoch EXCEPT ![s] = csn] \/ epoch' = epoch,
             pc' = [pc EXCEPT ![s] = a], scan' = [scan EXCEPT ![s] = r]
      PROVE  Frame(s)
  <2>1. /\ pc' \in [Sessions -> PC] /\ \A t \in Sessions \ {s} : pc'[t] = pc[t]
        /\ epoch' \in [Sessions -> 0..MaxCsn] /\ \A t \in Sessions \ {s} : epoch'[t] = epoch[t]
        /\ scan' \in [Sessions -> ScanOf] /\ \A t \in Sessions \ {s} : scan'[t] = scan[t]
    BY <1>t, <1>5
  <2> QED  BY <1>0, <1>t, <1>5, <2>1, LocalFrame
<1>6. CASE SetActiveEpoch(s)
  <2>1. [left |-> {t \in Sessions : pc[t] # "closed"}, min |-> 0, others |-> FALSE] \in ScanOf
    BY <1>0 DEF ScanOf
  <2>2. "scan" \in PC /\ s \in Sessions \cup {Nobody}
    BY DEF PC
  <2> QED  BY <1>5, <1>6, <2>1, <2>2 DEF SetActiveEpoch, Goto
<1>7. CASE SetActiveEpochBusy(s)
  <2>1. [NoScan EXCEPT !.others = TRUE] \in ScanOf
    BY <1>0 DEF NoScan, ScanOf
  <2>2. "perform" \in PC
    BY DEF PC
  <2> QED  BY <1>t, <1>5, <1>7, <2>1, <2>2 DEF SetActiveEpochBusy, Goto
<1>8. ASSUME NEW t \in Sessions, VisitManager(s, t)
      PROVE  Frame(s)
  <2> DEFINE o == scan[s]
             m == IF epoch[t] = 0 THEN o.min ELSE LowerEpoch(o.min, epoch[t])
             b == o.others \/ (epoch[t] # 0 /\ t # s)
             r == [left |-> o.left \ {t}, min |-> m, others |-> b]
  <2>1. o \in ScanOf /\ epoch[t] \in 0..MaxCsn
    BY <1>t
  <2>2. m \in 0..MaxCsn
    BY <2>1 DEF ScanOf, LowerEpoch
  <2>3. b \in BOOLEAN
    OBVIOUS
  <2>4. o.left \ {t} \in SUBSET Sessions
    BY <2>1 DEF ScanOf
  <2>5. scan' = [scan EXCEPT ![s] = r]
    BY <1>8 DEF VisitManager
  <2> HIDE DEF m, b
  <2>6. r \in ScanOf
    BY <2>2, <2>3, <2>4 DEF ScanOf
  <2> HIDE DEF r, o
  <2>7. /\ UNCHANGED <<csn, active, glock, sentVars, pc, epoch, txnVars, limbo, dels, closing, que,
                       perform, fresh, cur>>
    BY <1>8 DEF VisitManager
  <2>8. pc' = [pc EXCEPT ![s] = pc[s]] /\ pc[s] \in PC
    BY <1>t, <2>7
  <2> QED  BY <1>5, <1>t, <2>5, <2>6, <2>7, <2>8
<1>9. CASE PublishMinimum(s)
  <2>1. scan[s].min \in 0..MaxCsn
    BY <1>t DEF ScanOf
  <2>2. active' \in 0..MaxCsn /\ glock' \in Sessions \cup {Nobody}
    BY <1>9, <1>t, <2>1 DEF PublishMinimum
  <2>3. UNCHANGED <<csn, sentVars, epoch, txnVars, limbo, gcVars>>
        /\ pc' = [pc EXCEPT ![s] = "perform"]
    BY <1>9 DEF PublishMinimum, Goto
  <2>4. pc' \in [Sessions -> PC] /\ \A t \in Sessions \ {s} : pc'[t] = pc[t]
    BY <1>t, <2>3 DEF PC
  <2> QED  BY <1>0, <1>t, <2>2, <2>3, <2>4, LocalFrame DEF gcVars
<1>10. CASE SetPerformGcEpoch(s)
  <2>1. NoScan \in ScanOf /\ "clean" \in PC /\ TRUE \in BOOLEAN
    BY <1>0 DEF NoScan, ScanOf, PC
  <2>2. PerformEpoch(s) \in 0..MaxCsn + 1
    <3>1. active + 1 \in 0..MaxCsn + 1 /\ active \in 0..MaxCsn + 1
      BY <1>0, <1>t
    <3> QED  BY <3>1, Zenon DEF PerformEpoch
  <2>3. /\ pc' = [pc EXCEPT ![s] = "clean"] /\ scan' = [scan EXCEPT ![s] = NoScan]
        /\ perform' = [perform EXCEPT ![s] = PerformEpoch(s)]
        /\ fresh' = [fresh EXCEPT ![s] = TRUE]
        /\ UNCHANGED <<csn, active, glock, sentVars, epoch, txnVars, limbo, dels, closing, que, cur>>
    BY <1>10 DEF SetPerformGcEpoch, Goto
  <2>4. /\ fresh' \in [Sessions -> BOOLEAN]
        /\ \A t \in Sessions \ {s} : fresh'[t] = fresh[t]
    BY <1>t, <2>1, <2>3, ChangeAt, Zenon
  <2>5. /\ pc' \in [Sessions -> PC] /\ \A t \in Sessions \ {s} : pc'[t] = pc[t]
        /\ perform' \in [Sessions -> 0..MaxCsn + 1]
        /\ \A t \in Sessions \ {s} : perform'[t] = perform[t]
        /\ scan' \in [Sessions -> ScanOf] /\ \A t \in Sessions \ {s} : scan'[t] = scan[t]
    BY <1>t, <2>1, <2>2, <2>3
  <2> QED  BY <1>0, <1>t, <2>3, <2>4, <2>5, LocalFrame
<1>11. CASE RunQuicese(s) \/ GcCleanAll(s)
  BY <1>2, <1>11 DEF RunQuicese, GcCleanAll
<1> QED  BY <1>1, <1>3, <1>4, <1>6, <1>7, <1>8, <1>9, <1>10, <1>11

\* What CleanElement does, for the element e of queue q.
CleanEffect(s, q, e) ==
    /\ Frame(s)
    /\ pc[s] = "clean" /\ q = que[s] /\ q \in Queues
    /\ limbo[s][q] # <<>> /\ e = Head(limbo[s][q]) /\ e \in Element /\ e.csn < perform[s]
    /\ UNCHANGED <<csn, active, glock, index, refs, tombs, epoch, txnVars, dels, closing, que,
                   perform, fresh, scan>>
    /\ \A y \in Sentinels : gcRefs'[y] = gcRefs[y] - (IF y = e.sent THEN 1 ELSE 0)
    /\ limbo'[s][q] = Tail(limbo[s][q])
    /\ \A p \in Queues \ {q} : limbo'[s][p] = limbo[s][p]
    /\ Removable(e.sent) =>
        /\ used' = used \ {e.sent}
        /\ rows'[e.sent] = {} /\ hist'[e.sent] = {} /\ minCsn'[e.sent] = 0
        /\ \A y \in Sentinels \ {e.sent} :
             rows'[y] = rows[y] /\ hist'[y] = hist[y] /\ minCsn'[y] = minCsn[y]
    /\ ~Removable(e.sent) => UNCHANGED <<used, rows, hist, minCsn>>
    /\ IF Removable(e.sent) \/ e.kind = "sentinel" THEN UNCHANGED <<pc, cur>>
       ELSE /\ pc'[s] = "dtor"
            /\ cur'[s] = [kind |-> e.kind, sent |-> e.sent, row |-> e.row, csn |-> e.csn,
                          slot |-> gcRefs[e.sent] - 1]

LEMMA CleanIs ==
    ASSUME GcInv, NEW s \in Sessions, CleanElement(s)
    PROVE  \E q \in Queues : \E e \in Element : CleanEffect(s, q, e)
<1> DEFINE q == que[s]
           e == Head(limbo[s][que[s]])
           x == e.sent
           c == [kind |-> e.kind, sent |-> e.sent, row |-> e.row, csn |-> e.csn,
                 slot |-> gcRefs[e.sent] - 1]
<1>0. GcTypes /\ MaxCsn \in Nat /\ 0 \in 0..MaxCsn
  BY GcAssumption DEF GcInv
<1>t. /\ limbo \in [Sessions -> [Queues -> Seq(Element)]] /\ gcRefs \in [Sentinels -> Int]
      /\ que \in [Sessions -> Queues] /\ rows \in [Sentinels -> SUBSET Csn]
      /\ hist \in [Sentinels -> SUBSET Csn] /\ minCsn \in [Sentinels -> 0..MaxCsn]
      /\ pc \in [Sessions -> PC] /\ cur \in [Sessions -> DtorElement \cup {NoElement}]
      /\ used \in SUBSET Sentinels
  BY <1>0 DEF GcTypes
<1>1. /\ pc[s] = "clean" /\ limbo[s][q] # <<>> /\ e.csn < perform[s]
      /\ gcRefs' = [gcRefs EXCEPT ![x] = @ - 1]
      /\ limbo' = [limbo EXCEPT ![s][q] = Tail(@)]
      /\ UNCHANGED <<csn, active, glock, index, refs, tombs, epoch, txnVars, dels, closing, que,
                     perform, fresh, scan>>
  BY DEF CleanElement, Ripe
<1>2. /\ Removable(x) => /\ used' = used \ {x} /\ rows' = [rows EXCEPT ![x] = {}]
                         /\ hist' = [hist EXCEPT ![x] = {}] /\ minCsn' = [minCsn EXCEPT ![x] = 0]
      /\ ~Removable(x) => UNCHANGED <<used, rows, hist, minCsn>>
  BY DEF CleanElement
<1>3. /\ Removable(x) \/ e.kind = "sentinel" => UNCHANGED <<pc, cur>>
      /\ ~(Removable(x) \/ e.kind = "sentinel") => /\ pc' = [pc EXCEPT ![s] = "dtor"]
                                                   /\ cur' = [cur EXCEPT ![s] = c]
  BY DEF CleanElement
<1>4. q \in Queues
  BY <1>t
<1>5. limbo[s][q] \in Seq(Element) /\ e \in Element
  BY <1>1, <1>4, <1>t
<1>6. x \in Sentinels /\ e.csn \in Csn /\ e.row \in 0..MaxCsn
      /\ e.kind \in {"delete", "version", "sentinel"}
  BY <1>5 DEF Element
<1>7. Tail(limbo[s][q]) \in Seq(Element)
  BY <1>1, <1>5
<1> HIDE DEF q, e, x
<1>8. /\ limbo' \in [Sessions -> [Queues -> Seq(Element)]]
      /\ limbo'[s][q] = Tail(limbo[s][q])
      /\ \A p \in Queues \ {q} : limbo'[s][p] = limbo[s][p]
      /\ \A t \in Sessions \ {s} : limbo'[t] = limbo[t]
  <2> DEFINE l == Tail(limbo[s][q])
  <2>1. limbo' = [limbo EXCEPT ![s][q] = l] /\ l \in Seq(Element)
    BY <1>1, <1>7
  <2> HIDE DEF l
  <2>2. /\ limbo' \in [Sessions -> [Queues -> Seq(Element)]] /\ limbo'[s][q] = l
        /\ \A p \in Queues \ {q} : limbo'[s][p] = limbo[s][p]
        /\ \A t \in Sessions \ {s} : limbo'[t] = limbo[t]
    BY <1>4, <1>t, <2>1
  <2> QED  BY <2>2 DEF l
<1>9. /\ gcRefs' \in [Sentinels -> Int]
      /\ \A y \in Sentinels : gcRefs'[y] = gcRefs[y] - (IF y = x THEN 1 ELSE 0)
  BY <1>1, <1>6, <1>t
<1>10. /\ rows' \in [Sentinels -> SUBSET Csn] /\ hist' \in [Sentinels -> SUBSET Csn]
       /\ minCsn' \in [Sentinels -> 0..MaxCsn] /\ used' \in SUBSET Sentinels
  <2>1. CASE Removable(x)
    <3>1. {} \in SUBSET Csn
      OBVIOUS
    <3>2. rows' \in [Sentinels -> SUBSET Csn] /\ hist' \in [Sentinels -> SUBSET Csn]
      BY <1>2, <1>6, <1>t, <2>1, <3>1, ChangeAt, Zenon
    <3>3. minCsn' \in [Sentinels -> 0..MaxCsn] /\ used' \in SUBSET Sentinels
      <4>1. minCsn' = [minCsn EXCEPT ![x] = 0] /\ used' = used \ {x}
        BY <1>2, <2>1
      <4>2. minCsn' \in [Sentinels -> 0..MaxCsn]
        BY <1>0, <1>6, <1>t, <4>1, ChangeAt, Zenon
      <4> QED  BY <1>t, <4>1, <4>2
    <3> QED  BY <3>2, <3>3
  <2>2. CASE ~Removable(x)
    BY <1>2, <1>t, <2>2
  <2> QED  BY <2>1, <2>2
<1>11. Removable(x) =>
        /\ used' = used \ {x} /\ rows'[x] = {} /\ hist'[x] = {} /\ minCsn'[x] = 0
        /\ \A y \in Sentinels \ {x} :
             rows'[y] = rows[y] /\ hist'[y] = hist[y] /\ minCsn'[y] = minCsn[y]
  BY <1>2, <1>6, <1>t
<1>12. e.kind # "sentinel" => c \in DtorElement
  BY <1>6, <1>t DEF DtorElement, x
<1>13. /\ pc' \in [Sessions -> PC] /\ cur' \in [Sessions -> DtorElement \cup {NoElement}]
       /\ \A t \in Sessions \ {s} : pc'[t] = pc[t] /\ cur'[t] = cur[t]
       /\ ~(Removable(x) \/ e.kind = "sentinel") => pc'[s] = "dtor" /\ cur'[s] = c
  <2>1. CASE Removable(x) \/ e.kind = "sentinel"
    BY <1>3, <1>t, <2>1
  <2>2. CASE ~(Removable(x) \/ e.kind = "sentinel")
    <3>1. pc' = [pc EXCEPT ![s] = "dtor"] /\ cur' = [cur EXCEPT ![s] = c] /\ c \in DtorElement
          /\ "dtor" \in PC
      BY <1>3, <1>12, <2>2 DEF PC
    <3> HIDE DEF c
    <3> QED  BY <1>t, <2>2, <3>1
  <2> QED  BY <2>1, <2>2
<1>14. GcTypes'
  BY <1>0, <1>1, <1>8, <1>9, <1>10, <1>13 DEF GcTypes, txnVars
<1>15. \A t \in Sessions \ {s} : Same(t)
  BY <1>1, <1>8, <1>13 DEF Same, txnVars
<1>16. Frame(s)
  BY <1>14, <1>15 DEF Frame
<1>17. e = Head(limbo[s][q]) /\ q = que[s] /\ e.sent = x
  BY DEF e, q, x
<1>18. IF Removable(x) \/ e.kind = "sentinel" THEN UNCHANGED <<pc, cur>>
       ELSE pc'[s] = "dtor" /\ cur'[s] = c
  BY <1>3, <1>13
<1>19. CleanEffect(s, q, e)
  BY <1>1, <1>2, <1>4, <1>5, <1>8, <1>9, <1>11, <1>16, <1>17, <1>18, SMTT(40) DEF CleanEffect
<1> QED  BY <1>4, <1>5, <1>19

\* What SkipDtor does.
LEMMA SkipDtorFrame ==
    ASSUME GcInv, NEW s \in Sessions, SkipDtor(s)
    PROVE  /\ Frame(s) /\ pc[s] = "dtor" /\ pc'[s] = "clean"
           /\ UNCHANGED <<csn, active, glock, sentVars, epoch, txnVars, limbo, dels, closing, que,
                          perform, fresh, scan>>
<1>0. GcTypes
  BY DEF GcInv
<1>1. /\ pc[s] = "dtor" /\ pc' = [pc EXCEPT ![s] = "clean"] /\ cur' = [cur EXCEPT ![s] = NoElement]
      /\ UNCHANGED <<csn, active, glock, sentVars, epoch, txnVars, limbo, dels, closing, que,
                     perform, fresh, scan>>
  BY DEF SkipDtor, Goto
<1>2. /\ pc \in [Sessions -> PC] /\ cur \in [Sessions -> DtorElement \cup {NoElement}]
      /\ "clean" \in PC
  BY <1>0 DEF GcTypes, PC
<1>3. /\ pc' \in [Sessions -> PC] /\ cur' \in [Sessions -> DtorElement \cup {NoElement}]
      /\ pc'[s] = "clean" /\ \A t \in Sessions \ {s} : pc'[t] = pc[t] /\ cur'[t] = cur[t]
  BY <1>1, <1>2
<1>4. GcTypes'
  BY <1>0, <1>1, <1>3 DEF GcTypes, sentVars, txnVars
<1>5. \A t \in Sessions \ {s} : Same(t)
  BY <1>1, <1>3 DEF Same, txnVars
<1> QED  BY <1>1, <1>3, <1>4, <1>5 DEF Frame

\* What the callbacks do to the sentinel: rows below `low` go, and the tombstones in `off`
\* are counted off.
DtorEffect(s, e, low, off) ==
    LET x == e.sent
        n == Cardinality(off)
    IN  /\ Frame(s)
        /\ pc[s] = "dtor" /\ pc'[s] = "clean" /\ e = cur[s] /\ minCsn[x] < e.csn
        /\ UNCHANGED <<csn, active, glock, used, tombs, hist, epoch, txnVars, limbo, closing, que,
                       perform, fresh, scan>>
        /\ minCsn'[x] = e.csn /\ \A y \in Sentinels \ {x} : minCsn'[y] = minCsn[y]
        /\ low <= e.row
        /\ rows'[x] = {r \in rows[x] : r >= low}
        /\ \A y \in Sentinels \ {x} : rows'[y] = rows[y]
        /\ IsFiniteSet(off) /\ n \in Nat
        /\ \A r \in off : \/ r \in Owed(x) /\ r < e.row
                          \/ r = e.row /\ e.kind = "delete" /\ Top(x) = e.row
        /\ refs'[x] = refs[x] - n /\ \A y \in Sentinels \ {x} : refs'[y] = refs[y]
        /\ n > 0 /\ refs[x] = n =>
            /\ index' = Nobody
            /\ gcRefs'[x] = gcRefs[x] + 1 /\ \A y \in Sentinels \ {x} : gcRefs'[y] = gcRefs[y]
            /\ dels'[s] = Append(dels[s], x)
        /\ ~(n > 0 /\ refs[x] = n) => UNCHANGED <<index, gcRefs, dels>>

\* GCRemoveRow keeps the types.
LEMMA RemoveRowIs ==
    ASSUME GcTypes, NEW s \in Sessions, NEW x \in Sentinels, NEW n \in Nat, GCRemoveRow(s, x, n)
    PROVE  /\ refs' \in [Sentinels -> Int] /\ gcRefs' \in [Sentinels -> Int]
           /\ index' \in Sentinels \cup {Nobody} /\ dels' \in [Sessions -> Seq(Sentinels)]
           /\ \A t \in Sessions \ {s} : dels'[t] = dels[t]
           /\ refs'[x] = refs[x] - n /\ \A y \in Sentinels \ {x} : refs'[y] = refs[y]
           /\ n > 0 /\ refs[x] = n =>
               /\ index' = Nobody
               /\ gcRefs'[x] = gcRefs[x] + 1 /\ \A y \in Sentinels \ {x} : gcRefs'[y] = gcRefs[y]
               /\ dels'[s] = Append(dels[s], x)
           /\ ~(n > 0 /\ refs[x] = n) => UNCHANGED <<index, gcRefs, dels>>
<1>0. /\ refs \in [Sentinels -> Int] /\ gcRefs \in [Sentinels -> Int]
      /\ index \in Sentinels \cup {Nobody} /\ dels \in [Sessions -> Seq(Sentinels)]
  BY DEF GcTypes
<1>1. refs' = [refs EXCEPT ![x] = @ - n]
  BY DEF GCRemoveRow
<1>2. refs' \in [Sentinels -> Int] /\ refs'[x] = refs[x] - n
      /\ \A y \in Sentinels \ {x} : refs'[y] = refs[y]
  BY <1>0, <1>1
<1>3. CASE n > 0 /\ refs[x] = n
  <2>1. /\ index' = Nobody /\ gcRefs' = [gcRefs EXCEPT ![x] = @ + 1]
        /\ dels' = [dels EXCEPT ![s] = Append(@, x)]
    BY <1>3 DEF GCRemoveRow
  <2>2. /\ gcRefs' \in [Sentinels -> Int] /\ gcRefs'[x] = gcRefs[x] + 1
        /\ \A y \in Sentinels \ {x} : gcRefs'[y] = gcRefs[y]
    BY <1>0, <2>1
  <2>3. Append(dels[s], x) \in Seq(Sentinels)
    BY <1>0
  <2>4. /\ dels' \in [Sessions -> Seq(Sentinels)] /\ dels'[s] = Append(dels[s], x)
        /\ \A t \in Sessions \ {s} : dels'[t] = dels[t]
    BY <1>0, <2>1, <2>3
  <2> QED  BY <1>2, <1>3, <2>1, <2>2, <2>4
<1>4. CASE ~(n > 0 /\ refs[x] = n)
  <2>1. UNCHANGED <<index, gcRefs, dels>>
    BY <1>4 DEF GCRemoveRow
  <2> QED  BY <1>0, <1>2, <1>4, <2>1
<1> QED  BY <1>3, <1>4

LEMMA DtorIs ==
    ASSUME GcInv, NEW s \in Sessions, Dtor(s)
    PROVE  /\ cur[s] \in DtorElement
           /\ \E low \in Nat : \E off \in SUBSET Csn : DtorEffect(s, cur[s], low, off)
<1> DEFINE e == cur[s]
           x == e.sent
<1>0. /\ GcTypes /\ DtorInv(s) /\ MaxCsn \in Nat
  BY GcAssumption DEF GcInv
<1>1. /\ pc[s] = "dtor" /\ pc' = [pc EXCEPT ![s] = "clean"] /\ cur' = [cur EXCEPT ![s] = NoElement]
      /\ ~Overtaken(e)
      /\ UNCHANGED <<csn, active, glock, used, tombs, hist, epoch, txnVars, limbo, closing, que,
                     perform, fresh, scan>>
  BY DEF Dtor, Goto
<1>2. e \in DtorElement
  BY <1>0, <1>1 DEF DtorInv
<1>3. x \in Sentinels /\ e.row \in 0..MaxCsn /\ e.csn \in Csn /\ e.csn \in 0..MaxCsn
      /\ e.row \in Nat /\ e.csn \in Nat
  BY <1>0, <1>2 DEF DtorElement, Csn
<1>4. /\ minCsn \in [Sentinels -> 0..MaxCsn] /\ rows \in [Sentinels -> SUBSET Csn]
      /\ pc \in [Sessions -> PC] /\ cur \in [Sessions -> DtorElement \cup {NoElement}]
      /\ tombs \in SUBSET Csn
  BY <1>0 DEF GcTypes
<1>5. minCsn[x] < e.csn
  BY <1>1, <1>3, <1>4 DEF Overtaken
<1> HIDE DEF e, x
<1>6. \A off \in SUBSET Csn : IsFiniteSet(off) /\ Cardinality(off) \in Nat
  <2>1. ASSUME NEW off \in SUBSET Csn
        PROVE  IsFiniteSet(off) /\ Cardinality(off) \in Nat
    <3>1. off \in SUBSET Nat /\ \A r \in off : r <= MaxCsn
      BY <1>0 DEF Csn
    <3>2. IsFiniteSet(off)
      BY <1>0, <3>1, FS_BoundedSetOfNaturals
    <3> QED  BY <3>2, FS_CardinalityType
  <2> QED  BY <2>1
<1>7. /\ pc' \in [Sessions -> PC] /\ cur' \in [Sessions -> DtorElement \cup {NoElement}]
      /\ pc'[s] = "clean" /\ \A t \in Sessions \ {s} : pc'[t] = pc[t] /\ cur'[t] = cur[t]
  BY <1>1, <1>4 DEF PC
<1>8. ASSUME NEW low \in Nat, NEW off \in SUBSET Csn, low <= e.row,
             minCsn' = [minCsn EXCEPT ![x] = e.csn],
             rows' = [rows EXCEPT ![x] = @ \ {r \in rows[x] : r < low}],
             GCRemoveRow(s, x, Cardinality(off)),
             \A r \in off : \/ r \in Owed(x) /\ r < e.row
                            \/ r = e.row /\ e.kind = "delete" /\ Top(x) = e.row
      PROVE  DtorEffect(s, e, low, off)
  <2>1. /\ minCsn' \in [Sentinels -> 0..MaxCsn] /\ minCsn'[x] = e.csn
        /\ \A y \in Sentinels \ {x} : minCsn'[y] = minCsn[y]
    BY <1>3, <1>4, <1>8
  <2> DEFINE R == rows[x] \ {r \in rows[x] : r < low}
  <2>2. R \in SUBSET Csn
    BY <1>3, <1>4
  <2>3. rows' = [rows EXCEPT ![x] = R]
    BY <1>8
  <2>4. R = {r \in rows[x] : r >= low}
    <3>1. \A r \in rows[x] : r \in Nat
      BY <1>3, <1>4 DEF Csn
    <3> QED  BY <1>8, <3>1
  <2> HIDE DEF R
  <2>5. /\ rows' \in [Sentinels -> SUBSET Csn] /\ rows'[x] = {r \in rows[x] : r >= low}
        /\ \A y \in Sentinels \ {x} : rows'[y] = rows[y]
    BY <1>3, <1>4, <2>2, <2>3, <2>4
  <2> DEFINE n == Cardinality(off)
  <2>6. n \in Nat /\ IsFiniteSet(off) /\ GCRemoveRow(s, x, n)
    BY <1>6, <1>8
  <2> HIDE DEF n
  <2>7. /\ refs' \in [Sentinels -> Int] /\ gcRefs' \in [Sentinels -> Int]
        /\ index' \in Sentinels \cup {Nobody} /\ dels' \in [Sessions -> Seq(Sentinels)]
        /\ \A t \in Sessions \ {s} : dels'[t] = dels[t]
        /\ refs'[x] = refs[x] - n /\ \A y \in Sentinels \ {x} : refs'[y] = refs[y]
        /\ n > 0 /\ refs[x] = n =>
            /\ index' = Nobody
            /\ gcRefs'[x] = gcRefs[x] + 1 /\ \A y \in Sentinels \ {x} : gcRefs'[y] = gcRefs[y]
            /\ dels'[s] = Append(dels[s], x)
        /\ ~(n > 0 /\ refs[x] = n) => UNCHANGED <<index, gcRefs, dels>>
    BY <1>0, <1>3, <2>6, RemoveRowIs
  <2>8. GcTypes'
    BY <1>0, <1>1, <1>7, <2>1, <2>5, <2>7 DEF GcTypes, txnVars
  <2>9. \A t \in Sessions \ {s} : Same(t)
    BY <1>1, <1>7, <2>7 DEF Same, txnVars
  <2>10. Frame(s)
    BY <2>8, <2>9 DEF Frame
  <2>11. x = e.sent /\ e = cur[s] /\ n = Cardinality(off)
    BY DEF x, e, n
  <2> QED  BY <1>1, <1>5, <1>7, <1>8, <2>1, <2>5, <2>6, <2>7, <2>10, <2>11 DEF DtorEffect
<1>9. CASE e.kind = "version" /\ RowVersionDtor(s)
  <2> DEFINE gone == {r \in rows[x] : r < e.row}
             off == Uncounted(x, gone, minCsn[x])
  <2>1. /\ minCsn' = [minCsn EXCEPT ![x] = e.csn]
        /\ rows' = [rows EXCEPT ![x] = @ \ {r \in rows[x] : r < e.row}]
        /\ GCRemoveRow(s, x, Cardinality(off))
    BY <1>9 DEF RowVersionDtor, e, x
  <2>2. off \in SUBSET Csn /\ \A r \in off : r \in Owed(x) /\ r < e.row
    BY <1>4 DEF Uncounted, Owed
  <2>3. e.row <= e.row
    BY <1>3
  <2> HIDE DEF off
  <2> QED  BY <1>2, <1>3, <1>8, <2>1, <2>2, <2>3 DEF e
<1>10. CASE e.kind = "delete" /\ ~MaySkipDelete(e) /\ DeleteRowDtor(s)
  <2> DEFINE below == {r \in rows[x] : r < e.row}
             next == NewestOf(below)
             gone == {r \in rows[x] : r < next}
             own == IF next = 0 THEN {} ELSE {e.row}
             off == own \cup Uncounted(x, gone, minCsn[x])
  <2>1. /\ minCsn' = [minCsn EXCEPT ![x] = e.csn]
        /\ rows' = [rows EXCEPT ![x] = @ \ {r \in rows[x] : r < next}]
        /\ GCRemoveRow(s, x, Cardinality(off))
    BY <1>10 DEF DeleteRowDtor, e, x
  <2>2. below \in SUBSET Csn
    BY <1>3, <1>4
  <2>3. next \in Nat /\ next <= e.row /\ (next # 0 => next < e.row)
    <3>1. next \in 0..MaxCsn /\ (next = 0 <=> below = {}) /\ (below # {} => next \in below)
      BY <2>2, NewestIs
    <3> HIDE DEF next
    <3> QED  BY <1>0, <1>3, <3>1
  <2>4. Top(x) = e.row
    BY <1>10 DEF MaySkipDelete, x
  <2>5. e.row \in Csn \/ next = 0
    BY <1>0, <1>3, <2>3 DEF Csn
  <2> HIDE DEF next
  <2>6. off \in SUBSET Csn
    BY <1>4, <2>5 DEF Uncounted
  <2>7. ASSUME NEW r \in off
        PROVE  \/ r \in Owed(x) /\ r < e.row
               \/ r = e.row /\ e.kind = "delete" /\ Top(x) = e.row
    <3>1. CASE r \in own
      BY <1>10, <2>4, <3>1
    <3>2. CASE r \in Uncounted(x, gone, minCsn[x])
      <4>1. r \in rows[x] /\ r < next /\ r \in tombs /\ r > minCsn[x] /\ r \in Nat
        BY <1>3, <1>4, <3>2 DEF Uncounted, Csn
      <4> QED  BY <1>3, <2>3, <4>1 DEF Owed
    <3> QED  BY <3>1, <3>2
  <2> HIDE DEF off
  <2> QED  BY <1>2, <1>8, <2>1, <2>3, <2>6, <2>7 DEF e
<1> QED  BY <1>9, <1>10 DEF Dtor, e

\* What LeaveQueue does: the delete vector moves to the generic queue.
LeaveEffect(s) ==
    /\ Frame(s) /\ pc[s] = "clean"
    /\ UNCHANGED <<csn, active, glock, sentVars, txnVars, scan, cur>>
    /\ dels'[s] = <<>>
    /\ \A q \in Queues \ {3} : limbo'[s][q] = limbo[s][q]
    /\ \E l \in Seq(Element) :
        /\ Len(l) = Len(dels[s])
        /\ \A i \in 1..Len(l) :
             l[i] = [kind |-> "sentinel", sent |-> dels[s][i], row |-> 0, csn |-> csn]
        /\ limbo'[s][3] = limbo[s][3] \o l
    /\ \/ /\ closing[s] /\ pc'[s] = "queue" /\ UNCHANGED <<que, perform, fresh, closing>>
       \/ ~closing[s] /\ NextQueue(s)

LEMMA LeaveIs ==
    ASSUME GcInv, NEW s \in Sessions, LeaveQueue(s)
    PROVE  LeaveEffect(s)
<1> DEFINE l == [i \in DOMAIN dels[s] |->
                   [kind |-> "sentinel", sent |-> dels[s][i], row |-> 0, csn |-> csn]]
<1>0. GcTypes /\ 0 \in 0..MaxCsn /\ MaxCsn \in Nat
  BY GcAssumption DEF GcInv
<1>t. /\ limbo \in [Sessions -> [Queues -> Seq(Element)]] /\ dels \in [Sessions -> Seq(Sentinels)]
      /\ csn \in Csn /\ closing \in [Sessions -> BOOLEAN] /\ pc \in [Sessions -> PC]
      /\ epoch \in [Sessions -> 0..MaxCsn]
  BY <1>0 DEF GcTypes
<1>u. 3 \in Queues
  BY DEF Queues
<1>1. /\ pc[s] = "clean" /\ RegisterDeletedSentinels(s)
      /\ UNCHANGED <<csn, active, glock, sentVars, txnVars, scan, cur>>
  BY DEF LeaveQueue
<1>2. /\ limbo' = [limbo EXCEPT ![s][3] = @ \o l] /\ dels' = [dels EXCEPT ![s] = <<>>]
  BY <1>1 DEF RegisterDeletedSentinels
<1>3. DOMAIN dels[s] = 1..Len(dels[s]) /\ Len(dels[s]) \in Nat
      /\ \A i \in 1..Len(dels[s]) : dels[s][i] \in Sentinels
  BY <1>t
<1>4. \A i \in 1..Len(dels[s]) :
        [kind |-> "sentinel", sent |-> dels[s][i], row |-> 0, csn |-> csn] \in Element
  BY <1>0, <1>3, <1>t DEF Element
<1>5. l \in Seq(Element) /\ Len(l) = Len(dels[s])
      /\ \A i \in 1..Len(l) :
             l[i] = [kind |-> "sentinel", sent |-> dels[s][i], row |-> 0, csn |-> csn]
  BY <1>3, <1>4
<1> HIDE DEF l
<1>6. limbo[s][3] \o l \in Seq(Element)
  BY <1>5, <1>t, <1>u
<1>7. /\ limbo' \in [Sessions -> [Queues -> Seq(Element)]]
      /\ limbo'[s][3] = limbo[s][3] \o l
      /\ \A p \in Queues \ {3} : limbo'[s][p] = limbo[s][p]
      /\ \A t \in Sessions \ {s} : limbo'[t] = limbo[t]
  <2> DEFINE m == limbo[s][3] \o l
  <2>1. limbo' = [limbo EXCEPT ![s][3] = m] /\ m \in Seq(Element)
    BY <1>2, <1>6
  <2> HIDE DEF m
  <2>2. /\ limbo' \in [Sessions -> [Queues -> Seq(Element)]] /\ limbo'[s][3] = m
        /\ \A p \in Queues \ {3} : limbo'[s][p] = limbo[s][p]
        /\ \A t \in Sessions \ {s} : limbo'[t] = limbo[t]
    BY <1>t, <1>u, <2>1
  <2> QED  BY <2>2 DEF m
<1>8. /\ dels' \in [Sessions -> Seq(Sentinels)] /\ dels'[s] = <<>>
      /\ \A t \in Sessions \ {s} : dels'[t] = dels[t]
  <2>1. <<>> \in Seq(Sentinels)
    OBVIOUS
  <2> QED  BY <1>2, <1>t, <2>1
<1>9. /\ NextQueueFrame(s)
      /\ \/ /\ closing[s] /\ pc'[s] = "queue" /\ UNCHANGED <<que, perform, fresh, closing>>
         \/ ~closing[s] /\ NextQueue(s)
  <2>1. CASE closing[s]
    <3>1. /\ pc' = [pc EXCEPT ![s] = "queue"] /\ epoch' = [epoch EXCEPT ![s] = 0]
          /\ UNCHANGED <<que, perform, fresh, closing>>
      BY <2>1 DEF LeaveQueue
    <3>2. /\ pc' \in [Sessions -> PC] /\ pc'[s] = "queue"
          /\ \A t \in Sessions \ {s} : pc'[t] = pc[t]
          /\ epoch' \in [Sessions -> 0..MaxCsn] /\ \A t \in Sessions \ {s} : epoch'[t] = epoch[t]
      BY <1>0, <1>t, <3>1 DEF PC
    <3>3. NextQueueFrame(s)
      BY <1>0, <3>1, <3>2 DEF NextQueueFrame, GcTypes
    <3> QED  BY <2>1, <3>1, <3>2, <3>3
  <2>2. CASE ~closing[s]
    <3>1. NextQueue(s)
      BY <2>2 DEF LeaveQueue
    <3> QED  BY <1>0, <2>2, <3>1, NextQueueTypes
  <2> QED  BY <2>1, <2>2
<1>10. GcTypes'
  BY <1>0, <1>1, <1>7, <1>8, <1>9 DEF GcTypes, NextQueueFrame, sentVars, txnVars
<1>11. \A t \in Sessions \ {s} : Same(t)
  BY <1>1, <1>7, <1>8, <1>9 DEF Same, NextQueueFrame, txnVars
<1> QED  BY <1>1, <1>5, <1>7, <1>8, <1>9, <1>10, <1>11 DEF LeaveEffect, Frame

-----------------------------------------------------------------------------
(* How the parts of the invariant survive a step of session s. *)

\* The values are numbers.
LEMMA Numbers ==
    ASSUME GcTypes
    PROVE  /\ csn \in Nat /\ csn >= 1 /\ tombs \in SUBSET Nat
           /\ \A t \in Sessions : /\ epoch[t] \in Nat /\ snap[t] \in Nat /\ mine[t] \in Nat
                                  /\ perform[t] \in Nat
           /\ \A x \in Sentinels : /\ minCsn[x] \in Nat /\ refs[x] \in Int /\ gcRefs[x] \in Int
                                   /\ rows[x] \in SUBSET Csn /\ hist[x] \in SUBSET Csn
           /\ MaxCsn \in Nat /\ Csn \subseteq Nat \ {0}
<1>1. MaxCsn \in Nat /\ Csn \subseteq Nat \ {0}
  BY GcAssumption DEF Csn
<1>2. csn \in Csn /\ tombs \in SUBSET Csn
  BY DEF GcTypes
<1>3. csn \in Nat /\ csn >= 1 /\ tombs \in SUBSET Nat
  BY <1>1, <1>2 DEF Csn
<1>4. ASSUME NEW t \in Sessions
      PROVE  epoch[t] \in Nat /\ snap[t] \in Nat /\ mine[t] \in Nat /\ perform[t] \in Nat
  <2>1. /\ epoch[t] \in 0..MaxCsn /\ snap[t] \in 0..MaxCsn /\ mine[t] \in 0..MaxCsn
        /\ perform[t] \in 0..MaxCsn + 1
    BY DEF GcTypes
  <2> QED  BY <1>1, <2>1
<1>5. ASSUME NEW x \in Sentinels
      PROVE  /\ minCsn[x] \in Nat /\ refs[x] \in Int /\ gcRefs[x] \in Int
             /\ rows[x] \in SUBSET Csn /\ hist[x] \in SUBSET Csn
  <2>1. /\ minCsn[x] \in 0..MaxCsn /\ refs[x] \in Int /\ gcRefs[x] \in Int
        /\ rows[x] \in SUBSET Csn /\ hist[x] \in SUBSET Csn
    BY DEF GcTypes
  <2> QED  BY <1>1, <2>1
<1> QED  BY <1>1, <1>3, <1>4, <1>5

LEMMA NumbersAfter ==
    ASSUME GcTypes'
    PROVE  /\ csn' \in Nat /\ csn' >= 1 /\ tombs' \in SUBSET Nat
           /\ \A t \in Sessions : /\ epoch'[t] \in Nat /\ snap'[t] \in Nat /\ mine'[t] \in Nat
                                  /\ perform'[t] \in Nat
           /\ \A x \in Sentinels : /\ minCsn'[x] \in Nat /\ refs'[x] \in Int /\ gcRefs'[x] \in Int
                                   /\ rows'[x] \in SUBSET Csn /\ hist'[x] \in SUBSET Csn
<1>1. MaxCsn \in Nat
  BY GcAssumption
<1>2. csn' \in Csn /\ tombs' \in SUBSET Csn
  BY DEF GcTypes
<1>3. csn' \in Nat /\ csn' >= 1 /\ tombs' \in SUBSET Nat
  BY <1>1, <1>2 DEF Csn
<1>4. ASSUME NEW t \in Sessions
      PROVE  epoch'[t] \in Nat /\ snap'[t] \in Nat /\ mine'[t] \in Nat /\ perform'[t] \in Nat
  <2>1. /\ epoch'[t] \in 0..MaxCsn /\ snap'[t] \in 0..MaxCsn /\ mine'[t] \in 0..MaxCsn
        /\ perform'[t] \in 0..MaxCsn + 1
    BY DEF GcTypes
  <2> QED  BY <1>1, <2>1
<1>5. ASSUME NEW x \in Sentinels
      PROVE  /\ minCsn'[x] \in Nat /\ refs'[x] \in Int /\ gcRefs'[x] \in Int
             /\ rows'[x] \in SUBSET Csn /\ hist'[x] \in SUBSET Csn
  <2>1. /\ minCsn'[x] \in 0..MaxCsn /\ refs'[x] \in Int /\ gcRefs'[x] \in Int
        /\ rows'[x] \in SUBSET Csn /\ hist'[x] \in SUBSET Csn
    BY DEF GcTypes
  <2> QED  BY <1>1, <2>1
<1> QED  BY <1>3, <1>4, <1>5

\* The members of the queues are elements.
LEMMA ElsType ==
    ASSUME GcTypes, NEW s \in Sessions
    PROVE  /\ \A q \in Queues : Els(s, q) \subseteq Element
           /\ Marked(s) \subseteq Sentinels
<1>1. dels[s] \in Seq(Sentinels) /\ \A q \in Queues : limbo[s][q] \in Seq(Element)
  BY DEF GcTypes
<1> QED  BY <1>1 DEF Els, Marked, Range

LEMMA ElementIs ==
    ASSUME NEW e \in Element
    PROVE  /\ e.kind \in {"delete", "version", "sentinel"} /\ e.sent \in Sentinels
           /\ e.row \in Nat /\ e.csn \in Nat /\ e.csn \in Csn
<1>1. e.row \in 0..MaxCsn /\ e.csn \in Csn /\ MaxCsn \in Nat
      /\ e.kind \in {"delete", "version", "sentinel"} /\ e.sent \in Sentinels
  BY GcAssumption DEF Element
<1> QED  BY <1>1 DEF Csn

\* No other session is in a window.
Alone(s) == \A t \in Sessions \ {s} : pc[t] \notin {"snap", "found", "dtor"}

\* The control state and the element being destroyed of the others.
LEMMA OthersControl ==
    ASSUME GcInv, NEW s \in Sessions, Frame(s), Alone(s), NEW t \in Sessions \ {s}
    PROVE  ControlInv(t)' /\ DtorInv(t)'
<1>1. ControlInv(t) /\ Same(t) /\ pc[t] # "found" /\ pc[t] # "dtor"
  BY DEF GcInv, Frame, Alone
<1>2. DtorInv(t)'
  BY <1>1 DEF DtorInv, Same
<1>3. ControlInv(t)'
  BY <1>1 DEF ControlInv, Same, InTxn, Cleaning, Els
<1> QED  BY <1>2, <1>3

\* A transaction keeps its epoch and snapshot, or they are the current CSN.
Reads(s) ==
    InTxn(s)' => /\ (InTxn(s) /\ epoch'[s] = epoch[s]) \/ epoch'[s] = csn
                 /\ (InTxn(s) /\ snap'[s] = snap[s]) \/ snap'[s] = csn

\* The sentinel a transaction holds is the one it held, or is in no other generic queue.
Holds(s) ==
    InTxn(s)' => \/ InTxn(s) /\ held'[s] = held[s]
                 \/ \A t \in Sessions \ {s} : Apart(t, s)'

\* The minima of the others.
LEMMA OthersMinimum ==
    ASSUME GcInv, NEW s \in Sessions, Frame(s), csn' >= csn, Reads(s), Holds(s),
           NEW t \in Sessions \ {s}
    PROVE  MinimumInv(t)'
<1>0. GcTypes /\ MinimumInv(t) /\ GcTypes' /\ Same(t)
  BY DEF GcInv, Frame
<1>n. /\ csn \in Nat /\ csn' \in Nat /\ perform[t] \in Nat
      /\ \A u \in Sessions : epoch[u] \in Nat /\ epoch'[u] \in Nat
  BY <1>0, Numbers, NumbersAfter
<1>1. /\ pc'[t] = pc[t] /\ closing'[t] = closing[t] /\ que'[t] = que[t] /\ scan'[t] = scan[t]
      /\ perform'[t] = perform[t] /\ fresh'[t] = fresh[t] /\ limbo'[t] = limbo[t]
  BY <1>0 DEF Same
<1>2. ASSUME NEW u \in Sessions, InTxn(u)'
      PROVE  /\ (InTxn(u) /\ epoch'[u] = epoch[u]) \/ epoch'[u] = csn
             /\ InTxn(u) \/ Apart(t, u)'
             /\ Apart(t, u) /\ InTxn(u) => Apart(t, u)'
             /\ ~(InTxn(u) /\ epoch'[u] = epoch[u]) => InTxn(u) \/ Apart(t, u)'
  <2>1. CASE u = s
    BY <1>1, <1>2, <2>1 DEF Reads, Holds, Apart, Els
  <2>2. CASE u # s
    <3>1. pc'[u] = pc[u] /\ epoch'[u] = epoch[u] /\ held'[u] = held[u]
      BY <2>2 DEF Frame, Same
    <3> QED  BY <1>1, <1>2, <3>1 DEF InTxn, Apart, Els
  <2> QED  BY <2>1, <2>2
<1>3. ASSUME pc'[t] \in {"scan", "perform"}, closing'[t], que'[t] = 3, ~scan'[t].others,
             NEW u \in Sessions, InTxn(u)'
      PROVE  u \in scan'[t].left \/ Apart(t, u)'
  <2>1. \A v \in Sessions : InTxn(v) => v \in scan[t].left \/ Apart(t, v)
    BY <1>0, <1>1, <1>3 DEF MinimumInv
  <2> QED  BY <1>1, <1>2, <1>3, <2>1
<1>4. ASSUME pc'[t] \in {"clean", "dtor"} \/ (fresh'[t] /\ ~closing'[t])
      PROVE  /\ perform'[t] <= csn' \/ (closing'[t] /\ que'[t] = 3)
             /\ \A u \in Sessions : InTxn(u)' =>
                  perform'[t] <= epoch'[u] \/ (closing'[t] /\ que'[t] = 3 /\ Apart(t, u)')
  <2>1. /\ perform[t] <= csn \/ (closing[t] /\ que[t] = 3)
        /\ \A u \in Sessions : InTxn(u) =>
             perform[t] <= epoch[u] \/ (closing[t] /\ que[t] = 3 /\ Apart(t, u))
    BY <1>0, <1>1, <1>4 DEF MinimumInv
  <2>2. ASSUME NEW u \in Sessions, InTxn(u)'
        PROVE  perform[t] <= epoch'[u] \/ (closing[t] /\ que[t] = 3 /\ Apart(t, u)')
    <3>1. CASE InTxn(u) /\ epoch'[u] = epoch[u]
      BY <1>2, <2>1, <2>2, <3>1
    <3>2. CASE InTxn(u) /\ epoch'[u] = csn
      <4>1. epoch[u] <= csn
        BY DEF GcInv, EpochInv, SessionInv
      <4> QED  BY <1>2, <1>n, <2>1, <2>2, <3>2, <4>1
    <3>3. CASE ~InTxn(u)
      <4>1. epoch'[u] = csn /\ Apart(t, u)'
        BY <1>2, <2>2, <3>3
      <4> QED  BY <2>1, <4>1
    <3> QED  BY <1>2, <2>2, <3>1, <3>2, <3>3
  <2>3. perform[t] <= csn' \/ (closing[t] /\ que[t] = 3)
    BY <1>n, <2>1
  <2> QED  BY <1>1, <2>2, <2>3
<1> QED  BY <1>3, <1>4 DEF MinimumInv

\* A sentinel that keeps its rows.
Keeps(x) == rows'[x] = rows[x] /\ hist'[x] = hist[x] /\ minCsn'[x] = minCsn[x]

LEMMA ChainKept ==
    ASSUME GcInv, NEW s \in Sessions, Frame(s), csn' >= csn, Reads(s),
           NEW x \in Sentinels, Keeps(x)
    PROVE  ChainInv(x)'
<1>0. GcTypes /\ ChainInv(x) /\ GcTypes'
  BY DEF GcInv, Frame
<1>n. /\ csn \in Nat /\ csn' \in Nat /\ minCsn[x] \in Nat /\ hist[x] \in SUBSET Csn
      /\ Csn \subseteq Nat /\ \A u \in Sessions : epoch[u] \in Nat /\ epoch'[u] \in Nat
  BY <1>0, Numbers, NumbersAfter
<1>1. /\ rows[x] \subseteq hist[x] /\ minCsn[x] < csn /\ \A r \in hist[x] : r < csn
      /\ \A r \in hist[x] : Shows(x, r, csn) => r \in rows[x]
      /\ \A t \in Sessions : InTxn(t) =>
          /\ minCsn[x] < epoch[t]
          /\ \A r \in hist[x] : Shows(x, r, snap[t]) => r \in rows[x]
  BY <1>0 DEF ChainInv
<1>m. ASSUME NEW r \in hist[x]
      PROVE  r \in Nat /\ r < csn /\ r < csn'
  <2>1. r \in Nat /\ r < csn /\ csn \in Nat /\ csn' \in Nat
    BY <1>1, <1>n
  <2> QED  BY <2>1
<1>2. /\ rows'[x] \subseteq hist'[x] /\ minCsn'[x] < csn' /\ \A r \in hist'[x] : r < csn'
  <2>1. minCsn[x] < csn'
    BY <1>1, <1>n
  <2> QED  BY <1>1, <1>m, <2>1 DEF Keeps
<1>3. ASSUME NEW r \in hist'[x], \A q \in hist'[x] : q < csn' => q <= r
      PROVE  r \in rows'[x]
  <2>1. r \in hist[x] /\ \A q \in hist[x] : q < csn' => q <= r
    BY <1>3 DEF Keeps
  <2>2. Shows(x, r, csn)
    BY <1>m, <2>1 DEF Shows
  <2> QED  BY <1>1, <2>1, <2>2 DEF Keeps
<1>4. ASSUME NEW t \in Sessions, InTxn(t)'
      PROVE  /\ minCsn'[x] < epoch'[t]
             /\ \A r \in hist'[x] :
                  r < snap'[t] /\ (\A q \in hist'[x] : q < snap'[t] => q <= r) => r \in rows'[x]
  <2>1. /\ (InTxn(t) /\ epoch'[t] = epoch[t]) \/ epoch'[t] = csn
        /\ (InTxn(t) /\ snap'[t] = snap[t]) \/ snap'[t] = csn
    <3>1. CASE t = s
      BY <1>4, <3>1 DEF Reads
    <3>2. CASE t # s
      BY <1>4, <3>2 DEF Frame, Same, InTxn
    <3> QED  BY <3>1, <3>2
  <2>2. minCsn'[x] < epoch'[t]
    BY <1>1, <2>1 DEF Keeps
  <2>3. ASSUME NEW r \in hist'[x], r < snap'[t], \A q \in hist'[x] : q < snap'[t] => q <= r
        PROVE  r \in rows'[x]
    <3>1. r \in hist[x] /\ r < snap'[t] /\ \A q \in hist[x] : q < snap'[t] => q <= r
      BY <2>3 DEF Keeps
    <3>2. CASE InTxn(t) /\ snap'[t] = snap[t]
      <4>1. Shows(x, r, snap[t])
        BY <3>1, <3>2 DEF Shows
      <4> QED  BY <1>1, <3>1, <3>2, <4>1 DEF Keeps
    <3>3. CASE snap'[t] = csn
      <4>1. Shows(x, r, csn)
        BY <3>1, <3>3 DEF Shows
      <4> QED  BY <1>1, <3>1, <4>1 DEF Keeps
    <3> QED  BY <2>1, <3>2, <3>3
  <2> QED  BY <2>2, <2>3
<1> QED  BY <1>2, <1>3, <1>4 DEF ChainInv, Shows

\* The sentinel of an element or of a delete vector is in use, and counted.
LEMMA ListsType ==
    ASSUME GcTypes
    PROVE  /\ Lists \in [Sessions \X (0..3) -> Seq(Sentinels)]
           /\ \A t \in Sessions : Lists[<<t, 0>>] = dels[t]
           /\ \A t \in Sessions, q \in Queues :
                /\ Lists[<<t, q>>] \in Seq(Sentinels)
                /\ Len(Lists[<<t, q>>]) = Len(limbo[t][q])
                /\ \A i \in 1..Len(limbo[t][q]) : Lists[<<t, q>>][i] = limbo[t][q][i].sent
<1> DEFINE L(k) == IF k[2] = 0 THEN dels[k[1]]
                   ELSE [i \in DOMAIN limbo[k[1]][k[2]] |-> limbo[k[1]][k[2]][i].sent]
<1>1. \A t \in Sessions : dels[t] \in Seq(Sentinels)
                          /\ \A q \in Queues : limbo[t][q] \in Seq(Element)
  BY DEF GcTypes
<1>2. ASSUME NEW t \in Sessions, NEW q \in Queues
      PROVE  /\ L(<<t, q>>) \in Seq(Sentinels) /\ Len(L(<<t, q>>)) = Len(limbo[t][q])
             /\ \A i \in 1..Len(limbo[t][q]) : L(<<t, q>>)[i] = limbo[t][q][i].sent
  <2>1. <<t, q>>[1] = t /\ <<t, q>>[2] = q /\ q # 0
    BY DEF Queues
  <2>2. L(<<t, q>>) = [i \in DOMAIN limbo[t][q] |-> limbo[t][q][i].sent]
    BY <2>1
  <2>3. DOMAIN limbo[t][q] = 1..Len(limbo[t][q]) /\ Len(limbo[t][q]) \in Nat
        /\ \A i \in 1..Len(limbo[t][q]) : limbo[t][q][i].sent \in Sentinels
    <3>1. limbo[t][q] \in Seq(Element)
      BY <1>1
    <3>2. \A i \in 1..Len(limbo[t][q]) : limbo[t][q][i] \in Element
      BY <3>1
    <3> QED  BY <3>1, <3>2, ElementIs
  <2> HIDE DEF L
  <2> DEFINE l == L(<<t, q>>)
             n == Len(limbo[t][q])
  <2>4. l = [i \in 1..n |-> limbo[t][q][i].sent]
    BY <2>2, <2>3
  <2>5. n \in Nat /\ \A i \in 1..n : limbo[t][q][i].sent \in Sentinels
    BY <2>3
  <2> HIDE DEF l, n
  <2>6. l \in Seq(Sentinels) /\ Len(l) = n /\ \A i \in 1..n : l[i] = limbo[t][q][i].sent
    BY <2>4, <2>5
  <2> QED  BY <2>6 DEF l, n
<1>3. \A t \in Sessions : L(<<t, 0>>) = dels[t]
  OBVIOUS
<1>4. 0..3 = {0} \cup Queues
  BY DEF Queues
<1>5. ASSUME NEW k \in Sessions \X (0..3)
      PROVE  L(k) \in Seq(Sentinels)
  <2>1. PICK t \in Sessions, q \in {0} \cup Queues : k = <<t, q>>
    BY <1>4
  <2> QED  BY <1>1, <1>2, <1>3, <2>1
<1>6. Lists = [k \in Sessions \X (0..3) |-> L(k)]
  BY DEF Lists
<1>7. \A t \in Sessions, q \in {0} \cup Queues : <<t, q>> \in Sessions \X (0..3)
  BY <1>4
<1> HIDE DEF L
<1> QED  BY <1>2, <1>3, <1>5, <1>6, <1>7

LEMMA KeysFinite == IsFiniteSet(Sessions \X (0..3))
<1>1. IsFiniteSet(Sessions)
  BY GcAssumption
<1>2. 0 \in Int /\ 3 \in Int
  OBVIOUS
<1>3. IsFiniteSet(0..3)
  BY <1>2, FS_Interval
<1> QED  BY <1>1, <1>3, FS_Product

LEMMA Counted ==
    ASSUME GcTypes, NEW x \in Sentinels, CountInv(x), NEW k \in Sessions \X (0..3),
           NEW i \in 1..Len(Lists[k]), Lists[k][i] = x
    PROVE  gcRefs[x] >= 1 /\ <<k, i>> \in Places(Lists, x)
<1>1. Lists \in [Sessions \X (0..3) -> Seq(Sentinels)]
  BY ListsType
<1>2. <<k, i>> \in Places(Lists, x)
  BY <1>1, PlaceAt
<1>3. IsFiniteSet(Places(Lists, x)) /\ Cardinality(Places(Lists, x)) \in Nat
  BY <1>1, KeysFinite, PlacesFinite
<1>4. Cardinality(Places(Lists, x)) # 0
  BY <1>2, <1>3, FS_EmptySet
<1> QED  BY <1>2, <1>3, <1>4 DEF CountInv

LEMMA InLimbo ==
    ASSUME GcInv, NEW s \in Sessions, NEW q \in Queues, NEW e \in Els(s, q)
    PROVE  e \in Element /\ e.sent \in used /\ gcRefs[e.sent] >= 1
<1>0. GcTypes /\ limbo[s][q] \in Seq(Element)
  <2>1. GcTypes
    BY DEF GcInv
  <2>2. limbo \in [Sessions -> [Queues -> Seq(Element)]]
    BY <2>1 DEF GcTypes
  <2> QED  BY <2>1, <2>2
<1>1. PICK i \in 1..Len(limbo[s][q]) : e = limbo[s][q][i]
  BY <1>0 DEF Els, Range
<1>2. e \in Element
  BY <1>0, <1>1
<1>3. e.sent \in Sentinels
  BY <1>2, ElementIs
<1>4. <<s, q>> \in Sessions \X (0..3) /\ i \in 1..Len(Lists[<<s, q>>])
      /\ Lists[<<s, q>>][i] = e.sent
  <2>1. <<s, q>> \in Sessions \X (0..3)
    BY DEF Queues
  <2> QED  BY <1>0, <1>1, <2>1, ListsType
<1>5. CountInv(e.sent) /\ PoolInv(e.sent)
  BY <1>3 DEF GcInv
<1>6. gcRefs[e.sent] >= 1
  BY <1>0, <1>3, <1>4, <1>5, Counted
<1> QED  BY <1>2, <1>3, <1>5, <1>6 DEF PoolInv

LEMMA InMarked ==
    ASSUME GcInv, NEW s \in Sessions, NEW x \in Marked(s)
    PROVE  x \in Sentinels /\ x \in used /\ gcRefs[x] >= 1
<1>0. GcTypes /\ dels[s] \in Seq(Sentinels)
  BY DEF GcInv, GcTypes
<1>1. PICK i \in 1..Len(dels[s]) : x = dels[s][i]
  BY <1>0 DEF Marked, Range
<1>2. x \in Sentinels
  BY <1>0, <1>1
<1>3. <<s, 0>> \in Sessions \X (0..3) /\ Lists[<<s, 0>>] = dels[s]
  BY <1>0, ListsType
<1>4. CountInv(x) /\ PoolInv(x)
  BY <1>2 DEF GcInv
<1>5. gcRefs[x] >= 1
  BY <1>0, <1>1, <1>2, <1>3, <1>4, Counted
<1> QED  BY <1>2, <1>4, <1>5 DEF PoolInv

\* A sentinel that keeps its rows, or gets a new one.
Grows(x) ==
    /\ hist[x] \subseteq hist'[x] /\ rows[x] \subseteq rows'[x] /\ minCsn'[x] = minCsn[x]
    /\ \A r \in hist'[x] \ hist[x] : r >= csn

LEMMA ElementKept ==
    ASSUME GcTypes, GcTypes', NEW e, e.sent \in Sentinels, e.row \in Nat, e.csn \in Nat,
           ElementInv(e), e.csn <= csn, Grows(e.sent), tombs \subseteq tombs'
    PROVE  ElementInv(e)'
<1>n. csn \in Nat /\ hist'[e.sent] \in SUBSET Nat
  BY Numbers, NumbersAfter
<1>1. /\ e.row \in hist'[e.sent] /\ e.row <= e.csn
      /\ e.csn <= minCsn'[e.sent] \/ e.row \in rows'[e.sent]
      /\ e.kind = "delete" => e.row \in tombs'
  BY DEF ElementInv, Grows
<1>2. ASSUME NEW r \in hist'[e.sent], r > e.row
      PROVE  r >= e.csn
  <2>1. CASE r \in hist[e.sent]
    BY <1>2, <2>1 DEF ElementInv
  <2>2. CASE r \notin hist[e.sent]
    BY <1>n, <1>2, <2>2 DEF Grows
  <2> QED  BY <2>1, <2>2
<1> QED  BY <1>1, <1>2 DEF ElementInv

\* What is in the queues and delete vectors stays good.
LEMMA LimboKept ==
    ASSUME GcInv, GcTypes', csn' >= csn, \A x \in Sentinels : Grows(x), tombs \subseteq tombs',
           index' = index \/ index' = Nobody \/ index' \notin used, NEW t \in Sessions
    PROVE  /\ \A q \in {1, 2} : \A e \in Els(t, q) : ElementInv(e)'
           /\ \A q \in Queues : \A e \in Els(t, q) : e.csn <= csn'
           /\ \A e \in Els(t, 3) : e.sent # index'
           /\ \A x \in Marked(t) : x # index'
<1>0. GcTypes /\ LimboInv(t) /\ Nobody \notin Sentinels
  BY GcAssumption DEF GcInv
<1>1. csn \in Nat /\ csn' \in Nat
  BY <1>0, Numbers, NumbersAfter
<1>2. ASSUME NEW q \in Queues, NEW e \in Els(t, q)
      PROVE  /\ e \in Element /\ e.sent \in Sentinels /\ e.sent \in used /\ e.row \in Nat
             /\ e.csn \in Nat /\ e.csn <= csn
  BY <1>0, InLimbo, ElementIs DEF LimboInv
<1>3. ASSUME NEW q \in {1, 2}, NEW e \in Els(t, q)
      PROVE  ElementInv(e)'
  <2>1. q \in Queues /\ ElementInv(e)
    BY <1>0 DEF Queues, LimboInv
  <2>2. e.sent \in Sentinels /\ e.row \in Nat /\ e.csn \in Nat /\ e.csn <= csn
    BY <1>2, <2>1
  <2>3. Grows(e.sent)
    BY <2>2
  <2> QED  BY <1>0, <2>1, <2>2, <2>3, ElementKept
<1>4. \A q \in Queues : \A e \in Els(t, q) : e.csn <= csn'
  BY <1>1, <1>2
<1>5. ASSUME NEW e \in Els(t, 3)
      PROVE  e.sent # index'
  <2>1. 3 \in Queues /\ e.sent # index
    BY <1>0 DEF Queues, LimboInv
  <2> QED  BY <1>0, <1>2, <2>1
<1>6. ASSUME NEW x \in Marked(t)
      PROVE  x # index'
  <2>1. x \in Sentinels /\ x \in used /\ x # index
    BY <1>0, InMarked DEF LimboInv
  <2> QED  BY <1>0, <2>1
<1> QED  BY <1>3, <1>4, <1>5, <1>6

LEMMA LimboSame ==
    ASSUME GcInv, GcTypes', csn' >= csn, \A x \in Sentinels : Grows(x), tombs \subseteq tombs',
           index' = index \/ index' = Nobody \/ index' \notin used,
           NEW t \in Sessions, limbo'[t] = limbo[t], dels'[t] = dels[t]
    PROVE  LimboInv(t)'
<1>1. Marked(t)' = Marked(t) /\ \A q \in Queues : Els(t, q)' = Els(t, q)
  BY DEF Marked, Els
<1>2. 1 \in Queues /\ 2 \in Queues /\ 3 \in Queues
  BY DEF Queues
<1> QED  BY <1>1, <1>2, LimboKept DEF LimboInv

\* The writes of the others.
LEMMA OpKept ==
    ASSUME GcInv, NEW s \in Sessions, Frame(s), csn' >= csn, \A x \in Sentinels : Grows(x),
           tombs \subseteq tombs', tombs' \subseteq tombs \cup {csn}, NEW t \in Sessions \ {s}
    PROVE  OpInv(t)'
<1>0. GcTypes /\ OpInv(t) /\ ControlInv(t) /\ Same(t) /\ GcTypes' /\ SessionInv(t)
  BY DEF GcInv, Frame, EpochInv
<1>1. /\ pc'[t] = pc[t] /\ epoch'[t] = epoch[t] /\ held'[t] = held[t] /\ op'[t] = op[t]
      /\ mine'[t] = mine[t]
  BY <1>0 DEF Same
<1>n. csn \in Nat /\ csn' \in Nat /\ epoch[t] \in Nat /\ mine[t] \in Nat
  BY <1>0, Numbers, NumbersAfter
<1>2. CASE op[t] = "none"
  BY <1>0, <1>1, <1>2 DEF OpInv, Inserting
<1>3. CASE op[t] # "none"
  <2>1. held[t] \in Sentinels /\ epoch[t] <= csn
    BY <1>0, <1>3 DEF ControlInv, GcTypes, SessionInv
  <2>2. Grows(held[t])
    BY <2>1
  <2>3. pc[t] = "open" /\ op[t] \in {"update", "delete"} =>
          mine[t] \notin tombs' \cup {0} /\ mine[t] < csn'
    <3>1. ASSUME pc[t] = "open", op[t] \in {"update", "delete"}
          PROVE  mine[t] \notin tombs \cup {0} /\ mine[t] < csn
      BY <1>0, <3>1 DEF OpInv
    <3> QED  BY <1>n, <3>1
  <2>4. ASSUME Inserting(t), NEW r \in hist'[held[t]], r > mine[t]
        PROVE  r >= epoch[t]
    <3>1. CASE r \in hist[held[t]]
      BY <1>0, <2>4, <3>1 DEF OpInv
    <3>2. CASE r \notin hist[held[t]]
      <4>1. r >= csn /\ r \in Nat
        BY <1>0, <2>1, <2>2, <3>2, NumbersAfter, Numbers DEF Grows
      <4> QED  BY <1>n, <2>1, <4>1
    <3> QED  BY <3>1, <3>2
  <2>5. /\ pc[t] = "open" /\ op[t] = "insert" => mine[t] = 0
        /\ pc[t] = "open" /\ op[t] = "upgrade" => mine[t] \in tombs' /\ mine[t] \in hist'[held[t]]
    BY <1>0, <2>2 DEF OpInv, Grows
  <2>6. pc[t] = "committed" =>
        /\ op[t] # "none" /\ mine[t] \in rows'[held[t]] /\ epoch[t] <= mine[t]
        /\ op[t] = "delete" => mine[t] \in tombs'
    BY <1>0, <2>2 DEF OpInv, Grows
  <2> QED  BY <1>1, <2>3, <2>4, <2>5, <2>6 DEF OpInv, Inserting
<1> QED  BY <1>2, <1>3

\* What a session holds stays in use, and owned.
LEMMA HeldKept ==
    ASSUME GcInv, NEW s \in Sessions, Frame(s), used \subseteq used',
           index' = index \/ index = Nobody,
           Els(s, 3) \subseteq Els(s, 3)', Marked(s) \subseteq Marked(s)',
           NEW t \in Sessions,
           InTxn(t)' => \/ InTxn(t) /\ held'[t] = held[t] /\ epoch'[t] = epoch[t]
                        \/ held'[t] = Nobody
                        \/ held'[t] = index' /\ index' \in used'
    PROVE  HeldInv(t)'
<1> SUFFICES ASSUME InTxn(t)', held'[t] # Nobody
             PROVE  /\ held'[t] \in used'
                    /\ held'[t] # index' => Owned(held[t], epoch[t])'
  BY DEF HeldInv
<1>1. CASE held'[t] = index' /\ index' \in used'
  BY <1>1
<1>2. CASE InTxn(t) /\ held'[t] = held[t] /\ epoch'[t] = epoch[t]
  <2>1. HeldInv(t)
    BY DEF GcInv
  <2>2. held[t] \in used /\ (held[t] # index => Owned(held[t], epoch[t]))
    BY <1>2, <2>1 DEF HeldInv
  <2>3. ASSUME held'[t] # index'
        PROVE  Owned(held[t], epoch[t])'
    <3>1. Owned(held[t], epoch[t])
      BY <1>2, <2>2, <2>3
    <3>2. PICK u \in Sessions : \/ held[t] \in Marked(u)
                                \/ \E e \in Els(u, 3) : e.sent = held[t] /\ e.csn >= epoch[t]
      BY <3>1 DEF Owned
    <3>3. Els(u, 3) \subseteq Els(u, 3)' /\ Marked(u) \subseteq Marked(u)'
      <4>1. CASE u = s
        BY <4>1
      <4>2. CASE u # s
        BY <4>2 DEF Frame, Same, Els, Marked
      <4> QED  BY <4>1, <4>2
    <3>4. \/ held'[t] \in Marked(u)'
          \/ \E e \in Els(u, 3)' : e.sent = held'[t] /\ e.csn >= epoch'[t]
      BY <1>2, <3>2, <3>3
    <3> QED  BY <3>4 DEF Owned
  <2> QED  BY <1>2, <2>2, <2>3
<1> QED  BY <1>1, <1>2

\* The count of the places, when the lists stay.
LEMMA CountKept ==
    ASSUME NEW x \in Sentinels, CountInv(x), UNCHANGED <<limbo, dels>>, gcRefs'[x] = gcRefs[x]
    PROVE  CountInv(x)'
BY DEF CountInv, Lists

\* The inserts under way.
LEMMA InsertersFinite ==
    ASSUME NEW x \in Sentinels
    PROVE  /\ IsFiniteSet(Inserters(x)) /\ Cardinality(Inserters(x)) \in Nat
           /\ IsFiniteSet(Inserters(x)') /\ Cardinality(Inserters(x)') \in Nat
<1>1. Inserters(x) \in SUBSET Sessions /\ Inserters(x)' \in SUBSET Sessions
      /\ IsFiniteSet(Sessions)
  BY GcAssumption DEF Inserters
<1>2. IsFiniteSet(Inserters(x)) /\ IsFiniteSet(Inserters(x)')
  BY <1>1, FS_Subset
<1> QED  BY <1>2, FS_CardinalityType

LEMMA InsertersStep ==
    ASSUME NEW s \in Sessions, Frame(s), NEW x \in Sentinels
    PROVE  Cardinality(Inserters(x)') =
             Cardinality(Inserters(x)) + (IF s \in Inserters(x)' THEN 1 ELSE 0)
                                       - (IF s \in Inserters(x) THEN 1 ELSE 0)
<1> DEFINE A == Inserters(x)
           B == Inserters(x)'
<1>1. /\ IsFiniteSet(A) /\ Cardinality(A) \in Nat /\ IsFiniteSet(B) /\ Cardinality(B) \in Nat
  BY InsertersFinite
<1>2. \A t \in Sessions \ {s} : t \in A <=> t \in B
  BY DEF Frame, Same, Inserters
<1>3. A \subseteq Sessions /\ B \subseteq Sessions
  BY DEF Inserters
<1> HIDE DEF A, B
<1>4. CASE s \in A <=> s \in B
  <2>1. A = B
    BY <1>2, <1>3, <1>4
  <2> QED  BY <1>1, <2>1 DEF A, B
<1>5. CASE s \in A /\ s \notin B
  <2>1. B = A \ {s}
    BY <1>2, <1>3, <1>5
  <2>2. Cardinality(B) = Cardinality(A) - 1
    BY <1>1, <1>5, <2>1, FS_RemoveElement
  <2> QED  BY <1>1, <1>5, <2>2 DEF A, B
<1>6. CASE s \notin A /\ s \in B
  <2>1. B = A \cup {s}
    BY <1>2, <1>3, <1>6
  <2>2. Cardinality(B) = Cardinality(A) + 1
    BY <1>1, <1>6, <2>1, FS_AddElement
  <2> QED  BY <1>1, <1>6, <2>2 DEF A, B
<1> QED  BY <1>4, <1>5, <1>6

\* The tombstones to be counted off.
LEMMA OwedFinite ==
    ASSUME GcTypes, NEW x \in Sentinels
    PROVE  IsFiniteSet(Owed(x)) /\ Cardinality(Owed(x)) \in Nat
<1>1. MaxCsn \in Nat /\ rows[x] \in SUBSET Csn
  BY Numbers
<1>2. Owed(x) \in SUBSET Nat /\ \A r \in Owed(x) : r <= MaxCsn
  BY <1>1 DEF Owed, Csn
<1>3. IsFiniteSet(Owed(x))
  BY <1>1, <1>2, FS_BoundedSetOfNaturals
<1> QED  BY <1>3, FS_CardinalityType

LEMMA OwedAfterFinite ==
    ASSUME GcTypes', NEW x \in Sentinels
    PROVE  IsFiniteSet(Owed(x)') /\ Cardinality(Owed(x)') \in Nat
<1>1. MaxCsn \in Nat /\ rows'[x] \in SUBSET Csn
  BY NumbersAfter, GcAssumption
<1>2. Owed(x)' \in SUBSET Nat /\ \A r \in Owed(x)' : r <= MaxCsn
  BY <1>1 DEF Owed, Csn
<1>3. IsFiniteSet(Owed(x)')
  BY <1>1, <1>2, FS_BoundedSetOfNaturals
<1> QED  BY <1>3, FS_CardinalityType

\* Two elements that are alike but for the slot.
Alike(e, d) == e.kind = d.kind /\ e.sent = d.sent /\ e.row = d.row /\ e.csn = d.csn

\* The elements that wait for the tombstones of x were waiting before.
Waiting(x) ==
    \A t \in Sessions : \A e \in Pending(t)' :
        e.kind = "delete" /\ e.sent = x /\ e.row < e.csn =>
            \E u \in Sessions : \E d \in Pending(u) : Alike(e, d)

\* The count of a sentinel that keeps its rows.
LEMMA CoverKept ==
    ASSUME GcInv, GcTypes', NEW x \in Sentinels, rows'[x] = rows[x], minCsn'[x] = minCsn[x],
           \A r \in rows[x] : r \in tombs' <=> r \in tombs, Waiting(x),
           refs'[x] - Cardinality(Inserters(x)') >= refs[x] - Cardinality(Inserters(x))
    PROVE  CoverInv(x)'
<1>0. CoverInv(x) /\ GcTypes
  BY DEF GcInv
<1>1. Top(x)' = Top(x) /\ Owed(x)' = Owed(x)
  BY DEF Top, Owed
<1>2. Live(x)' = Live(x)
  <2>1. CASE rows[x] = {}
    <3>1. Top(x) = 0 /\ Top(x)' = 0
      BY <1>0, <1>1, <2>1, TopIs
    <3> QED  BY <3>1 DEF Live
  <2>2. CASE rows[x] # {}
    <3>1. Top(x) \in rows[x]
      BY <1>0, <2>2, TopIs
    <3> QED  BY <1>1, <3>1 DEF Live
  <2> QED  BY <2>1, <2>2
<1>3. ASSUME NEW t \in Sessions, NEW e \in Pending(t)', Claim(e, x)'
      PROVE  \E u \in Sessions : \E d \in Pending(u) : Claim(d, x) /\ e.csn = d.csn
  <2>1. /\ e.kind = "delete" /\ e.sent = x
        /\ e.row = Top(x) /\ e.row < e.csn /\ minCsn[x] < e.csn
    BY <1>1, <1>3 DEF Claim
  <2>2. PICK u \in Sessions : \E d \in Pending(u) : Alike(e, d)
    BY <2>1 DEF Waiting
  <2>3. PICK d \in Pending(u) : Alike(e, d)
    BY <2>2
  <2>4. Claim(d, x) /\ e.csn = d.csn
    BY <2>1, <2>3 DEF Alike, Claim
  <2> QED  BY <2>4
<1>4. Claimed(x)' => Claimed(x)
  BY <1>3 DEF Claimed
<1>5. \A s, t \in Sessions : \A e \in Pending(s)', d \in Pending(t)' :
        Claim(e, x)' /\ Claim(d, x)' => e.csn = d.csn
  BY <1>0, <1>3 DEF CoverInv
<1>6. /\ Cardinality(Inserters(x)) \in Nat /\ Cardinality(Inserters(x)') \in Nat
      /\ Cardinality(Owed(x)) \in Nat /\ Live(x) \in {0, 1}
      /\ refs[x] \in Int /\ refs'[x] \in Int
  BY <1>0, InsertersFinite, OwedFinite, Numbers, NumbersAfter DEF Live
<1> DEFINE n == Cardinality(Inserters(x))
           m == Cardinality(Inserters(x)')
           o == Cardinality(Owed(x))
<1>7. refs[x] >= n + Live(x) + o + (IF Claimed(x) THEN 1 ELSE 0)
  BY <1>0 DEF CoverInv
<1>8. refs'[x] >= m + Live(x) + o + (IF Claimed(x)' THEN 1 ELSE 0)
  <2>1. refs'[x] - m >= refs[x] - n
    OBVIOUS
  <2> HIDE DEF n, m, o
  <2>2. n \in Nat /\ m \in Nat /\ o \in Nat
    BY <1>6 DEF n, m, o
  <2>3. CASE Claimed(x)
    BY <1>6, <1>7, <2>1, <2>2, <2>3
  <2>4. CASE ~Claimed(x)
    BY <1>4, <1>6, <1>7, <2>1, <2>2, <2>4
  <2> QED  BY <2>3, <2>4
<1>9. refs'[x] >= Cardinality(Inserters(x)') + Live(x)' + Cardinality(Owed(x)')
                    + (IF Claimed(x)' THEN 1 ELSE 0)
  BY <1>1, <1>2, <1>8
<1> QED  BY <1>5, <1>9 DEF CoverInv

\* No element is new and none is taken up.
LEMMA WaitingSame ==
    ASSUME NEW s \in Sessions, Frame(s), limbo' = limbo, pc'[s] # "dtor" \/ Pending(s)' = Pending(s),
           NEW x \in Sentinels
    PROVE  Waiting(x)
<1>1. ASSUME NEW t \in Sessions, NEW e \in Pending(t)'
      PROVE  e \in Pending(t)
  <2>1. CASE t = s
    BY <1>1, <2>1 DEF Pending, Els
  <2>2. CASE t # s
    BY <1>1, <2>2 DEF Pending, Els, Frame, Same
  <2> QED  BY <2>1, <2>2
<1>2. \A e : Alike(e, e)
  BY DEF Alike
<1> QED  BY <1>1, <1>2 DEF Waiting

-----------------------------------------------------------------------------
(* Steps that leave the sentinels and the lists alone. *)

QuietStep(s) ==
    /\ Frame(s) /\ Alone(s) /\ UNCHANGED <<csn, sentVars, limbo, dels>>
    /\ Reads(s)
    /\ InTxn(s)' => \/ InTxn(s) /\ held'[s] = held[s] /\ epoch'[s] = epoch[s]
                    \/ held'[s] = index
    /\ pc'[s] # "dtor" /\ ~Inserting(s) /\ ~Inserting(s)'

LEMMA QuietKeeps ==
    ASSUME GcInv, NEW s \in Sessions, QuietStep(s), EpochInv', ControlInv(s)', OpInv(s)',
           MinimumInv(s)'
    PROVE  GcInv'
<1>0. /\ GcTypes /\ GcTypes' /\ Frame(s) /\ Alone(s) /\ Reads(s)
      /\ UNCHANGED <<csn, index, used, refs, gcRefs, minCsn, rows, tombs, hist, limbo, dels>>
  BY DEF GcInv, QuietStep, Frame, sentVars
<1>n. csn \in Nat /\ csn' >= csn
  BY <1>0, Numbers
<1>1. \A x \in Sentinels : Keeps(x) /\ Grows(x)
  BY <1>0 DEF Keeps, Grows
<1>2. \A t \in Sessions \ {s} : ControlInv(t)' /\ DtorInv(t)'
  BY <1>0, OthersControl
<1>3. DtorInv(s)'
  BY DEF QuietStep, DtorInv
<1>4. Holds(s)
  <2> SUFFICES ASSUME InTxn(s)', held'[s] = index, NEW t \in Sessions \ {s}
               PROVE  Apart(t, s)'
    BY DEF Holds, QuietStep
  <2>1. LimboInv(t)
    BY DEF GcInv
  <2> QED  BY <1>0, <2>1 DEF LimboInv, Apart, Els
<1>5. \A t \in Sessions \ {s} : MinimumInv(t)'
  BY <1>0, <1>n, <1>4, OthersMinimum
<1>6. \A x \in Sentinels : ChainInv(x)'
  BY <1>0, <1>1, <1>n, ChainKept
<1>7. \A t \in Sessions : LimboInv(t)'
  BY <1>0, <1>1, <1>n, LimboSame
<1>8. \A t \in Sessions \ {s} : OpInv(t)'
  BY <1>0, <1>1, <1>n, OpKept
<1>9. \A t \in Sessions : HeldInv(t)'
  <2>1. index # Nobody => index \in used
    <3>1. index \in Sentinels \cup {Nobody}
      BY <1>0 DEF GcTypes
    <3> QED  BY <3>1 DEF GcInv, PoolInv
  <2>2. Els(s, 3) \subseteq Els(s, 3)' /\ Marked(s) \subseteq Marked(s)' /\ used \subseteq used'
    BY <1>0 DEF Els, Marked
  <2>3. ASSUME NEW t \in Sessions
        PROVE  InTxn(t)' => \/ InTxn(t) /\ held'[t] = held[t] /\ epoch'[t] = epoch[t]
                            \/ held'[t] = Nobody
                            \/ held'[t] = index' /\ index' \in used'
    <3>1. CASE t = s
      BY <1>0, <2>1, <3>1 DEF QuietStep
    <3>2. CASE t # s
      BY <1>0, <3>2 DEF Frame, Same, InTxn
    <3> QED  BY <3>1, <3>2
  <2> QED  BY <1>0, <2>2, <2>3, HeldKept
<1>10. \A x \in Sentinels : CountInv(x)' /\ PoolInv(x)'
  <2>1. ASSUME NEW x \in Sentinels
        PROVE  CountInv(x)' /\ PoolInv(x)'
    <3>1. CountInv(x) /\ PoolInv(x)
      BY DEF GcInv
    <3> QED  BY <1>0, <3>1, CountKept DEF PoolInv
  <2> QED  BY <2>1
<1>11. \A x \in Sentinels : CoverInv(x)'
  <2>1. ASSUME NEW x \in Sentinels
        PROVE  CoverInv(x)'
    <3>1. s \notin Inserters(x) /\ s \notin Inserters(x)'
      BY DEF QuietStep, Inserting, Inserters
    <3>2. Cardinality(Inserters(x)') = Cardinality(Inserters(x))
      BY <1>0, <3>1, InsertersStep, InsertersFinite
    <3>3. Waiting(x)
      BY <1>0, WaitingSame DEF QuietStep
    <3>4. refs'[x] - Cardinality(Inserters(x)') >= refs[x] - Cardinality(Inserters(x))
      <4>1. refs[x] \in Int /\ refs'[x] = refs[x] /\ Cardinality(Inserters(x)) \in Nat
        BY <1>0, Numbers, InsertersFinite
      <4> QED  BY <3>2, <4>1
    <3> QED  BY <1>0, <3>3, <3>4, CoverKept
  <2> QED  BY <2>1
<1> QED  BY <1>0, <1>2, <1>3, <1>5, <1>6, <1>7, <1>8, <1>9, <1>10, <1>11 DEF GcInv

\* Snapshot, statements, writes.
LEMMA TransactionGc ==
    ASSUME GcInv, EpochInv', NEW s \in Sessions, Alone(s),
           \/ TakeSnapshot(s) \/ FindRow(s) \/ GcStartTxn(s)
           \/ NextStatement(s) \/ GcEndStatement(s)
           \/ \E o \in {"update", "delete"} : Write(s, o)
    PROVE  GcInv'
<1>0. /\ GcTypes /\ ControlInv(s) /\ SessionInv(s) /\ Frame(s) /\ OpInv(s)
      /\ csn \in Nat /\ GcTypes'
  BY TransactionFrame, Numbers DEF GcInv, EpochInv, Frame
<1>t. /\ pc \in [Sessions -> PC] /\ epoch \in [Sessions -> 0..MaxCsn]
      /\ snap \in [Sessions -> 0..MaxCsn] /\ held \in [Sessions -> Sentinels \cup {Nobody}]
      /\ op \in [Sessions -> {"none", "update", "delete", "insert", "upgrade"}]
      /\ mine \in [Sessions -> 0..MaxCsn]
  BY <1>0 DEF GcTypes
<1>1. /\ UNCHANGED <<csn, sentVars, limbo, dels, closing, que, fresh, scan>>
      /\ pc[s] \in {"idle", "snap", "found", "open"} /\ pc'[s] \in {"idle", "snap", "found", "open"}
  BY <1>t DEF TakeSnapshot, FindRow, GcStartTxn, NextStatement, GcEndStatement, Write, Goto, gcVars
<1>2. MinimumInv(s)'
  BY <1>0, <1>1 DEF MinimumInv, ControlInv, Cleaning
<1>3. ASSUME op'[s] = "none", mine'[s] = 0, op[s] = "none",
             pc'[s] = "found" => held'[s] = index,
             InTxn(s)' => held'[s] = index, Reads(s)
      PROVE  GcInv'
  <2>1. ControlInv(s)'
    BY <1>0, <1>1, <1>3 DEF ControlInv, Cleaning, Els, sentVars
  <2>2. OpInv(s)'
    BY <1>1, <1>3 DEF OpInv, Inserting
  <2>3. QuietStep(s)
    BY <1>0, <1>1, <1>3 DEF QuietStep, Inserting
  <2> QED  BY <1>2, <2>1, <2>2, <2>3, QuietKeeps
<1>4. CASE TakeSnapshot(s)
  <2>1. op'[s] = op[s] /\ mine'[s] = mine[s] /\ pc'[s] = "snap" /\ pc[s] = "idle"
    BY <1>4, <1>t DEF TakeSnapshot, Goto
  <2> QED  BY <1>0, <1>3, <2>1 DEF ControlInv, InTxn, Reads
<1>5. CASE FindRow(s)
  <2>1. op'[s] = op[s] /\ mine'[s] = mine[s] /\ pc'[s] = "found" /\ pc[s] = "snap"
        /\ held'[s] = index
    BY <1>5, <1>t DEF FindRow, Goto
  <2> QED  BY <1>0, <1>3, <2>1 DEF ControlInv, InTxn, Reads
<1>6. CASE GcStartTxn(s)
  <2>1. /\ op'[s] = op[s] /\ mine'[s] = mine[s] /\ pc'[s] = "open" /\ pc[s] = "found"
        /\ held'[s] = held[s] /\ snap'[s] = snap[s] /\ epoch'[s] = snap[s]
    BY <1>6, <1>t DEF GcStartTxn, PublishedEpoch, Goto, txnVars
  <2>2. snap[s] = csn /\ held[s] = index /\ op[s] = "none" /\ mine[s] = 0
    BY <1>0, <2>1 DEF SessionInv, Starting, ControlInv, InTxn
  <2> QED  BY <1>3, <2>1, <2>2 DEF Reads
<1>7. CASE NextStatement(s)
  <2>1. /\ op'[s] = op[s] /\ op[s] = "none" /\ mine'[s] = mine[s] /\ pc'[s] = "open"
        /\ pc[s] = "open" /\ held'[s] = index /\ snap'[s] = csn /\ epoch'[s] = epoch[s]
    BY <1>7, <1>t DEF NextStatement
  <2> QED  BY <1>0, <1>3, <2>1 DEF ControlInv, InTxn, Reads
<1>8. CASE GcEndStatement(s)
  <2>1. /\ op'[s] = op[s] /\ op[s] = "none" /\ mine'[s] = mine[s] /\ pc'[s] = "idle"
    BY <1>8, <1>t DEF GcEndStatement, Goto
  <2> QED  BY <1>0, <1>3, <2>1 DEF ControlInv, InTxn, Reads
<1>9. ASSUME NEW o \in {"update", "delete"}, Write(s, o)
      PROVE  GcInv'
  <2> DEFINE v == VisibleRow(s, held[s])
  <2>1. /\ pc[s] = "open" /\ op[s] = "none" /\ held[s] # Nobody /\ v \notin tombs \cup {0}
        /\ op'[s] = o /\ pc'[s] = "open" /\ mine'[s] = v
        /\ held'[s] = held[s] /\ epoch'[s] = epoch[s] /\ snap'[s] = snap[s]
    BY <1>9, <1>t DEF Write
  <2>2. held[s] \in Sentinels
    BY <1>t, <2>1
  <2>3. v < csn
    <3>1. {r \in rows[held[s]] : r < snap[s]} \in SUBSET Csn
      BY <1>0, <2>2, Numbers
    <3>2. v \in {r \in rows[held[s]] : r < snap[s]}
      BY <2>1, <3>1, NewestIs DEF VisibleRow
    <3>3. ChainInv(held[s])
      BY <2>2 DEF GcInv
    <3> QED  BY <3>2, <3>3 DEF ChainInv
  <2> HIDE DEF v
  <2>4. ControlInv(s)'
    BY <1>0, <1>1, <2>1 DEF ControlInv, Cleaning, Els, sentVars, InTxn
  <2>5. OpInv(s)'
    BY <1>1, <2>1, <2>3 DEF OpInv, Inserting, sentVars
  <2>6. QuietStep(s)
    BY <1>0, <1>1, <2>1 DEF QuietStep, Inserting, Reads, InTxn
  <2> QED  BY <1>2, <2>4, <2>5, <2>6, QuietKeeps
<1> QED  BY <1>4, <1>5, <1>6, <1>7, <1>8, <1>9

\* The steps of the collector that move between queues and epochs.
LEMMA QueueGc ==
    ASSUME GcInv, EpochInv', NEW s \in Sessions, Alone(s),
           \/ SkipQuiesce(s) \/ RunQuicese(s) \/ GcCleanAll(s) \/ PassQueue(s)
           \/ AddToGcList(s) \/ RemoveFromGcList(s) \/ CleanWithKnown(s)
           \/ SetActiveEpoch(s) \/ SetActiveEpochBusy(s) \/ \E t \in Sessions : VisitManager(s, t)
           \/ PublishMinimum(s) \/ SetPerformGcEpoch(s) \/ SkipDtor(s)
    PROVE  GcInv'
<1>0. /\ GcTypes /\ ControlInv(s) /\ Frame(s) /\ GcTypes' /\ MinimumInv(s)
  BY QueueFrame, SkipDtorFrame DEF GcInv, Frame
<1>t. /\ pc \in [Sessions -> PC] /\ epoch \in [Sessions -> 0..MaxCsn]
      /\ que \in [Sessions -> Queues] /\ perform \in [Sessions -> 0..MaxCsn + 1]
      /\ closing \in [Sessions -> BOOLEAN] /\ fresh \in [Sessions -> BOOLEAN]
      /\ scan \in [Sessions -> ScanOf]
  BY <1>0 DEF GcTypes
<1>1. /\ UNCHANGED <<csn, sentVars, txnVars, limbo, dels>>
  BY DEF SkipQuiesce, RunQuicese, GcCleanAll, StartCleaning, PassQueue, AddToGcList,
         RemoveFromGcList, ChangeGcList, CleanWithKnown, SetActiveEpoch, SetActiveEpochBusy,
         VisitManager, PublishMinimum, SetPerformGcEpoch, SkipDtor, gcVars
<1>2. ASSUME ~InTxn(s), pc'[s] \notin {"open", "committed", "dtor", "found"},
             ~Cleaning(s)' => ~closing'[s] /\ ~fresh'[s],
             pc'[s] = "perform" => scan'[s].left = {},
             MinimumInv(s)'
      PROVE  GcInv'
  <2>1. op[s] = "none" /\ mine[s] = 0 /\ op'[s] = "none" /\ mine'[s] = 0
    BY <1>0, <1>1, <1>2 DEF ControlInv, txnVars
  <2>2. ControlInv(s)'
    BY <1>0, <1>1, <1>2, <2>1 DEF ControlInv, InTxn, Els
  <2>3. OpInv(s)'
    BY <1>2, <2>1 DEF OpInv, Inserting
  <2>4. QuietStep(s)
    BY <1>0, <1>1, <1>2, <2>1 DEF QuietStep, Inserting, Reads, InTxn
  <2> QED  BY <1>2, <2>2, <2>3, <2>4, QuietKeeps
<1>3. ASSUME NEW t \in Sessions, InTxn(t)', pc'[s] \notin {"open", "committed"}
      PROVE  InTxn(t) /\ epoch'[t] = epoch[t] /\ (Apart(s, t) => Apart(s, t)') /\ t # s
  <2>1. t # s
    BY <1>3 DEF InTxn
  <2>2. InTxn(t) /\ epoch'[t] = epoch[t]
    BY <1>0, <1>3, <2>1 DEF Frame, Same, InTxn
  <2>3. Apart(s, t)' <=> Apart(s, t)
    BY <1>1 DEF Apart, Els, txnVars
  <2> QED  BY <2>1, <2>2, <2>3
<1>4. CASE SkipQuiesce(s) \/ AddToGcList(s) \/ RemoveFromGcList(s)
  <2>1. /\ pc[s] \in {"end", "closed", "remove"} /\ pc'[s] \in {"idle", "closed"}
        /\ closing'[s] = closing[s] /\ fresh'[s] = fresh[s]
    BY <1>4, <1>t DEF SkipQuiesce, AddToGcList, RemoveFromGcList, ChangeGcList, Goto, gcVars
  <2>2. ~closing[s] /\ ~fresh[s]
    BY <1>0, <2>1 DEF ControlInv, Cleaning
  <2>3. MinimumInv(s)'
    BY <2>1, <2>2 DEF MinimumInv
  <2> QED  BY <1>2, <2>1, <2>2, <2>3 DEF InTxn
<1>5. CASE RunQuicese(s) \/ GcCleanAll(s)
  <2>1. pc[s] \in {"end", "idle"} /\ pc'[s] = "queue" /\ fresh'[s] = fresh[s]
    BY <1>5, <1>t DEF RunQuicese, GcCleanAll, StartCleaning, Goto
  <2>2. ~fresh[s]
    BY <1>0, <2>1 DEF ControlInv, Cleaning
  <2>3. MinimumInv(s)'
    BY <2>1, <2>2 DEF MinimumInv
  <2> QED  BY <1>2, <2>1, <2>2, <2>3 DEF InTxn, Cleaning
<1>6. CASE PassQueue(s)
  <2>1. pc[s] = "queue" /\ NextQueue(s)
    BY <1>6 DEF PassQueue
  <2>2. CASE que[s] < 3
    <3>1. /\ pc'[s] = "queue" /\ closing'[s] = closing[s] /\ fresh'[s] = fresh[s]
          /\ perform'[s] = perform[s]
      BY <1>t, <2>1, <2>2 DEF NextQueue
    <3>2. MinimumInv(s)'
      <4> SUFFICES ASSUME fresh'[s], ~closing'[s]
                   PROVE  /\ perform'[s] <= csn'
                          /\ \A t \in Sessions : InTxn(t)' => perform'[s] <= epoch'[t]
        BY <3>1 DEF MinimumInv
      <4>1. /\ perform[s] <= csn /\ \A t \in Sessions : InTxn(t) => perform[s] <= epoch[t]
        BY <1>0, <3>1 DEF MinimumInv
      <4> QED  BY <1>1, <1>3, <3>1, <4>1
    <3> QED  BY <1>2, <2>1, <3>1, <3>2 DEF InTxn, Cleaning
  <2>3. CASE ~(que[s] < 3)
    <3>1. /\ pc'[s] \in {"remove", "idle"} /\ ~fresh'[s] /\ ~closing'[s]
      BY <1>t, <2>1, <2>3 DEF NextQueue
    <3>2. MinimumInv(s)'
      BY <3>1 DEF MinimumInv
    <3> QED  BY <1>2, <2>1, <3>1, <3>2 DEF InTxn
  <2> QED  BY <2>2, <2>3
<1>7. ASSUME pc'[s] = "clean" \/ pc'[s] = "dtor", ~InTxn(s), pc'[s] # "dtor",
             /\ perform'[s] <= csn \/ (closing'[s] /\ que'[s] = 3)
             /\ \A t \in Sessions : InTxn(t) =>
                  perform'[s] <= epoch[t] \/ (closing'[s] /\ que'[s] = 3 /\ Apart(s, t))
      PROVE  GcInv'
  <2>1. MinimumInv(s)'
    <3>1. ASSUME NEW t \in Sessions, InTxn(t)'
          PROVE  perform'[s] <= epoch'[t] \/ (closing'[s] /\ que'[s] = 3 /\ Apart(s, t)')
      BY <1>3, <1>7, <3>1
    <3>2. perform'[s] <= csn' \/ (closing'[s] /\ que'[s] = 3)
      BY <1>1, <1>7
    <3>3. ~(pc'[s] \in {"scan", "perform"})
      BY <1>7
    <3> QED  BY <3>1, <3>2, <3>3 DEF MinimumInv
  <2> QED  BY <1>2, <1>7, <2>1 DEF Cleaning
<1>8. active <= csn /\ \A t \in Sessions : InTxn(t) => active <= epoch[t] /\ epoch[t] # 0
  BY DEF GcInv, EpochInv, SessionInv
<1>9. CASE CleanWithKnown(s)
  <2>1. /\ pc[s] = "queue" /\ pc'[s] = "clean" /\ ~closing[s] /\ ~InTxn(s)
        /\ perform'[s] = IF fresh[s] THEN perform[s] ELSE active
    BY <1>9, <1>t DEF CleanWithKnown, Goto, NeedsMinimum, InTxn
  <2>2. CASE fresh[s]
    <3>1. /\ perform[s] <= csn /\ \A t \in Sessions : InTxn(t) => perform[s] <= epoch[t]
      BY <1>0, <2>1, <2>2 DEF MinimumInv
    <3> QED  BY <1>7, <2>1, <2>2, <3>1
  <2>3. CASE ~fresh[s]
    BY <1>7, <1>8, <2>1, <2>3
  <2> QED  BY <2>2, <2>3
<1>10. CASE SetActiveEpoch(s)
  <2>1. /\ pc[s] = "queue" /\ pc'[s] = "scan" /\ (closing[s] \/ ~fresh[s])
        /\ closing'[s] = closing[s] /\ fresh'[s] = fresh[s]
    BY <1>10, <1>t DEF SetActiveEpoch, Goto, NeedsMinimum
  <2>2. scan' = [scan EXCEPT ![s] = [left |-> {t \in Sessions : pc[t] # "closed"}, min |-> 0,
                                     others |-> FALSE]]
    BY <1>10 DEF SetActiveEpoch
  <2>3. scan'[s].left = {t \in Sessions : pc[t] # "closed"}
    BY <1>t, <2>2
  <2>4. \A t \in Sessions : InTxn(t)' => t \in scan'[s].left
    BY <1>3, <2>1, <2>3 DEF InTxn
  <2>5. MinimumInv(s)'
    BY <2>1, <2>4 DEF MinimumInv
  <2> QED  BY <1>2, <2>1, <2>5 DEF InTxn, Cleaning
<1>11. CASE SetActiveEpochBusy(s)
  <2>1. /\ pc[s] = "queue" /\ pc'[s] = "perform" /\ (closing[s] \/ ~fresh[s])
        /\ closing'[s] = closing[s] /\ fresh'[s] = fresh[s]
    BY <1>11, <1>t DEF SetActiveEpochBusy, Goto, NeedsMinimum
  <2>2. scan' = [scan EXCEPT ![s] = [NoScan EXCEPT !.others = TRUE]]
    BY <1>11 DEF SetActiveEpochBusy
  <2>3. scan'[s] = [left |-> {}, min |-> 0, others |-> TRUE]
    BY <1>t, <2>2 DEF NoScan
  <2>4. scan'[s].left = {} /\ scan'[s].others
    BY <2>3
  <2>5. MinimumInv(s)'
    BY <2>1, <2>4 DEF MinimumInv
  <2> QED  BY <1>2, <2>1, <2>4, <2>5 DEF InTxn, Cleaning
<1>12. ASSUME NEW u \in Sessions, VisitManager(s, u)
       PROVE  GcInv'
  <2>1. /\ pc[s] = "scan" /\ pc'[s] = "scan" /\ closing'[s] = closing[s] /\ fresh'[s] = fresh[s]
        /\ que'[s] = que[s] /\ perform'[s] = perform[s]
    BY <1>12 DEF VisitManager
  <2> DEFINE m == IF epoch[u] = 0 THEN scan[s].min ELSE LowerEpoch(scan[s].min, epoch[u])
             b == scan[s].others \/ (epoch[u] # 0 /\ u # s)
  <2>2. scan' = [scan EXCEPT ![s] = [left |-> scan[s].left \ {u}, min |-> m, others |-> b]]
    BY <1>12 DEF VisitManager
  <2> HIDE DEF m
  <2>3. scan'[s] = [left |-> scan[s].left \ {u}, min |-> m, others |-> b]
    BY <1>t, <2>2
  <2>4. scan'[s].left = scan[s].left \ {u} /\ scan'[s].others = b
    BY <2>3
  <2>5. ASSUME closing'[s], que'[s] = 3, ~scan'[s].others, NEW t \in Sessions, InTxn(t)'
        PROVE  t \in scan'[s].left \/ Apart(s, t)'
    <3>1. InTxn(t) /\ t # s /\ (Apart(s, t) => Apart(s, t)')
      BY <1>3, <2>1, <2>5
    <3>2. ~scan[s].others /\ (epoch[u] = 0 \/ u = s)
      BY <2>4, <2>5
    <3>3. t # u
      BY <1>8, <3>1, <3>2
    <3>4. t \in scan[s].left \/ Apart(s, t)
      BY <1>0, <2>1, <2>5, <3>1, <3>2 DEF MinimumInv
    <3> QED  BY <2>4, <3>1, <3>3, <3>4
  <2>6. ASSUME fresh'[s], ~closing'[s]
        PROVE  perform'[s] <= csn' /\ \A t \in Sessions : InTxn(t)' => perform'[s] <= epoch'[t]
    <3>1. /\ perform[s] <= csn /\ \A t \in Sessions : InTxn(t) => perform[s] <= epoch[t]
      BY <1>0, <2>1, <2>6 DEF MinimumInv
    <3> QED  BY <1>1, <1>3, <2>1, <3>1
  <2>7. MinimumInv(s)'
    BY <2>1, <2>5, <2>6 DEF MinimumInv
  <2> QED  BY <1>2, <2>1, <2>7 DEF InTxn, Cleaning
<1>13. CASE PublishMinimum(s)
  <2>1. /\ pc[s] = "scan" /\ pc'[s] = "perform" /\ closing'[s] = closing[s] /\ fresh'[s] = fresh[s]
        /\ que'[s] = que[s] /\ perform'[s] = perform[s] /\ scan'[s] = scan[s] /\ scan[s].left = {}
    BY <1>13, <1>t DEF PublishMinimum, Goto, gcVars
  <2>2. ASSUME closing'[s], que'[s] = 3, ~scan'[s].others, NEW t \in Sessions, InTxn(t)'
        PROVE  t \in scan'[s].left \/ Apart(s, t)'
    BY <1>0, <1>3, <2>1, <2>2 DEF MinimumInv
  <2>3. ASSUME fresh'[s], ~closing'[s]
        PROVE  perform'[s] <= csn' /\ \A t \in Sessions : InTxn(t)' => perform'[s] <= epoch'[t]
    <3>1. /\ perform[s] <= csn /\ \A t \in Sessions : InTxn(t) => perform[s] <= epoch[t]
      BY <1>0, <2>1, <2>3 DEF MinimumInv
    <3> QED  BY <1>1, <1>3, <2>1, <3>1
  <2>4. MinimumInv(s)'
    BY <2>1, <2>2, <2>3 DEF MinimumInv
  <2> QED  BY <1>2, <2>1, <2>4 DEF InTxn, Cleaning
<1>14. CASE SetPerformGcEpoch(s)
  <2>1. /\ pc[s] = "perform" /\ pc'[s] = "clean" /\ closing'[s] = closing[s] /\ que'[s] = que[s]
        /\ perform'[s] = PerformEpoch(s) /\ ~InTxn(s) /\ scan[s].left = {}
    BY <1>0, <1>14, <1>t DEF SetPerformGcEpoch, Goto, InTxn, ControlInv
  <2>2. CASE closing[s] /\ que[s] = 3 /\ ~scan[s].others
    <3>1. \A t \in Sessions : InTxn(t) => Apart(s, t)
      BY <1>0, <2>1, <2>2 DEF MinimumInv
    <3> QED  BY <1>7, <2>1, <2>2, <3>1
  <2>3. CASE ~(closing[s] /\ que[s] = 3 /\ ~scan[s].others)
    <3>1. perform'[s] = active
      BY <2>1, <2>3 DEF PerformEpoch
    <3> QED  BY <1>7, <1>8, <2>1, <3>1
  <2> QED  BY <2>2, <2>3
<1>15. CASE SkipDtor(s)
  <2>1. /\ pc[s] = "dtor" /\ pc'[s] = "clean" /\ closing'[s] = closing[s] /\ que'[s] = que[s]
        /\ perform'[s] = perform[s] /\ ~InTxn(s)
    BY <1>15, SkipDtorFrame DEF InTxn
  <2>2. /\ perform[s] <= csn \/ (closing[s] /\ que[s] = 3)
        /\ \A t \in Sessions : InTxn(t) =>
            perform[s] <= epoch[t] \/ (closing[s] /\ que[s] = 3 /\ Apart(s, t))
    BY <1>0, <2>1 DEF MinimumInv
  <2> QED  BY <1>7, <2>1, <2>2
<1> QED  BY <1>4, <1>5, <1>6, <1>9, <1>10, <1>11, <1>12, <1>13, <1>14, <1>15

-----------------------------------------------------------------------------
(* Inserts. *)

\* The newest row of a chain is the newest of all that were committed.
LEMMA TopNewest ==
    ASSUME GcInv, NEW x \in Sentinels, NEW r \in hist[x]
    PROVE  r <= Top(x) /\ Top(x) \in rows[x] /\ Top(x) \in Nat \ {0} /\ rows[x] # {}
<1>0. GcTypes /\ ChainInv(x)
  BY DEF GcInv
<1>1. hist[x] \in SUBSET Csn /\ rows[x] \in SUBSET Csn /\ Csn \subseteq Nat \ {0}
  BY <1>0, Numbers
<1> DEFINE m == NewestOf(hist[x])
<1>2. m \in hist[x] /\ \A q \in hist[x] : q <= m
  BY <1>1, NewestIs
<1> HIDE DEF m
<1>3. Shows(x, m, csn)
  BY <1>0, <1>2 DEF Shows, ChainInv
<1>4. m \in rows[x]
  BY <1>0, <1>2, <1>3 DEF ChainInv
<1>5. m <= Top(x) /\ Top(x) \in rows[x]
  BY <1>0, <1>4, TopIs
<1>6. r \in Nat /\ m \in Nat /\ Top(x) \in Nat \ {0} /\ r <= m
  BY <1>1, <1>2, <1>5
<1> QED  BY <1>4, <1>5, <1>6

\* The chains, queues and other sessions, when an insert begins.
LEMMA InsertKeeps ==
    ASSUME GcInv, EpochInv', NEW s \in Sessions, Frame(s), Alone(s),
           UNCHANGED <<csn, tombs, limbo, dels>>, used \subseteq used',
           \A y \in Sentinels : Keeps(y) /\ gcRefs'[y] = gcRefs[y],
           index' = index \/ (index = Nobody /\ index' \notin used),
           pc[s] = "open", pc'[s] = "open", epoch'[s] = epoch[s], snap'[s] = snap[s],
           held'[s] = index', index' \in used', index' \in Sentinels,
           op[s] = "none", op'[s] \in {"insert", "upgrade"},
           closing'[s] = closing[s], fresh'[s] = fresh[s], scan'[s] = scan[s],
           OpInv(s)',
           \A y \in Sentinels : PoolInv(y)',
           \A y \in Sentinels : refs'[y] >= refs[y] + (IF y = index' THEN 1 ELSE 0)
    PROVE  GcInv'
<1>0. GcTypes /\ GcTypes' /\ ControlInv(s) /\ Nobody \notin Sentinels
  BY GcAssumption DEF GcInv, Frame
<1>n. csn \in Nat /\ csn' >= csn
  BY <1>0, Numbers
<1>1. \A x \in Sentinels : Grows(x)
  BY DEF Keeps, Grows
<1>2. \A t \in Sessions \ {s} : ControlInv(t)' /\ DtorInv(t)'
  BY OthersControl
<1>3. DtorInv(s)' /\ MinimumInv(s)' /\ ControlInv(s)'
  <2>1. ~fresh[s] /\ ~closing[s]
    BY <1>0 DEF ControlInv, Cleaning
  <2>2. DtorInv(s)' /\ MinimumInv(s)'
    BY <2>1 DEF DtorInv, MinimumInv
  <2>3. ControlInv(s)'
    BY <1>0, <2>1 DEF ControlInv, InTxn, Cleaning, Els
  <2> QED  BY <2>2, <2>3
<1>4. Reads(s)
  BY DEF Reads, InTxn
<1>5. Holds(s)
  <2>1. ASSUME NEW t \in Sessions \ {s}, NEW e \in Els(t, 3)
        PROVE  e.sent # index'
    <3>1. LimboInv(t) /\ 3 \in Queues
      BY DEF GcInv, Queues
    <3>2. e.sent \in used /\ e.sent # index
      BY <3>1, InLimbo DEF LimboInv
    <3> QED  BY <3>2
  <2> QED  BY <2>1 DEF Holds, Apart, Els
<1>6. \A t \in Sessions \ {s} : MinimumInv(t)'
  BY <1>n, <1>4, <1>5, OthersMinimum
<1>7. \A x \in Sentinels : ChainInv(x)'
  BY <1>4, <1>n, ChainKept
<1>8. \A t \in Sessions : LimboInv(t)'
  BY <1>0, <1>1, <1>n, LimboSame
<1>9. \A t \in Sessions \ {s} : OpInv(t)'
  BY <1>1, <1>n, OpKept
<1>10. \A t \in Sessions : HeldInv(t)'
  <2>1. Els(s, 3) \subseteq Els(s, 3)' /\ Marked(s) \subseteq Marked(s)'
    BY DEF Els, Marked
  <2>2. ASSUME NEW t \in Sessions
        PROVE  InTxn(t)' => \/ InTxn(t) /\ held'[t] = held[t] /\ epoch'[t] = epoch[t]
                            \/ held'[t] = Nobody
                            \/ held'[t] = index' /\ index' \in used'
    <3>1. CASE t = s
      BY <3>1
    <3>2. CASE t # s
      BY <3>2 DEF Frame, Same, InTxn
    <3> QED  BY <3>1, <3>2
  <2> QED  BY <2>1, <2>2, HeldKept
<1>11. \A x \in Sentinels : CountInv(x)'
  BY CountKept DEF GcInv
<1>12. ASSUME NEW x \in Sentinels
       PROVE  CoverInv(x)'
  <2>1. s \notin Inserters(x)
    BY DEF Inserters
  <2>2. s \in Inserters(x)' <=> x = index'
    BY DEF Inserters
  <2>3. Cardinality(Inserters(x)') = Cardinality(Inserters(x)) + (IF x = index' THEN 1 ELSE 0)
    BY <2>1, <2>2, InsertersStep, InsertersFinite
  <2>4. refs[x] \in Int /\ refs'[x] \in Int /\ Cardinality(Inserters(x)) \in Nat
    BY <1>0, Numbers, NumbersAfter, InsertersFinite
  <2>5. refs'[x] - Cardinality(Inserters(x)') >= refs[x] - Cardinality(Inserters(x))
    BY <2>3, <2>4
  <2>6. Waiting(x)
    BY WaitingSame
  <2> QED  BY <1>0, <2>5, <2>6, CoverKept DEF Keeps
<1> QED  BY <1>0, <1>2, <1>3, <1>6, <1>7, <1>8, <1>9, <1>10, <1>11, <1>12 DEF GcInv

LEMMA InsertGc ==
    ASSUME GcInv, EpochInv', NEW s \in Sessions, Alone(s), InsertNew(s) \/ InsertOnSentinel(s)
    PROVE  GcInv'
<1>0. GcTypes /\ Frame(s) /\ ControlInv(s) /\ Nobody \notin Sentinels /\ GcTypes'
  BY GcAssumption, InsertFrame DEF GcInv, Frame
<1>t. /\ refs \in [Sentinels -> Int] /\ gcRefs \in [Sentinels -> Int]
      /\ minCsn \in [Sentinels -> 0..MaxCsn]
      /\ rows \in [Sentinels -> SUBSET Csn] /\ hist \in [Sentinels -> SUBSET Csn]
      /\ held \in [Sessions -> Sentinels \cup {Nobody}]
      /\ op \in [Sessions -> {"none", "update", "delete", "insert", "upgrade"}]
      /\ mine \in [Sessions -> 0..MaxCsn] /\ index \in Sentinels \cup {Nobody}
  BY <1>0 DEF GcTypes
<1>1. CASE InsertNew(s)
  <2>1. PICK x \in Sentinels \ used :
          /\ index' = x /\ used' = used \cup {x}
          /\ refs' = [refs EXCEPT ![x] = 1] /\ gcRefs' = [gcRefs EXCEPT ![x] = 0]
          /\ minCsn' = [minCsn EXCEPT ![x] = 0] /\ rows' = [rows EXCEPT ![x] = {}]
          /\ hist' = [hist EXCEPT ![x] = {}] /\ held' = [held EXCEPT ![s] = x]
    BY <1>1 DEF InsertNew
  <2>2. /\ op' = [op EXCEPT ![s] = "insert"] /\ index = Nobody /\ pc[s] = "open" /\ op[s] = "none"
        /\ UNCHANGED <<csn, tombs, pc, epoch, snap, mine, limbo, dels, closing, fresh, scan>>
    BY <1>1 DEF InsertNew, gcVars
  <2>3. rows[x] = {} /\ hist[x] = {} /\ minCsn[x] = 0 /\ gcRefs[x] = 0
    BY <2>1 DEF GcInv, PoolInv
  <2>4. \A y \in Sentinels : ~(refs[y] > 0) /\ refs[y] \in Int
    BY <1>0, <1>t, <2>2 DEF GcInv, PoolInv
  <2>5. /\ \A y \in Sentinels : rows'[y] = rows[y] /\ hist'[y] = hist[y]
        /\ \A y \in Sentinels : minCsn'[y] = minCsn[y] /\ gcRefs'[y] = gcRefs[y]
    <3>1. \A y \in Sentinels : rows'[y] = rows[y] /\ hist'[y] = hist[y]
      BY <1>t, <2>1, <2>3
    <3>2. \A y \in Sentinels : minCsn'[y] = minCsn[y] /\ gcRefs'[y] = gcRefs[y]
      BY <1>t, <2>1, <2>3
    <3> QED  BY <3>1, <3>2
  <2>6. refs'[x] = 1 /\ \A y \in Sentinels \ {x} : refs'[y] = refs[y]
    BY <1>t, <2>1
  <2>7. held'[s] = x /\ op'[s] = "insert" /\ mine'[s] = 0
    BY <1>0, <1>t, <2>1, <2>2 DEF ControlInv
  <2>8. OpInv(s)'
    BY <2>2, <2>3, <2>5, <2>7 DEF OpInv, Inserting
  <2>9. ASSUME NEW y \in Sentinels
        PROVE  PoolInv(y)'
    <3>1. PoolInv(y) /\ y # index
      BY <1>0, <2>2 DEF GcInv
    <3>2. CASE y = x
      BY <2>1, <2>6, <3>2 DEF PoolInv
    <3>3. CASE y # x
      BY <2>1, <2>4, <2>5, <2>6, <3>1, <3>3 DEF PoolInv
    <3> QED  BY <3>2, <3>3
  <2>10. \A y \in Sentinels : refs'[y] >= refs[y] + (IF y = index' THEN 1 ELSE 0)
    BY <2>1, <2>4, <2>6
  <2>11. \A y \in Sentinels : Keeps(y) /\ gcRefs'[y] = gcRefs[y]
    BY <2>5 DEF Keeps
  <2> QED  BY <1>0, <2>1, <2>2, <2>7, <2>8, <2>9, <2>10, <2>11, InsertKeeps
<1>2. CASE InsertOnSentinel(s)
  <2>1. /\ refs' = [refs EXCEPT ![index] = @ + 1] /\ held' = [held EXCEPT ![s] = index]
        /\ op' = [op EXCEPT ![s] = IF rows[index] = {} THEN "insert" ELSE "upgrade"]
        /\ mine' = [mine EXCEPT ![s] = Top(index)]
        /\ index # Nobody /\ refs[index] > 0 /\ Top(index) \in tombs \cup {0}
        /\ pc[s] = "open" /\ op[s] = "none"
        /\ UNCHANGED <<csn, index, used, gcRefs, minCsn, rows, tombs, hist, pc, epoch, snap, limbo,
                       dels, closing, fresh, scan>>
    BY <1>2 DEF InsertOnSentinel, gcVars
  <2>2. index \in Sentinels /\ index \in used
    BY <1>t, <2>1 DEF GcInv, PoolInv
  <2>3. refs'[index] = refs[index] + 1 /\ \A y \in Sentinels \ {index} : refs'[y] = refs[y]
    BY <1>t, <2>1, <2>2
  <2>4. /\ held'[s] = index /\ op'[s] = (IF rows[index] = {} THEN "insert" ELSE "upgrade")
        /\ mine'[s] = Top(index)
    BY <1>t, <2>1
  <2>5. /\ \A r \in hist[index] : r <= Top(index)
        /\ Top(index) \in Nat /\ hist[index] \in SUBSET Nat
    BY <1>0, <2>2, TopNewest, TopIs, Numbers
  <2>6. Top(index) = 0 <=> rows[index] = {}
    BY <1>0, <2>2, TopIs
  <2>7. rows[index] # {} => Top(index) \in hist[index] /\ Top(index) \in tombs
    <3>1. rows[index] \subseteq hist[index]
      BY <2>2 DEF GcInv, ChainInv
    <3> QED  BY <1>0, <2>1, <2>2, <2>6, <3>1, TopIs
  <2>8. OpInv(s)'
    <3>1. \A r \in hist'[held'[s]] : ~(r > mine'[s])
      BY <2>1, <2>4, <2>5
    <3> QED  BY <2>1, <2>4, <2>6, <2>7, <3>1 DEF OpInv, Inserting
  <2>9. \A y \in Sentinels : refs[y] \in Int
    BY <1>t
  <2>10. ASSUME NEW y \in Sentinels
         PROVE  PoolInv(y)'
    <3>1. PoolInv(y)
      BY DEF GcInv
    <3>2. CASE y = index
      BY <2>1, <2>2, <2>3, <2>9, <3>1, <3>2 DEF PoolInv
    <3>3. CASE y # index
      BY <2>1, <2>3, <3>1, <3>3 DEF PoolInv
    <3> QED  BY <3>2, <3>3
  <2>11. \A y \in Sentinels : refs'[y] >= refs[y] + (IF y = index' THEN 1 ELSE 0)
    BY <2>1, <2>3, <2>9
  <2>12. \A y \in Sentinels : Keeps(y) /\ gcRefs'[y] = gcRefs[y]
    BY <2>1 DEF Keeps
  <2>13. op'[s] \in {"insert", "upgrade"}
    BY <2>4
  <2> QED  BY <1>0, <2>1, <2>2, <2>4, <2>8, <2>10, <2>11, <2>12, <2>13, InsertKeeps
<1> QED  BY <1>1, <1>2

-----------------------------------------------------------------------------
(* The commit. *)

\* What Commit does.
CommitEffect(s, x) ==
    /\ Frame(s) /\ x = held[s] /\ x \in Sentinels /\ x \in used
    /\ pc[s] = "open" /\ pc'[s] = "committed" /\ op[s] # "none" /\ Top(x) = mine[s]
    /\ csn' = csn + 1 /\ mine'[s] = csn
    /\ rows'[x] = rows[x] \cup {csn} /\ hist'[x] = hist[x] \cup {csn}
    /\ \A y \in Sentinels \ {x} : rows'[y] = rows[y] /\ hist'[y] = hist[y]
    /\ tombs \subseteq tombs' /\ tombs' \subseteq tombs \cup {csn}
    /\ op[s] = "delete" => csn \in tombs'
    /\ UNCHANGED <<index, used, refs, gcRefs, minCsn, epoch, snap, held, op, limbo, dels, closing,
                   fresh, scan>>

LEMMA CommitIs ==
    ASSUME GcInv, NEW s \in Sessions, Commit(s)
    PROVE  CommitEffect(s, held[s])
<1>0. GcTypes /\ ControlInv(s) /\ Frame(s) /\ HeldInv(s)
  BY InsertFrame DEF GcInv
<1>t. /\ rows \in [Sentinels -> SUBSET Csn] /\ hist \in [Sentinels -> SUBSET Csn]
      /\ pc \in [Sessions -> PC] /\ mine \in [Sessions -> 0..MaxCsn]
      /\ held \in [Sessions -> Sentinels \cup {Nobody}]
  BY <1>0 DEF GcTypes
<1>1. /\ pc[s] = "open" /\ pc' = [pc EXCEPT ![s] = "committed"] /\ op[s] # "none"
      /\ Top(held[s]) = mine[s] /\ csn' = csn + 1
      /\ rows' = [rows EXCEPT ![held[s]] = @ \cup {csn}]
      /\ hist' = [hist EXCEPT ![held[s]] = @ \cup {csn}]
      /\ tombs' = IF op[s] = "delete" THEN tombs \cup {csn} ELSE tombs
      /\ mine' = [mine EXCEPT ![s] = csn]
      /\ UNCHANGED <<index, used, refs, gcRefs, minCsn, epoch, snap, held, op, limbo, dels, closing,
                     fresh, scan>>
  BY DEF Commit, Goto, gcVars
<1>2. held[s] \in Sentinels /\ held[s] \in used
  BY <1>0, <1>1, <1>t DEF ControlInv, HeldInv, InTxn
<1>3. pc'[s] = "committed" /\ mine'[s] = csn
  BY <1>1, <1>t
<1>4. /\ rows'[held[s]] = rows[held[s]] \cup {csn} /\ hist'[held[s]] = hist[held[s]] \cup {csn}
      /\ \A y \in Sentinels \ {held[s]} : rows'[y] = rows[y] /\ hist'[y] = hist[y]
  BY <1>1, <1>2, <1>t
<1>5. /\ tombs \subseteq tombs' /\ tombs' \subseteq tombs \cup {csn}
      /\ op[s] = "delete" => csn \in tombs'
  BY <1>1
<1> QED  BY <1>0, <1>1, <1>2, <1>3, <1>4, <1>5 DEF CommitEffect

\* The row that the commit publishes is counted.
LEMMA CommitCover ==
    ASSUME GcInv, NEW s \in Sessions, Alone(s), NEW x, CommitEffect(s, x)
    PROVE  CoverInv(x)'
<1>0. /\ GcTypes /\ GcTypes' /\ x \in Sentinels /\ x \in used /\ CoverInv(x) /\ ChainInv(x)
      /\ OpInv(s) /\ Frame(s)
  BY DEF GcInv, CommitEffect, Frame
<1>n. csn \in Nat /\ csn >= 1 /\ refs[x] \in Int /\ rows[x] \in SUBSET Nat /\ csn' \in Nat
  BY <1>0, Numbers, NumbersAfter
<1>c. /\ pc[s] = "open" /\ pc'[s] = "committed" /\ op[s] # "none" /\ Top(x) = mine[s]
      /\ x = held[s] /\ rows'[x] = rows[x] \cup {csn} /\ refs' = refs /\ minCsn' = minCsn
      /\ limbo' = limbo
      /\ tombs \subseteq tombs' /\ tombs' \subseteq tombs \cup {csn}
  BY DEF CommitEffect
<1>r. \A r \in rows[x] : r < csn
  BY <1>0 DEF ChainInv
<1>1. Top(x)' = csn
  <2>1. rows'[x] \in SUBSET Csn /\ csn \in rows'[x]
    BY <1>0, <1>c, NumbersAfter
  <2>2. \A r \in rows'[x] : r <= csn
    BY <1>c, <1>n, <1>r
  <2> QED  BY <2>1, <2>2, NewestEq DEF Top
<1>2. ASSUME NEW t \in Sessions, NEW e \in Pending(t)', Claim(e, x)'
      PROVE  FALSE
  <2>1. e \in Els(t, 1)
    <3>1. pc'[t] # "dtor"
      <4>1. CASE t = s
        BY <1>c, <4>1
      <4>2. CASE t # s
        BY <1>0, <4>2 DEF Alone, Frame, Same
      <4> QED  BY <4>1, <4>2
    <3> QED  BY <1>2, <1>c, <3>1 DEF Pending, Els
  <2>2. e.csn <= csn /\ e \in Element
    <3>1. LimboInv(t) /\ 1 \in Queues
      BY DEF GcInv, Queues
    <3> QED  BY <2>1, <3>1, InLimbo DEF LimboInv
  <2>3. e.csn \in Nat /\ e.row \in Nat
    BY <2>2, ElementIs
  <2>4. e.row = csn /\ e.row < e.csn
    BY <1>1, <1>2 DEF Claim
  <2> QED  BY <1>n, <2>2, <2>3, <2>4
<1>3. ~Claimed(x)'
  BY <1>2 DEF Claimed
<1> DEFINE n == Cardinality(Inserters(x))
           m == Cardinality(Inserters(x)')
           o == Cardinality(Owed(x))
           p == Cardinality(Owed(x)')
<1>4. n \in Nat /\ m \in Nat /\ o \in Nat /\ p \in Nat
  BY <1>0, InsertersFinite, OwedFinite, OwedAfterFinite
<1>5. refs[x] >= n + Live(x) + o
  <2>1. refs[x] >= n + Live(x) + o + (IF Claimed(x) THEN 1 ELSE 0)
    BY <1>0 DEF CoverInv
  <2>2. Live(x) \in {0, 1}
    BY DEF Live
  <2> HIDE DEF n, o
  <2>3. CASE Claimed(x)
    BY <1>4, <1>n, <2>1, <2>2, <2>3
  <2>4. CASE ~Claimed(x)
    BY <1>4, <1>n, <2>1, <2>2, <2>4
  <2> QED  BY <2>3, <2>4
<1>6. Live(x)' + p = o + 1
  <2>1. CASE csn \in tombs'
    <3>1. Owed(x)' = Owed(x) \cup {csn} /\ csn \notin Owed(x)
      <4>1. minCsn[x] < csn /\ minCsn'[x] = minCsn[x]
        BY <1>0, <1>c DEF ChainInv
      <4>2. \A r \in rows[x] : r # csn /\ (r \in tombs' <=> r \in tombs)
        BY <1>c, <1>n, <1>r
      <4> QED  BY <1>c, <2>1, <4>1, <4>2 DEF Owed
    <3>2. p = o + 1
      BY <1>0, <3>1, OwedFinite, FS_AddElement
    <3>3. Live(x)' = 0
      BY <1>1, <2>1 DEF Live
    <3> QED  BY <1>4, <3>2, <3>3
  <2>2. CASE csn \notin tombs'
    <3>1. Owed(x)' = Owed(x)
      <4>1. \A r \in rows[x] : r \in tombs' <=> r \in tombs
        BY <1>c, <1>n, <1>r
      <4> QED  BY <1>c, <2>2, <4>1 DEF Owed
    <3>2. Live(x)' = 1
      BY <1>1, <1>n, <2>2 DEF Live
    <3> QED  BY <1>4, <3>1, <3>2
  <2> QED  BY <2>1, <2>2
<1>7. m + 1 <= n + Live(x) /\ Live(x) \in {0, 1}
  <2>1. s \notin Inserters(x)'
    BY <1>c DEF Inserters
  <2>2. CASE op[s] \in {"insert", "upgrade"}
    <3>1. s \in Inserters(x)
      BY <1>c, <2>2 DEF Inserters
    <3>2. m = n - 1
      BY <1>0, <1>4, <2>1, <3>1, InsertersStep
    <3> QED  BY <1>4, <3>2 DEF Live
  <2>3. CASE op[s] \notin {"insert", "upgrade"}
    <3>1. s \notin Inserters(x)
      BY <2>3 DEF Inserters
    <3>2. m = n
      BY <1>0, <1>4, <2>1, <3>1, InsertersStep
    <3>3. op[s] \in {"update", "delete"}
      <4>1. op[s] \in {"none", "update", "delete", "insert", "upgrade"}
        BY <1>0 DEF GcTypes
      <4> QED  BY <1>c, <2>3, <4>1
    <3>4. Top(x) \notin tombs \cup {0}
      BY <1>0, <1>c, <3>3 DEF OpInv
    <3>5. Live(x) = 1
      BY <3>4 DEF Live
    <3> QED  BY <1>4, <3>2, <3>5
  <2> QED  BY <2>2, <2>3
<1>8. refs'[x] >= m + Live(x)' + p + (IF Claimed(x)' THEN 1 ELSE 0)
  <2>1. Live(x)' \in {0, 1} /\ refs'[x] = refs[x]
    BY <1>c DEF Live
  <2> HIDE DEF n, m, o, p
  <2>2. refs'[x] >= m + Live(x)' + p
    BY <1>4, <1>5, <1>6, <1>7, <1>n, <2>1
  <2>3. (IF Claimed(x)' THEN 1 ELSE 0) = 0
    BY <1>3
  <2> QED  BY <1>4, <2>1, <2>2, <2>3
<1> QED  BY <1>2, <1>8 DEF CoverInv

LEMMA CommitGc ==
    ASSUME GcInv, EpochInv', NEW s \in Sessions, Alone(s), Commit(s)
    PROVE  GcInv'
<1> DEFINE x == held[s]
<1>1. CommitEffect(s, x)
  BY CommitIs
<1> HIDE DEF x
<1>0. /\ GcTypes /\ GcTypes' /\ x \in Sentinels /\ Frame(s) /\ ControlInv(s) /\ OpInv(s)
      /\ \A t \in Sessions : SessionInv(t)
  BY <1>1 DEF GcInv, CommitEffect, Frame, EpochInv
<1>c. /\ pc[s] = "open" /\ pc'[s] = "committed" /\ op[s] # "none" /\ Top(x) = mine[s]
      /\ x = held[s] /\ csn' = csn + 1 /\ mine'[s] = csn
      /\ rows'[x] = rows[x] \cup {csn} /\ hist'[x] = hist[x] \cup {csn}
      /\ \A y \in Sentinels \ {x} : rows'[y] = rows[y] /\ hist'[y] = hist[y]
      /\ tombs \subseteq tombs' /\ tombs' \subseteq tombs \cup {csn}
      /\ op[s] = "delete" => csn \in tombs'
      /\ UNCHANGED <<index, used, refs, gcRefs, minCsn, epoch, snap, held, op, limbo, dels, closing,
                     fresh, scan>>
  BY <1>1 DEF CommitEffect
<1>n. csn \in Nat /\ csn' >= csn /\ \A t \in Sessions : snap[t] \in Nat /\ epoch[t] \in Nat
  BY <1>0, <1>c, Numbers
<1>2. \A y \in Sentinels : Grows(y)
  <2>1. ASSUME NEW y \in Sentinels
        PROVE  Grows(y)
    <3>1. CASE y = x
      BY <1>c, <1>n, <3>1 DEF Grows
    <3>2. CASE y # x
      BY <1>c, <3>2 DEF Grows
    <3> QED  BY <3>1, <3>2
  <2> QED  BY <2>1
<1>3. Reads(s) /\ Holds(s)
  BY <1>c DEF Reads, Holds, InTxn
<1>4. \A t \in Sessions \ {s} : ControlInv(t)' /\ DtorInv(t)'
  BY <1>0, OthersControl
<1>5. DtorInv(s)' /\ MinimumInv(s)' /\ ControlInv(s)'
  <2>1. ~fresh[s] /\ ~closing[s]
    BY <1>0, <1>c DEF ControlInv, Cleaning
  <2>2. DtorInv(s)' /\ MinimumInv(s)'
    BY <1>c, <2>1 DEF DtorInv, MinimumInv
  <2>3. ControlInv(s)'
    BY <1>0, <1>c, <2>1 DEF ControlInv, InTxn, Cleaning, Els
  <2> QED  BY <2>2, <2>3
<1>6. \A t \in Sessions \ {s} : MinimumInv(t)'
  BY <1>0, <1>n, <1>3, OthersMinimum
<1>7. \A t \in Sessions : LimboInv(t)'
  BY <1>0, <1>2, <1>c, <1>n, LimboSame
<1>8. \A t \in Sessions : OpInv(t)'
  <2>1. \A t \in Sessions \ {s} : OpInv(t)'
    BY <1>0, <1>2, <1>c, <1>n, OpKept
  <2>2. epoch[s] <= csn
    BY <1>0 DEF SessionInv
  <2>3. OpInv(s)'
    BY <1>c, <2>2 DEF OpInv, Inserting
  <2> QED  BY <2>1, <2>3
<1>9. \A t \in Sessions : HeldInv(t)'
  <2>1. Els(s, 3) \subseteq Els(s, 3)' /\ Marked(s) \subseteq Marked(s)' /\ used \subseteq used'
    BY <1>c DEF Els, Marked
  <2>2. ASSUME NEW t \in Sessions
        PROVE  InTxn(t)' => InTxn(t) /\ held'[t] = held[t] /\ epoch'[t] = epoch[t]
    <3>1. CASE t = s
      BY <1>c, <3>1 DEF InTxn
    <3>2. CASE t # s
      BY <1>0, <3>2 DEF Frame, Same, InTxn
    <3> QED  BY <3>1, <3>2
  <2> QED  BY <1>0, <1>c, <2>1, <2>2, HeldKept
<1>10. \A y \in Sentinels : CountInv(y)'
  BY <1>c, CountKept DEF GcInv
<1>11. ASSUME NEW y \in Sentinels
       PROVE  PoolInv(y)'
  <2>1. PoolInv(y) /\ x \in used
    BY <1>1 DEF GcInv, CommitEffect
  <2>2. CASE y = x
    BY <1>c, <2>1, <2>2 DEF PoolInv
  <2>3. CASE y # x
    BY <1>c, <2>1, <2>3 DEF PoolInv
  <2> QED  BY <2>2, <2>3
<1>12. ASSUME NEW y \in Sentinels
       PROVE  ChainInv(y)'
  <2>1. CASE y # x
    <3>1. Keeps(y)
      BY <1>c, <2>1 DEF Keeps
    <3> QED  BY <1>0, <1>3, <1>n, <3>1, ChainKept
  <2>2. CASE y = x
    <3>0. ChainInv(x) /\ hist[x] \in SUBSET Nat /\ minCsn[x] \in Nat
      BY <1>0, Numbers DEF GcInv
    <3>1. /\ rows[x] \subseteq hist[x] /\ minCsn[x] < csn /\ \A r \in hist[x] : r < csn
          /\ \A t \in Sessions : InTxn(t) =>
              /\ minCsn[x] < epoch[t]
              /\ \A r \in hist[x] : Shows(x, r, snap[t]) => r \in rows[x]
      BY <3>0 DEF ChainInv
    <3>2. /\ rows'[x] \subseteq hist'[x] /\ minCsn'[x] < csn' /\ \A r \in hist'[x] : r < csn'
      BY <1>c, <1>n, <3>0, <3>1
    <3>3. ASSUME NEW r \in hist'[x], \A q \in hist'[x] : q < csn' => q <= r
          PROVE  r \in rows'[x]
      <4>1. csn <= r
        BY <1>c, <1>n, <3>3
      <4>2. r = csn
        BY <1>c, <1>n, <3>0, <3>1, <4>1
      <4> QED  BY <1>c, <4>2
    <3>4. ASSUME NEW t \in Sessions, InTxn(t)'
          PROVE  /\ minCsn'[x] < epoch'[t]
                 /\ \A r \in hist'[x] :
                     r < snap'[t] /\ (\A q \in hist'[x] : q < snap'[t] => q <= r) => r \in rows'[x]
      <4>1. InTxn(t)
        <5>1. CASE t = s
          BY <1>c, <5>1 DEF InTxn
        <5>2. CASE t # s
          BY <1>0, <3>4, <5>2 DEF Frame, Same, InTxn
        <5> QED  BY <5>1, <5>2
      <4>2. snap[t] <= csn /\ epoch'[t] = epoch[t] /\ snap'[t] = snap[t]
        BY <1>0, <1>c DEF SessionInv
      <4>3. ASSUME NEW r \in hist'[x], r < snap[t], \A q \in hist'[x] : q < snap[t] => q <= r
            PROVE  r \in rows'[x]
        <5>1. r \in hist[x]
          BY <1>c, <1>n, <4>2, <4>3
        <5>2. Shows(x, r, snap[t])
          BY <1>c, <4>3, <5>1 DEF Shows
        <5> QED  BY <1>c, <3>1, <4>1, <5>1, <5>2
      <4> QED  BY <1>c, <3>1, <4>1, <4>2, <4>3
    <3> QED  BY <2>2, <3>2, <3>3, <3>4 DEF ChainInv, Shows
  <2> QED  BY <2>1, <2>2
<1>13. ASSUME NEW y \in Sentinels
       PROVE  CoverInv(y)'
  <2>1. CASE y = x
    BY <1>1, <2>1, CommitCover
  <2>2. CASE y # x
    <3>1. s \notin Inserters(y) /\ s \notin Inserters(y)'
      BY <1>c, <2>2 DEF Inserters
    <3>2. Cardinality(Inserters(y)') = Cardinality(Inserters(y))
      BY <1>0, <3>1, InsertersStep, InsertersFinite
    <3>3. Waiting(y)
      BY <1>0, <1>c, WaitingSame
    <3>4. refs'[y] - Cardinality(Inserters(y)') >= refs[y] - Cardinality(Inserters(y))
      <4>1. refs[y] \in Int /\ refs'[y] = refs[y] /\ Cardinality(Inserters(y)) \in Nat
        BY <1>0, <1>c, Numbers, InsertersFinite
      <4> QED  BY <3>2, <4>1
    <3>5. \A r \in rows[y] : r \in tombs' <=> r \in tombs
      <4>1. ChainInv(y) /\ rows[y] \in SUBSET Nat
        BY <1>0, Numbers DEF GcInv
      <4>2. \A r \in rows[y] : r < csn
        BY <4>1 DEF ChainInv
      <4> QED  BY <1>c, <1>n, <4>1, <4>2
    <3> QED  BY <1>0, <1>c, <2>2, <3>3, <3>4, <3>5, CoverKept
  <2> QED  BY <2>1, <2>2
<1> QED  BY <1>0, <1>4, <1>5, <1>6, <1>7, <1>8, <1>9, <1>10, <1>11, <1>12, <1>13 DEF GcInv

-----------------------------------------------------------------------------
(* The lists of the sessions after a step. *)

ListsOk ==
    /\ Lists \in [Sessions \X (0..3) -> Seq(Sentinels)]
    /\ \A t \in Sessions : Lists[<<t, 0>>] = dels[t]
    /\ \A t \in Sessions, q \in Queues :
         /\ Lists[<<t, q>>] \in Seq(Sentinels)
         /\ Len(Lists[<<t, q>>]) = Len(limbo[t][q])
         /\ \A i \in 1..Len(limbo[t][q]) : Lists[<<t, q>>][i] = limbo[t][q][i].sent

LEMMA ListsAre == GcTypes => ListsOk
BY ListsType DEF ListsOk

LEMMA ListsAfter ==
    ASSUME GcTypes'
    PROVE  ListsOk'
BY ListsAre, PTL

\* A list that is not touched.
LEMMA ListSame ==
    ASSUME GcTypes, GcTypes', NEW k \in Sessions \X (0..3),
           k[2] = 0 => dels'[k[1]] = dels[k[1]],
           k[2] # 0 => limbo'[k[1]][k[2]] = limbo[k[1]][k[2]]
    PROVE  Lists'[k] = Lists[k]
BY DEF Lists

\* Sequences that agree.
LEMMA SeqEq ==
    ASSUME NEW S, NEW l \in Seq(S), NEW m \in Seq(S), Len(l) = Len(m),
           \A i \in 1..Len(l) : l[i] = m[i]
    PROVE  l = m
OBVIOUS

\* An element e was put in queue q of session s.
Recorded(s, q, e) ==
    /\ e \in Element /\ q = QueueOf(e.kind) /\ q \in Queues
    /\ \A y \in Sentinels : gcRefs'[y] = gcRefs[y] + (IF y = e.sent THEN 1 ELSE 0)
    /\ limbo'[s][q] = Append(limbo[s][q], e)
    /\ \A p \in Queues \ {q} : limbo'[s][p] = limbo[s][p]

LEMMA RecordedIs ==
    ASSUME GcTypes, NEW s \in Sessions, NEW kind \in {"delete", "version", "sentinel"},
           NEW x \in Sentinels, NEW row \in 0..MaxCsn, NEW at \in Csn, GcRecord(s, kind, x, row, at)
    PROVE  Recorded(s, QueueOf(kind), [kind |-> kind, sent |-> x, row |-> row, csn |-> at])
BY RecordIs, SMTT(40) DEF Recorded

LEMMA RecordedKeeps ==
    ASSUME GcInv, NEW s \in Sessions, Frame(s), dels' = dels, NEW q, NEW e, Recorded(s, q, e)
    PROVE  /\ Els(s, q)' = Els(s, q) \cup {e}
           /\ \A p \in Queues \ {q} : Els(s, p)' = Els(s, p)
           /\ \A y \in Sentinels : CountInv(y)'
<1>0. /\ GcTypes /\ GcTypes' /\ \A y \in Sentinels : CountInv(y)
  BY DEF GcInv, Frame
<1>1. /\ e \in Element /\ q \in Queues
      /\ \A y \in Sentinels : gcRefs'[y] = gcRefs[y] + (IF y = e.sent THEN 1 ELSE 0)
      /\ limbo'[s][q] = Append(limbo[s][q], e)
      /\ \A p \in Queues \ {q} : limbo'[s][p] = limbo[s][p]
  BY DEF Recorded
<1>2. limbo[s][q] \in Seq(Element) /\ e.sent \in Sentinels
  <2>1. limbo \in [Sessions -> [Queues -> Seq(Element)]]
    BY <1>0 DEF GcTypes
  <2> QED  BY <1>1, <2>1, ElementIs
<1>3. Els(s, q)' = Els(s, q) \cup {e} /\ \A p \in Queues \ {q} : Els(s, p)' = Els(s, p)
  BY <1>1, <1>2, RangeAppend DEF Els
<1> DEFINE k == <<s, q>>
<1>4. ListsOk /\ ListsOk'
  BY <1>0, ListsAre, ListsAfter
<1>5. k \in Sessions \X (0..3)
  BY <1>1 DEF Queues
<1>6. /\ Lists \in [Sessions \X (0..3) -> Seq(Sentinels)]
      /\ Lists' \in [Sessions \X (0..3) -> Seq(Sentinels)]
  BY <1>4 DEF ListsOk
<1>7. Lists'[k] = Append(Lists[k], e.sent)
  <2> DEFINE l == limbo[s][q]
             f == Lists[k]
             g == Lists'[k]
  <2>1. /\ f \in Seq(Sentinels) /\ Len(f) = Len(l) /\ \A i \in 1..Len(l) : f[i] = l[i].sent
    BY <1>1, <1>4 DEF ListsOk
  <2>2. /\ g \in Seq(Sentinels) /\ Len(g) = Len(limbo'[s][q])
        /\ \A i \in 1..Len(limbo'[s][q]) : g[i] = limbo'[s][q][i].sent
    BY <1>1, <1>4 DEF ListsOk
  <2>3. /\ l \in Seq(Element) /\ limbo'[s][q] = Append(l, e)
    BY <1>1, <1>2
  <2> HIDE DEF l, f, g
  <2>4. /\ Len(Append(l, e)) = Len(l) + 1 /\ Len(l) \in Nat
        /\ \A i \in 1..Len(l) : Append(l, e)[i] = l[i]
        /\ Append(l, e)[Len(l) + 1] = e
    BY <1>1, <2>3
  <2>5. /\ Append(f, e.sent) \in Seq(Sentinels) /\ Len(Append(f, e.sent)) = Len(f) + 1
        /\ \A i \in 1..Len(f) : Append(f, e.sent)[i] = f[i]
        /\ Append(f, e.sent)[Len(f) + 1] = e.sent
    BY <1>2, <2>1
  <2>6. ASSUME NEW i \in 1..Len(g)
        PROVE  g[i] = Append(f, e.sent)[i]
    <3>1. CASE i = Len(l) + 1
      BY <2>1, <2>2, <2>3, <2>4, <2>5, <3>1
    <3>2. CASE i # Len(l) + 1
      <4>1. i \in 1..Len(l)
        BY <2>2, <2>3, <2>4, <3>2
      <4> QED  BY <2>1, <2>2, <2>3, <2>4, <2>5, <4>1
    <3> QED  BY <3>1, <3>2
  <2>7. Len(g) = Len(Append(f, e.sent))
    BY <2>1, <2>2, <2>3, <2>4, <2>5
  <2>8. g = Append(f, e.sent)
    BY <2>2, <2>5, <2>6, <2>7, SeqEq
  <2> QED  BY <2>8 DEF f, g
<1>8. ASSUME NEW j \in Sessions \X (0..3), j # k
      PROVE  Lists'[j] = Lists[j]
  <2>0. PICK t \in Sessions, p \in 0..3 : j = <<t, p>>
    OBVIOUS
  <2>1. j[1] = t /\ j[2] = p
    BY <2>0
  <2>2. p # 0 => p \in Queues
    BY DEF Queues
  <2>3. CASE t = s
    <3>1. p # q
      BY <1>8, <2>0, <2>3
    <3>2. p # 0 => limbo'[t][p] = limbo[t][p]
      BY <1>1, <2>2, <2>3, <3>1
    <3> QED  BY <1>0, <2>1, <3>2, ListSame
  <2>4. CASE t # s
    <3>1. limbo'[t] = limbo[t]
      BY <2>4 DEF Frame, Same
    <3> QED  BY <1>0, <2>1, <3>1, ListSame
  <2> QED  BY <2>3, <2>4
<1> HIDE DEF k
<1>9. ASSUME NEW y \in Sentinels
      PROVE  CountInv(y)'
  <2>1. Cardinality(Places(Lists', y)) =
          Cardinality(Places(Lists, y)) + (IF y = e.sent THEN 1 ELSE 0)
    <3> DEFINE F == Lists
               G == Lists'
               K == Sessions \X (0..3)
               x == e.sent
    <3>1. /\ F \in [K -> Seq(Sentinels)] /\ G \in [K -> Seq(Sentinels)] /\ k \in K /\ x \in Sentinels
          /\ G[k] = Append(F[k], x) /\ \A j \in K \ {k} : G[j] = F[j]
      BY <1>2, <1>5, <1>6, <1>7, <1>8
    <3>k. IsFiniteSet(K)
      BY KeysFinite
    <3> HIDE DEF F, G, K, x
    <3>2. Cardinality(Places(G, y)) = Cardinality(Places(F, y)) + (IF y = x THEN 1 ELSE 0)
      <4>1. Longer(K, Sentinels, F, G, k, x)
        BY <3>1, <3>k DEF Longer
      <4> QED  BY <4>1, PlacesAppend
    <3> QED  BY <3>2 DEF F, G, x
  <2>2. gcRefs'[y] = gcRefs[y] + (IF y = e.sent THEN 1 ELSE 0) /\ CountInv(y)
    BY <1>0, <1>1
  <2>3. gcRefs'[y] = Cardinality(Places(Lists', y))
    BY <2>1, <2>2 DEF CountInv
  <2> QED  BY <2>3 DEF CountInv, Places
<1> QED  BY <1>3, <1>9

-----------------------------------------------------------------------------
(* The end of a transaction. *)

EndEffect(s) ==
    /\ Frame(s) /\ InTxn(s) /\ pc'[s] = "end" /\ op'[s] = "none" /\ mine'[s] = 0
    /\ UNCHANGED <<csn, used, minCsn, rows, tombs, hist, epoch, dels, closing, fresh, scan>>

LEMMA EndIs ==
    ASSUME GcInv, NEW s \in Sessions, GcMaintenance(s) \/ Rollback(s)
    PROVE  EndEffect(s)
<1>0. GcTypes /\ Frame(s)
  BY EndFrame DEF GcInv
<1>t. /\ pc \in [Sessions -> PC] /\ mine \in [Sessions -> 0..MaxCsn]
      /\ op \in [Sessions -> {"none", "update", "delete", "insert", "upgrade"}]
  BY <1>0 DEF GcTypes
<1>1. /\ InTxn(s) /\ EndTxn(s) /\ pc' = [pc EXCEPT ![s] = "end"]
      /\ UNCHANGED <<csn, used, minCsn, rows, tombs, hist, epoch, dels, closing, fresh, scan>>
  BY DEF GcMaintenance, Rollback, Goto, InTxn, gcVars
<1>2. pc'[s] = "end" /\ op'[s] = "none" /\ mine'[s] = 0
  BY <1>1, <1>t DEF EndTxn
<1> QED  BY <1>0, <1>1, <1>2 DEF EndEffect

\* What the end of a transaction keeps, given the counts and the new element.
LEMMA EndKeeps ==
    ASSUME GcInv, EpochInv', NEW s \in Sessions, Alone(s), EndEffect(s),
           \A q \in Queues : Els(s, q) \subseteq Els(s, q)',
           \A q \in Queues : \A d \in Els(s, q)' : d \notin Els(s, q) =>
               /\ q = QueueOf(d.kind) /\ d.csn <= csn
               /\ q \in {1, 2} => ElementInv(d)
               /\ q = 3 => d.sent # index',
           \/ index' = index
           \/ index' = Nobody /\ \E d \in Els(s, 3)' : d.sent = index /\ d.csn = csn,
           \A y \in Sentinels : CountInv(y)' /\ PoolInv(y)' /\ CoverInv(y)'
    PROVE  GcInv'
<1>0. /\ GcTypes /\ GcTypes' /\ ControlInv(s) /\ Frame(s) /\ \A t \in Sessions : SessionInv(t)
  BY DEF GcInv, EndEffect, Frame, EpochInv
<1>e. /\ InTxn(s) /\ pc'[s] = "end" /\ op'[s] = "none" /\ mine'[s] = 0
      /\ UNCHANGED <<csn, used, minCsn, rows, tombs, hist, epoch, dels, closing, fresh, scan>>
  BY DEF EndEffect
<1>n. csn \in Nat /\ csn' >= csn /\ \A t \in Sessions : epoch[t] \in Nat
  BY <1>0, <1>e, Numbers
<1>q. 1 \in Queues /\ 2 \in Queues /\ 3 \in Queues
  BY DEF Queues
<1>1. \A y \in Sentinels : Keeps(y) /\ Grows(y)
  BY <1>e DEF Keeps, Grows
<1>2. Reads(s) /\ Holds(s)
  BY <1>e DEF Reads, Holds, InTxn
<1>3. \A t \in Sessions \ {s} : ControlInv(t)' /\ DtorInv(t)'
  BY <1>0, OthersControl
<1>4. DtorInv(s)' /\ MinimumInv(s)' /\ ControlInv(s)' /\ OpInv(s)'
  <2>1. ~fresh[s] /\ ~closing[s]
    BY <1>0, <1>e DEF ControlInv, Cleaning, InTxn
  <2>2. DtorInv(s)' /\ MinimumInv(s)' /\ OpInv(s)'
    BY <1>e, <2>1 DEF DtorInv, MinimumInv, OpInv, Inserting
  <2>3. \A q \in Queues : \A d \in Els(s, q)' : q = QueueOf(d.kind)
    BY <1>0 DEF ControlInv
  <2>4. ControlInv(s)'
    BY <1>e, <2>1, <2>3 DEF ControlInv
  <2> QED  BY <2>2, <2>4
<1>5. \A t \in Sessions \ {s} : MinimumInv(t)'
  BY <1>0, <1>n, <1>2, OthersMinimum
<1>6. \A t \in Sessions \ {s} : LimboInv(t)'
  <2>1. \A t \in Sessions \ {s} : limbo'[t] = limbo[t] /\ dels'[t] = dels[t]
    BY <1>0 DEF Frame, Same
  <2> QED  BY <1>0, <1>1, <1>e, <1>n, <2>1, LimboSame
<1>7. LimboInv(s)'
  <2>1. /\ \A q \in {1, 2} : \A e \in Els(s, q) : ElementInv(e)'
        /\ \A q \in Queues : \A e \in Els(s, q) : e.csn <= csn'
        /\ \A e \in Els(s, 3) : e.sent # index'
        /\ \A x \in Marked(s) : x # index'
    BY <1>0, <1>1, <1>e, <1>n, LimboKept
  <2>2. ASSUME NEW q \in {1, 2}, NEW d \in Els(s, q)'
        PROVE  ElementInv(d)'
    <3>1. CASE d \in Els(s, q)
      BY <2>1, <3>1
    <3>2. CASE d \notin Els(s, q)
      <4>1. ElementInv(d)
        BY <1>q, <2>2, <3>2
      <4> QED  BY <1>e, <4>1 DEF ElementInv
    <3> QED  BY <3>1, <3>2
  <2>3. \A q \in Queues : \A d \in Els(s, q)' : d.csn <= csn'
    BY <1>e, <2>1
  <2>4. \A d \in Els(s, 3)' : d.sent # index'
    BY <1>q, <2>1
  <2>5. Marked(s)' = Marked(s)
    BY <1>e DEF Marked
  <2> QED  BY <2>1, <2>2, <2>3, <2>4, <2>5 DEF LimboInv
<1>8. \A t \in Sessions \ {s} : OpInv(t)'
  BY <1>0, <1>1, <1>e, <1>n, OpKept
<1>9. ASSUME NEW t \in Sessions
      PROVE  HeldInv(t)'
  <2>1. CASE t = s
    BY <1>e, <2>1 DEF HeldInv, InTxn
  <2>2. CASE t # s
    <3>0. Same(t)
      BY <1>0, <2>2 DEF Frame
    <3>1. CASE index' = index
      <4>1. Marked(s) \subseteq Marked(s)' /\ used \subseteq used' /\ Els(s, 3) \subseteq Els(s, 3)'
        BY <1>e, <1>q DEF Marked
      <4>2. InTxn(t)' => InTxn(t) /\ held'[t] = held[t] /\ epoch'[t] = epoch[t]
        BY <3>0 DEF Same, InTxn
      <4> QED  BY <1>0, <3>1, <4>1, <4>2, HeldKept
    <3>2. CASE index' = Nobody /\ \E d \in Els(s, 3)' : d.sent = index /\ d.csn = csn
      <4> SUFFICES ASSUME InTxn(t)', held'[t] # Nobody
                   PROVE  held'[t] \in used' /\ Owned(held[t], epoch[t])'
        BY DEF HeldInv
      <4>1. InTxn(t) /\ held'[t] = held[t] /\ epoch'[t] = epoch[t] /\ HeldInv(t)
        BY <3>0 DEF Same, InTxn, GcInv
      <4>2. held[t] \in used /\ (held[t] # index => Owned(held[t], epoch[t]))
        BY <4>1 DEF HeldInv
      <4>3. CASE held[t] = index
        <5>1. PICK d \in Els(s, 3)' : d.sent = index /\ d.csn = csn
          BY <3>2
        <5>2. d.sent = held'[t] /\ d.csn >= epoch'[t]
          BY <1>0, <1>n, <4>1, <4>3, <5>1 DEF SessionInv
        <5>3. Owned(held[t], epoch[t])'
          BY <5>2 DEF Owned
        <5> QED  BY <1>e, <4>1, <4>2, <5>3
      <4>4. CASE held[t] # index
        <5>1. PICK u \in Sessions : \/ held[t] \in Marked(u)
                                    \/ \E e \in Els(u, 3) : e.sent = held[t] /\ e.csn >= epoch[t]
          BY <4>2, <4>4 DEF Owned
        <5>2. Els(u, 3) \subseteq Els(u, 3)' /\ Marked(u) \subseteq Marked(u)'
          <6>1. CASE u = s
            BY <1>e, <1>q, <6>1 DEF Marked
          <6>2. CASE u # s
            BY <1>0, <6>2 DEF Frame, Same, Els, Marked
          <6> QED  BY <6>1, <6>2
        <5>3. \/ held'[t] \in Marked(u)'
              \/ \E e \in Els(u, 3)' : e.sent = held'[t] /\ e.csn >= epoch'[t]
          BY <4>1, <5>1, <5>2
        <5>4. Owned(held[t], epoch[t])'
          BY <5>3 DEF Owned
        <5> QED  BY <1>e, <4>1, <4>2, <5>4
      <4> QED  BY <4>3, <4>4
    <3> QED  BY <3>1, <3>2
  <2> QED  BY <2>1, <2>2
<1>10. \A y \in Sentinels : ChainInv(y)'
  BY <1>0, <1>1, <1>2, <1>n, ChainKept
<1> QED  BY <1>0, <1>3, <1>4, <1>5, <1>6, <1>7, <1>8, <1>9, <1>10 DEF GcInv

\* A place more for a sentinel in use.
LEMMA RecordedPool ==
    ASSUME GcInv, NEW s \in Sessions, NEW q, NEW e, Recorded(s, q, e), GcTypes',
           UNCHANGED <<rows, hist, minCsn, used>>, e.sent \in used, NEW y \in Sentinels,
           refs'[y] > 0 <=> y = index', index' = index \/ index' = Nobody,
           y = index => y = index' \/ y = e.sent
    PROVE  PoolInv(y)'
<1>1. PoolInv(y) /\ CountInv(y) /\ GcTypes
  BY DEF GcInv
<1>2. gcRefs'[y] = gcRefs[y] + (IF y = e.sent THEN 1 ELSE 0)
  BY DEF Recorded
<1>3. gcRefs[y] \in Nat
  <2>1. Lists \in [Sessions \X (0..3) -> Seq(Sentinels)]
    BY <1>1, ListsType
  <2>2. Cardinality(Places(Lists, y)) \in Nat
    BY <2>1, KeysFinite, PlacesFinite
  <2> QED  BY <1>1, <2>2 DEF CountInv
<1>4. Nobody \notin Sentinels
  BY GcAssumption
<1>5. CASE y = e.sent
  <2>1. gcRefs'[y] > 0 /\ y \in used
    BY <1>2, <1>3, <1>5
  <2> QED  BY <2>1 DEF PoolInv
<1>6. CASE y # e.sent
  <2>1. gcRefs'[y] = gcRefs[y]
    BY <1>2, <1>3, <1>6
  <2> QED  BY <1>1, <1>4, <1>6, <2>1 DEF PoolInv
<1> QED  BY <1>5, <1>6

\* The count of x, when the transaction ends without an element for x.
LEMMA EndCover ==
    ASSUME GcInv, NEW s \in Sessions, EndEffect(s), NEW x \in Sentinels, Waiting(x),
           refs'[x] >= refs[x] - (IF s \in Inserters(x) THEN 1 ELSE 0)
    PROVE  CoverInv(x)'
<1>0. GcTypes /\ GcTypes' /\ Frame(s)
  BY DEF GcInv, EndEffect, Frame
<1>1. s \notin Inserters(x)' /\ UNCHANGED <<rows, minCsn, tombs>>
  BY DEF EndEffect, Inserters
<1>2. Cardinality(Inserters(x)') = Cardinality(Inserters(x)) - (IF s \in Inserters(x) THEN 1 ELSE 0)
  BY <1>0, <1>1, InsertersStep, InsertersFinite
<1>3. refs[x] \in Int /\ refs'[x] \in Int /\ Cardinality(Inserters(x)) \in Nat
  BY <1>0, Numbers, NumbersAfter, InsertersFinite
<1>4. refs'[x] - Cardinality(Inserters(x)') >= refs[x] - Cardinality(Inserters(x))
  BY <1>2, <1>3
<1> QED  BY <1>0, <1>1, <1>4, CoverKept

\* No element was recorded, or one that claims nothing of x.
LEMMA EndWaiting ==
    ASSUME GcInv, NEW s \in Sessions, EndEffect(s), NEW x \in Sentinels,
           \A d \in Els(s, 1)' : d \in Els(s, 1) \/ d.sent # x \/ ~(d.row < d.csn)
    PROVE  Waiting(x)
<1>1. ASSUME NEW t \in Sessions, NEW e \in Pending(t)', e.sent = x, e.row < e.csn
      PROVE  e \in Pending(t)
  <2>1. CASE t = s
    <3>1. e \in Els(s, 1)'
      BY <1>1, <2>1 DEF Pending, EndEffect
    <3> QED  BY <1>1, <2>1, <3>1 DEF Pending
  <2>2. CASE t # s
    BY <1>1, <2>2 DEF Pending, Els, EndEffect, Frame, Same
  <2> QED  BY <2>1, <2>2
<1>2. \A e : Alike(e, e)
  BY DEF Alike
<1> QED  BY <1>1, <1>2 DEF Waiting

\* A transaction that ends without an element.
LEMMA EndQuiet ==
    ASSUME GcInv, EpochInv', NEW s \in Sessions, Alone(s), EndEffect(s),
           UNCHANGED <<limbo, gcRefs, index>>,
           \A y \in Sentinels : /\ refs'[y] >= refs[y] - (IF s \in Inserters(y) THEN 1 ELSE 0)
                                /\ refs'[y] > 0 <=> refs[y] > 0
    PROVE  GcInv'
<1>0. UNCHANGED <<dels, rows, hist, minCsn, used>>
  BY DEF EndEffect
<1>1. \A q \in Queues : Els(s, q)' = Els(s, q)
  BY DEF Els
<1>2. ASSUME NEW y \in Sentinels
      PROVE  CountInv(y)' /\ PoolInv(y)' /\ CoverInv(y)'
  <2>1. CountInv(y) /\ PoolInv(y)
    BY DEF GcInv
  <2>2. CountInv(y)'
    BY <1>0, <2>1, CountKept
  <2>3. PoolInv(y)'
    BY <1>0, <2>1 DEF PoolInv
  <2>4. Waiting(y)
    BY <1>1, EndWaiting DEF Queues
  <2> QED  BY <2>2, <2>3, <2>4, EndCover
<1> QED  BY <1>1, <1>2, EndKeeps

LEMMA MaintenanceGc ==
    ASSUME GcInv, EpochInv', NEW s \in Sessions, Alone(s), GcMaintenance(s)
    PROVE  GcInv'
<1>0. GcTypes /\ ControlInv(s) /\ OpInv(s) /\ EndEffect(s) /\ GcTypes' /\ HeldInv(s)
  BY EndIs DEF GcInv, EndEffect, Frame
<1>1. pc[s] = "committed" /\ UNCHANGED <<index, refs, dels, rows, hist, minCsn, used, csn>>
  BY DEF GcMaintenance, Goto, gcVars
<1>2. \A y \in Sentinels : refs[y] \in Int /\ s \notin Inserters(y)
  BY <1>0, <1>1, Numbers DEF Inserters
<1>3. \A y \in Sentinels : refs'[y] >= refs[y] - (IF s \in Inserters(y) THEN 1 ELSE 0)
  BY <1>1, <1>2
<1>4. CASE LimboKind(op[s]) = "none"
  <2>1. UNCHANGED <<limbo, gcRefs>>
    BY <1>4 DEF GcMaintenance
  <2> QED  BY <1>0, <1>1, <1>3, <2>1, EndQuiet
<1>5. CASE LimboKind(op[s]) # "none"
  <2>1. op[s] \in {"update", "delete", "insert", "upgrade"}
    BY <1>0, <1>1 DEF OpInv, GcTypes
  <2>2. PICK k \in {"delete", "version"} : k = LimboKind(op[s]) /\ (k = "delete" => op[s] = "delete")
    BY <1>5, <2>1 DEF LimboKind
  <2>3. PICK x : x = held[s]
    OBVIOUS
  <2>4. PICK m : m = mine[s]
    OBVIOUS
  <2>5. x \in Sentinels /\ x \in used /\ m \in rows[x] /\ (k = "delete" => m \in tombs)
    <3>1. held[s] \in Sentinels \cup {Nobody} /\ held[s] # Nobody
      BY <1>0, <2>1 DEF ControlInv, GcTypes
    <3> QED  BY <1>0, <1>1, <2>2, <2>3, <2>4, <3>1 DEF HeldInv, OpInv, InTxn
  <2>6. /\ m \in Csn /\ m \in 0..MaxCsn /\ m \in Nat /\ hist[x] \in SUBSET Nat
    <3>1. rows[x] \subseteq Csn /\ Csn \subseteq Nat /\ hist[x] \in SUBSET Nat
      BY <1>0, <2>5, Numbers
    <3>2. Csn \subseteq 0..MaxCsn
      BY DEF Csn
    <3> QED  BY <2>5, <3>1, <3>2
  <2>7. ChainInv(x)
    BY <2>5 DEF GcInv
  <2>8. PICK e : e = [kind |-> k, sent |-> x, row |-> m, csn |-> m]
    OBVIOUS
  <2>9. e.kind = k /\ e.sent = x /\ e.row = m /\ e.csn = m
    BY <2>8
  <2>q. PICK q \in {1, 2} : q = QueueOf(k)
    BY DEF QueueOf
  <2>r. Recorded(s, q, e)
    <3>1. GcRecord(s, k, x, m, m)
      BY <1>5, <2>2, <2>3, <2>4 DEF GcMaintenance
    <3>2. k \in {"delete", "version", "sentinel"}
      OBVIOUS
    <3>3. Recorded(s, QueueOf(k), [kind |-> k, sent |-> x, row |-> m, csn |-> m])
      BY <1>0, <2>5, <2>6, <3>1, <3>2, RecordedIs
    <3> QED  BY <2>8, <2>q, <3>3
  <2>10. ElementInv(e) /\ e.csn <= csn
    <3>1. m \in hist[x] /\ m < csn /\ csn \in Nat
      BY <1>0, <2>5, <2>7, Numbers DEF ChainInv
    <3> QED  BY <2>5, <2>6, <2>7, <2>9, <3>1 DEF ElementInv, ChainInv
  <2>11. /\ Els(s, q)' = Els(s, q) \cup {e} /\ \A p \in Queues \ {q} : Els(s, p)' = Els(s, p)
         /\ \A y \in Sentinels : CountInv(y)'
    <3>1. Frame(s) /\ dels' = dels
      BY <1>0, <1>1 DEF EndEffect
    <3> QED  BY <2>r, <3>1, RecordedKeeps
  <2>12. \A p \in Queues : \A d \in Els(s, p)' : d \notin Els(s, p) => p = q /\ d = e
    <3> TAKE p \in Queues
    <3>1. CASE p = q
      BY <2>11, <3>1
    <3>2. CASE p # q
      <4>1. Els(s, p)' = Els(s, p)
        BY <2>11, <3>2
      <4> QED  BY <4>1
    <3> QED  BY <3>1, <3>2
  <2>13. q = QueueOf(e.kind) /\ q \in Queues /\ q # 3 /\ 1 \in Queues
    BY <2>r DEF Recorded, Queues
  <2>14. ASSUME NEW y \in Sentinels
         PROVE  PoolInv(y)' /\ CoverInv(y)'
    <3>1. refs'[y] > 0 <=> y = index'
      BY <1>1 DEF GcInv, PoolInv
    <3>2. PoolInv(y)'
      BY <1>0, <1>1, <2>5, <2>r, <2>9, <3>1, RecordedPool
    <3>3. ~(e.row < e.csn)
      BY <2>6, <2>9
    <3>4. Waiting(y)
      BY <1>0, <2>12, <2>13, <3>3, EndWaiting
    <3> QED  BY <1>0, <1>3, <3>2, <3>4, EndCover
  <2>15. \A p \in Queues : Els(s, p) \subseteq Els(s, p)'
    <3> TAKE p \in Queues
    <3>1. CASE p = q
      BY <2>11, <3>1
    <3>2. CASE p # q
      <4>1. Els(s, p)' = Els(s, p)
        BY <2>11, <3>2
      <4> QED  BY <4>1
    <3> QED  BY <3>1, <3>2
  <2>16. \A p \in Queues : \A d \in Els(s, p)' : d \notin Els(s, p) =>
               /\ p = QueueOf(d.kind) /\ d.csn <= csn
               /\ p \in {1, 2} => ElementInv(d)
               /\ p = 3 => d.sent # index'
    BY <2>10, <2>12, <2>13
  <2> QED  BY <1>0, <1>1, <2>11, <2>14, <2>15, <2>16, EndKeeps
<1> QED  BY <1>4, <1>5

\* An insert that rolls back is counted on by the sentinel of the index.
LEMMA InserterIs ==
    ASSUME GcInv, NEW s \in Sessions, Inserting(s)
    PROVE  /\ held[s] \in Sentinels /\ held[s] = index /\ held[s] \in used
           /\ s \in Inserters(held[s])
           /\ refs[held[s]] = 1 => /\ Cardinality(Inserters(held[s])) = 1 /\ Live(held[s]) = 0
                                   /\ Owed(held[s]) = {} /\ ~Claimed(held[s])
<1> DEFINE x == held[s]
<1>0. GcTypes /\ ControlInv(s)
  BY DEF GcInv
<1>1. x \in Sentinels
  <2>1. held[s] \in Sentinels \cup {Nobody}
    BY <1>0 DEF GcTypes
  <2> QED  BY <1>0, <2>1 DEF ControlInv, Inserting
<1>2. s \in Inserters(x)
  BY DEF Inserters, Inserting
<1>3. CoverInv(x) /\ PoolInv(x)
  BY <1>1 DEF GcInv
<1> HIDE DEF x
<1>4. /\ IsFiniteSet(Inserters(x)) /\ Cardinality(Inserters(x)) \in Nat /\ IsFiniteSet(Owed(x))
      /\ Cardinality(Owed(x)) \in Nat /\ Live(x) \in {0, 1} /\ refs[x] \in Int
  BY <1>0, <1>1, InsertersFinite, OwedFinite, Numbers, FS_CardinalityType DEF Live
<1>5. Cardinality(Inserters(x)) # 0 /\ (Cardinality(Owed(x)) = 0 => Owed(x) = {})
  BY <1>2, <1>4, FS_EmptySet
<1>6. refs[x] >= Cardinality(Inserters(x)) + Live(x) + Cardinality(Owed(x))
                   + (IF Claimed(x) THEN 1 ELSE 0)
  BY <1>3 DEF CoverInv
<1> DEFINE n == Cardinality(Inserters(x))
           o == Cardinality(Owed(x))
<1>7. /\ refs[x] > 0
      /\ refs[x] = 1 => n = 1 /\ Live(x) = 0 /\ o = 0 /\ ~Claimed(x)
  <2>1. n \in Nat /\ o \in Nat /\ n # 0 /\ refs[x] >= n + Live(x) + o + (IF Claimed(x) THEN 1 ELSE 0)
    BY <1>4, <1>5, <1>6
  <2> HIDE DEF n, o
  <2>2. CASE Claimed(x)
    BY <1>4, <2>1, <2>2
  <2>3. CASE ~Claimed(x)
    BY <1>4, <2>1, <2>3
  <2> QED  BY <2>2, <2>3
<1>8. x = index /\ x \in used
  BY <1>3, <1>7 DEF PoolInv
<1> QED  BY <1>1, <1>2, <1>5, <1>7, <1>8 DEF x

\* The chain under the last insert over a tombstone that rolls back.
LEMMA LastUpgrade ==
    ASSUME GcInv, NEW s \in Sessions, pc[s] = "open", op[s] = "upgrade", refs[held[s]] = 1
    PROVE  /\ mine[s] \in hist[held[s]] /\ mine[s] \in rows[held[s]] /\ mine[s] \in tombs
           /\ \A r \in hist[held[s]] : r <= mine[s]
<1> DEFINE x == held[s]
           m == mine[s]
<1>0. GcTypes /\ OpInv(s) /\ InTxn(s)
  BY DEF GcInv, InTxn
<1>1. Inserting(s)
  BY DEF Inserting
<1>2. x \in Sentinels /\ Live(x) = 0 /\ Owed(x) = {}
  BY <1>1, InserterIs
<1>3. ChainInv(x)
  BY <1>2 DEF GcInv
<1>4. m \in hist[x] /\ m \in tombs /\ \A r \in hist[x] : r > m => r >= epoch[s]
  BY <1>0, <1>1 DEF OpInv
<1>5. m \in Nat /\ epoch[s] \in Nat /\ minCsn[x] \in Nat /\ hist[x] \subseteq Nat
  BY <1>0, <1>2, <1>4, Numbers
<1>6. minCsn[x] < epoch[s] /\ rows[x] \subseteq hist[x]
  BY <1>0, <1>3 DEF ChainInv
<1> HIDE DEF x, m
<1>7. m <= Top(x) /\ Top(x) \in rows[x] /\ Top(x) \in Nat \ {0} /\ \A r \in hist[x] : r <= Top(x)
  BY <1>2, <1>4, TopNewest
<1>8. Top(x) = m
  <2> SUFFICES ASSUME Top(x) # m
               PROVE  FALSE
    OBVIOUS
  <2>1. Top(x) >= epoch[s] /\ Top(x) > minCsn[x]
    BY <1>4, <1>5, <1>6, <1>7
  <2>2. Top(x) \in tombs
    BY <1>2, <1>7 DEF Live
  <2>3. Top(x) \in Owed(x)
    BY <1>7, <2>1, <2>2 DEF Owed
  <2> QED  BY <1>2, <2>3
<1> QED  BY <1>4, <1>7, <1>8 DEF x, m

LEMMA RollbackNewGc ==
    ASSUME GcInv, EpochInv', NEW s \in Sessions, Alone(s), Rollback(s), EndEffect(s),
           NEW x \in Sentinels, x = held[s], refs[x] = 1, op[s] = "insert", pc[s] = "open"
    PROVE  GcInv'
<1>0. GcTypes /\ GcTypes' /\ Frame(s)
  BY DEF GcInv, EndEffect, Frame
<1>1. UNCHANGED <<dels, rows, hist, minCsn, used, csn, tombs, epoch>>
  BY DEF Rollback, gcVars
<1>2. x = index /\ x \in used /\ s \in Inserters(x)
  BY InserterIs DEF Inserting
<1>3. \A y \in Sentinels \ {x} : s \notin Inserters(y)
  BY DEF Inserters
<1>4. PICK c \in Csn : c = csn
  BY <1>0 DEF GcTypes
<1>5. /\ refs' = [refs EXCEPT ![x] = @ - 1] /\ index' = Nobody
      /\ GcRecord(s, "sentinel", x, 0, c)
  BY <1>4 DEF Rollback, RollbackNew
<1>6. \A y \in Sentinels : refs[y] \in Int /\ refs'[y] = IF y = x THEN 0 ELSE refs[y]
  <2>1. refs \in [Sentinels -> Int]
    BY <1>0 DEF GcTypes
  <2> QED  BY <1>5, <2>1
<1>7. PICK e : e = [kind |-> "sentinel", sent |-> x, row |-> 0, csn |-> c]
  OBVIOUS
<1>8. e.kind = "sentinel" /\ e.sent = x /\ e.row = 0 /\ e.csn = c
  BY <1>7
<1>9. Recorded(s, 3, e)
  <2>1. QueueOf("sentinel") = 3 /\ 0 \in 0..MaxCsn
    BY GcAssumption DEF QueueOf
  <2> QED  BY <1>0, <1>5, <1>7, <2>1, RecordedIs
<1>q. QueueOf("sentinel") = 3 /\ Queues = {1, 2, 3} /\ Nobody \notin Sentinels
  BY GcAssumption DEF QueueOf, Queues
<1>10. /\ Els(s, 3)' = Els(s, 3) \cup {e} /\ Els(s, 1)' = Els(s, 1) /\ Els(s, 2)' = Els(s, 2)
       /\ \A y \in Sentinels : CountInv(y)'
  <2>1. \A p \in Queues \ {3} : Els(s, p)' = Els(s, p)
    BY <1>0, <1>1, <1>9, RecordedKeeps
  <2> QED  BY <1>0, <1>1, <1>9, <1>q, <2>1, RecordedKeeps
<1>11. ASSUME NEW y \in Sentinels
       PROVE  PoolInv(y)' /\ CoverInv(y)'
  <2>1. refs'[y] > 0 <=> y = index'
    BY <1>2, <1>5, <1>6, <1>q DEF GcInv, PoolInv
  <2>2. PoolInv(y)'
    BY <1>0, <1>1, <1>2, <1>5, <1>8, <1>9, <2>1, RecordedPool
  <2>3. Waiting(y)
    BY <1>0, <1>10, EndWaiting
  <2>4. refs'[y] >= refs[y] - (IF s \in Inserters(y) THEN 1 ELSE 0)
    BY <1>2, <1>3, <1>6
  <2> QED  BY <2>2, <2>3, <2>4, EndCover
<1>12. \A p \in Queues : Els(s, p) \subseteq Els(s, p)'
  BY <1>10, <1>q
<1>13. \A p \in Queues : \A d \in Els(s, p)' : d \notin Els(s, p) => p = 3 /\ d = e
  BY <1>10, <1>q
<1>14. c \in Nat
  BY <1>0, <1>4, Numbers
<1>15. \A p \in Queues : \A d \in Els(s, p)' : d \notin Els(s, p) =>
               /\ p = QueueOf(d.kind) /\ d.csn <= csn
               /\ p \in {1, 2} => ElementInv(d)
               /\ p = 3 => d.sent # index'
  BY <1>4, <1>5, <1>8, <1>13, <1>14, <1>q
<1>16. e \in Els(s, 3)' /\ e.sent = index /\ e.csn = csn
  BY <1>2, <1>4, <1>8, <1>10
<1> QED  BY <1>0, <1>5, <1>10, <1>11, <1>12, <1>15, <1>16, EndKeeps

LEMMA RollbackUpgradeGc ==
    ASSUME GcInv, EpochInv', NEW s \in Sessions, Alone(s), Rollback(s), EndEffect(s),
           NEW x \in Sentinels, x = held[s], refs[x] = 1, op[s] = "upgrade", pc[s] = "open"
    PROVE  GcInv'
<1>0. GcTypes /\ GcTypes' /\ Frame(s)
  BY DEF GcInv, EndEffect, Frame
<1>1. UNCHANGED <<dels, rows, hist, minCsn, used, csn, tombs, epoch>>
  BY DEF Rollback, gcVars
<1>2. /\ x = index /\ x \in used /\ s \in Inserters(x)
      /\ Cardinality(Inserters(x)) = 1 /\ Live(x) = 0 /\ Owed(x) = {} /\ ~Claimed(x)
  BY InserterIs DEF Inserting
<1>3. PICK m : m = mine[s]
  OBVIOUS
<1>4. m \in hist[x] /\ m \in rows[x] /\ m \in tombs /\ \A r \in hist[x] : r <= m
  BY <1>3, LastUpgrade
<1>5. PICK c \in Csn : c = csn
  BY <1>0 DEF GcTypes
<1>6. GcRecord(s, "delete", x, m, c) /\ UNCHANGED <<index, refs>>
  BY <1>3, <1>5 DEF Rollback, RollbackUpgrade
<1>7. m \in 0..MaxCsn /\ m \in Nat /\ c \in Nat /\ hist[x] \subseteq Nat /\ m < c
  <2>1. hist[x] \subseteq Csn /\ Csn \subseteq Nat
    BY <1>0, Numbers
  <2>2. Csn \subseteq 0..MaxCsn
    BY DEF Csn
  <2>3. m < csn
    BY <1>4 DEF GcInv, ChainInv
  <2> QED  BY <1>4, <1>5, <2>1, <2>2, <2>3
<1>8. PICK e : e = [kind |-> "delete", sent |-> x, row |-> m, csn |-> c]
  OBVIOUS
<1>9. e.kind = "delete" /\ e.sent = x /\ e.row = m /\ e.csn = c
  BY <1>8
<1>q. QueueOf("delete") = 1 /\ Queues = {1, 2, 3} /\ Nobody \notin Sentinels
  BY GcAssumption DEF QueueOf, Queues
<1>10. Recorded(s, 1, e)
  BY <1>0, <1>6, <1>7, <1>8, <1>q, RecordedIs
<1>11. /\ Els(s, 1)' = Els(s, 1) \cup {e} /\ Els(s, 2)' = Els(s, 2) /\ Els(s, 3)' = Els(s, 3)
       /\ \A y \in Sentinels : CountInv(y)'
  <2>1. \A p \in Queues \ {1} : Els(s, p)' = Els(s, p)
    BY <1>0, <1>1, <1>10, RecordedKeeps
  <2> QED  BY <1>0, <1>1, <1>10, <1>q, <2>1, RecordedKeeps
<1>12. ElementInv(e)
  <2>1. \A r \in hist[x] : ~(r > m)
    BY <1>4, <1>7
  <2> QED  BY <1>4, <1>7, <1>9, <2>1 DEF ElementInv
<1>13. CoverInv(x)'
  <2>1. s \notin Inserters(x)'
    BY DEF EndEffect, Inserters
  <2>2. Cardinality(Inserters(x)') = 0
    BY <1>0, <1>2, <2>1, InsertersStep, InsertersFinite
  <2>3. Top(x)' = Top(x) /\ Owed(x)' = {} /\ Live(x)' = 0
    BY <1>1, <1>2 DEF Top, Owed, Live
  <2>4. ASSUME NEW t \in Sessions, NEW d \in Pending(t)', Claim(d, x)'
        PROVE  d.csn = c
    <3>1. Claim(d, x)
      BY <1>1, <2>3, <2>4 DEF Claim
    <3>2. d \notin Pending(t)
      BY <1>2, <3>1 DEF Claimed
    <3>3. t = s
      BY <1>0, <2>4, <3>2 DEF Pending, Els, Frame, Same
    <3>4. d \in Els(s, 1)' /\ d \notin Els(s, 1)
      BY <2>4, <3>2, <3>3 DEF Pending, EndEffect
    <3> QED  BY <1>9, <1>11, <3>4
  <2>5. Cardinality(Owed(x)') = 0
    BY <2>3, FS_EmptySet
  <2>6. refs'[x] = 1
    BY <1>6
  <2>7. refs'[x] >= Cardinality(Inserters(x)') + Live(x)' + Cardinality(Owed(x)')
                    + (IF Claimed(x)' THEN 1 ELSE 0)
    BY <2>2, <2>3, <2>5, <2>6
  <2> QED  BY <2>4, <2>7 DEF CoverInv
<1>14. ASSUME NEW y \in Sentinels
       PROVE  PoolInv(y)' /\ CoverInv(y)'
  <2>1. refs'[y] > 0 <=> y = index'
    BY <1>6 DEF GcInv, PoolInv
  <2>2. PoolInv(y)'
    BY <1>0, <1>1, <1>2, <1>6, <1>9, <1>10, <2>1, RecordedPool
  <2>3. CASE y = x
    BY <1>13, <2>2, <2>3
  <2>4. CASE y # x
    <3>1. Waiting(y)
      BY <1>0, <1>9, <1>11, <2>4, EndWaiting
    <3>2. refs'[y] >= refs[y] - (IF s \in Inserters(y) THEN 1 ELSE 0)
      BY <1>0, <1>6, Numbers
    <3> QED  BY <2>2, <3>1, <3>2, EndCover
  <2> QED  BY <2>3, <2>4
<1>15. \A p \in Queues : Els(s, p) \subseteq Els(s, p)'
  BY <1>11, <1>q
<1>16. \A p \in Queues : \A d \in Els(s, p)' : d \notin Els(s, p) => p = 1 /\ d = e
  BY <1>11, <1>q
<1>17. \A p \in Queues : \A d \in Els(s, p)' : d \notin Els(s, p) =>
               /\ p = QueueOf(d.kind) /\ d.csn <= csn
               /\ p \in {1, 2} => ElementInv(d)
               /\ p = 3 => d.sent # index'
  BY <1>5, <1>7, <1>9, <1>12, <1>16, <1>q
<1> QED  BY <1>0, <1>6, <1>11, <1>14, <1>15, <1>17, EndKeeps

LEMMA RollbackGc ==
    ASSUME GcInv, EpochInv', NEW s \in Sessions, Alone(s), Rollback(s)
    PROVE  GcInv'
<1>0. GcTypes /\ EndEffect(s) /\ GcTypes' /\ Frame(s)
  BY EndIs DEF GcInv, EndEffect, Frame
<1>1. pc[s] = "open" /\ UNCHANGED <<dels, rows, hist, minCsn, used, csn, tombs, epoch>>
  BY DEF Rollback, Goto, gcVars
<1>2. \A y \in Sentinels : refs[y] \in Int
  BY <1>0, Numbers
<1>3. CASE ~Inserting(s)
  <2>1. UNCHANGED <<index, refs, gcRefs, limbo>>
    BY <1>1, <1>3 DEF Rollback, Inserting
  <2>2. \A y \in Sentinels : s \notin Inserters(y)
    BY <1>3 DEF Inserters, Inserting
  <2> QED  BY <1>0, <1>2, <2>1, <2>2, EndQuiet
<1>4. CASE Inserting(s)
  <2>1. PICK x \in Sentinels : x = held[s]
    BY <1>4, InserterIs
  <2>2. /\ x = index /\ x \in used /\ s \in Inserters(x)
        /\ refs[x] = 1 => /\ Cardinality(Inserters(x)) = 1 /\ Live(x) = 0
                          /\ Owed(x) = {} /\ ~Claimed(x)
    BY <1>4, <2>1, InserterIs
  <2>3. \A y \in Sentinels \ {x} : s \notin Inserters(y)
    BY <2>1 DEF Inserters
  <2>4. \A y \in Sentinels : refs[y] > 0 <=> y = index
    BY DEF GcInv, PoolInv
  <2>5. CASE refs[x] # 1
    <3>1. UNCHANGED <<index, gcRefs, limbo>> /\ refs' = [refs EXCEPT ![x] = @ - 1]
      BY <1>1, <1>4, <2>1, <2>5 DEF Rollback, Inserting, RollbackNew, RollbackUpgrade
    <3>2. refs \in [Sentinels -> Int]
      BY <1>0 DEF GcTypes
    <3>3. \A y \in Sentinels : refs'[y] = IF y = x THEN refs[y] - 1 ELSE refs[y]
      BY <3>1, <3>2
    <3>4. \A y \in Sentinels : /\ refs'[y] >= refs[y] - (IF s \in Inserters(y) THEN 1 ELSE 0)
                               /\ refs'[y] > 0 <=> refs[y] > 0
      BY <1>2, <2>2, <2>3, <2>4, <2>5, <3>3
    <3> QED  BY <1>0, <3>1, <3>4, EndQuiet
  <2>6. CASE refs[x] = 1 /\ op[s] = "insert"
    BY <1>0, <1>1, <2>1, <2>2, <2>6, RollbackNewGc
  <2>7. CASE refs[x] = 1 /\ op[s] = "upgrade"
    BY <1>0, <1>1, <2>1, <2>2, <2>7, RollbackUpgradeGc
  <2> QED  BY <1>4, <2>5, <2>6, <2>7 DEF Inserting
<1> QED  BY <1>3, <1>4

-----------------------------------------------------------------------------
(* CleanElement. *)

\* A sentinel with no count in limbo is in no list.
Absent(x) ==
    /\ \A t \in Sessions : \A q \in Queues : \A d \in Els(t, q) : d.sent # x
    /\ \A t \in Sessions : x \notin Marked(t)

Exact == GcTypes /\ \A x \in Sentinels : CountInv(x)
Unlisted == \A x \in Sentinels : gcRefs[x] = 0 => Absent(x)

LEMMA ExactUnlisted == Exact => Unlisted
<1> SUFFICES ASSUME Exact, NEW x \in Sentinels, gcRefs[x] = 0
             PROVE  Absent(x)
  BY DEF Unlisted
<1>0. GcTypes /\ CountInv(x)
  BY DEF Exact
<1>1. ASSUME NEW t \in Sessions, NEW q \in Queues, NEW d \in Els(t, q)
      PROVE  d.sent # x
  <2>1. limbo[t][q] \in Seq(Element)
    <3>1. limbo \in [Sessions -> [Queues -> Seq(Element)]]
      BY <1>0 DEF GcTypes
    <3> QED  BY <3>1
  <2>2. PICK i \in 1..Len(limbo[t][q]) : d = limbo[t][q][i]
    BY <2>1 DEF Els, Range
  <2>3. <<t, q>> \in Sessions \X (0..3)
    BY DEF Queues
  <2>4. i \in 1..Len(Lists[<<t, q>>]) /\ Lists[<<t, q>>][i] = d.sent
    BY <1>0, <2>2, ListsType
  <2>5. Lists[<<t, q>>][i] = x => gcRefs[x] >= 1
    BY <1>0, <2>3, <2>4, Counted
  <2> QED  BY <2>4, <2>5
<1>2. ASSUME NEW t \in Sessions, x \in Marked(t)
      PROVE  FALSE
  <2>1. dels[t] \in Seq(Sentinels)
    BY <1>0 DEF GcTypes
  <2>2. PICK i \in 1..Len(dels[t]) : x = dels[t][i]
    BY <1>2, <2>1 DEF Marked, Range
  <2>3. <<t, 0>> \in Sessions \X (0..3) /\ Lists[<<t, 0>>] = dels[t]
    BY <1>0, ListsType
  <2>4. i \in 1..Len(Lists[<<t, 0>>]) /\ Lists[<<t, 0>>][i] = x
    BY <2>2, <2>3
  <2>5. gcRefs[x] >= 1
    BY <1>0, <2>3, <2>4, Counted
  <2> QED  BY <2>5
<1> QED  BY <1>1, <1>2 DEF Absent

LEMMA UnlistedAfter ==
    ASSUME Exact'
    PROVE  Unlisted'
BY ExactUnlisted, PTL

\* The lists of the sessions without the element, and the count.
LEMMA CleanLists ==
    ASSUME GcInv, NEW s \in Sessions, NEW q \in Queues, NEW e \in Element, CleanEffect(s, q, e)
    PROVE  /\ e \in Els(s, q) /\ Els(s, q)' \subseteq Els(s, q) /\ Els(s, q) \subseteq Els(s, q)' \cup {e}
           /\ \A p \in Queues \ {q} : Els(s, p)' = Els(s, p)
           /\ \A y \in Sentinels : CountInv(y)'
<1>0. /\ GcTypes /\ GcTypes' /\ Frame(s) /\ \A y \in Sentinels : CountInv(y)
  BY DEF GcInv, Frame, CleanEffect
<1>1. /\ limbo[s][q] # <<>> /\ e = Head(limbo[s][q]) /\ dels' = dels
      /\ \A y \in Sentinels : gcRefs'[y] = gcRefs[y] - (IF y = e.sent THEN 1 ELSE 0)
      /\ limbo'[s][q] = Tail(limbo[s][q])
      /\ \A p \in Queues \ {q} : limbo'[s][p] = limbo[s][p]
  BY DEF CleanEffect
<1>2. limbo[s][q] \in Seq(Element) /\ e.sent \in Sentinels
  <2>1. limbo \in [Sessions -> [Queues -> Seq(Element)]]
    BY <1>0 DEF GcTypes
  <2> QED  BY <1>1, <2>1, ElementIs
<1>3. /\ e \in Els(s, q) /\ Els(s, q)' \subseteq Els(s, q) /\ Els(s, q) \subseteq Els(s, q)' \cup {e}
      /\ \A p \in Queues \ {q} : Els(s, p)' = Els(s, p)
  BY <1>1, <1>2, RangeTail DEF Els
<1> DEFINE k == <<s, q>>
<1>4. ListsOk /\ ListsOk'
  BY <1>0, ListsAre, ListsAfter
<1>5. k \in Sessions \X (0..3)
  BY <1>1 DEF Queues
<1>6. /\ Lists \in [Sessions \X (0..3) -> Seq(Sentinels)]
      /\ Lists' \in [Sessions \X (0..3) -> Seq(Sentinels)]
  BY <1>4 DEF ListsOk
<1>7. Lists[k] # <<>> /\ Lists[k][1] = e.sent /\ Lists'[k] = Tail(Lists[k])
  <2> DEFINE l == limbo[s][q]
             f == Lists[k]
             g == Lists'[k]
  <2>1. /\ f \in Seq(Sentinels) /\ Len(f) = Len(l) /\ \A i \in 1..Len(l) : f[i] = l[i].sent
    BY <1>1, <1>4 DEF ListsOk
  <2>2. /\ g \in Seq(Sentinels) /\ Len(g) = Len(limbo'[s][q])
        /\ \A i \in 1..Len(limbo'[s][q]) : g[i] = limbo'[s][q][i].sent
    BY <1>1, <1>4 DEF ListsOk
  <2>3. /\ l \in Seq(Element) /\ limbo'[s][q] = Tail(l) /\ l # <<>> /\ e = Head(l)
    BY <1>1, <1>2
  <2> HIDE DEF l, f, g
  <2>4. /\ Len(Tail(l)) = Len(l) - 1 /\ Len(l) \in Nat \ {0} /\ Head(l) = l[1]
        /\ \A i \in 1..Len(l) - 1 : Tail(l)[i] = l[i + 1]
    BY <2>3
  <2>5. f # <<>>
    BY <2>1, <2>4
  <2>6. /\ Tail(f) \in Seq(Sentinels) /\ Len(Tail(f)) = Len(f) - 1
        /\ \A i \in 1..Len(f) - 1 : Tail(f)[i] = f[i + 1]
    BY <2>1, <2>5
  <2>7. Len(g) = Len(l) - 1
    BY <2>2, <2>3, <2>4
  <2>8. ASSUME NEW i \in 1..Len(g)
        PROVE  g[i] = Tail(f)[i]
    <3>1. i \in 1..Len(l) - 1 /\ i + 1 \in 1..Len(l)
      BY <2>4, <2>7
    <3> QED  BY <2>1, <2>2, <2>3, <2>4, <2>6, <3>1
  <2>9. g = Tail(f)
    BY <2>1, <2>2, <2>6, <2>7, <2>8, SeqEq
  <2>10. f[1] = e.sent
    BY <2>1, <2>3, <2>4
  <2> QED  BY <2>5, <2>9, <2>10 DEF f, g
<1>8. ASSUME NEW j \in Sessions \X (0..3), j # k
      PROVE  Lists'[j] = Lists[j]
  <2>0. PICK t \in Sessions, p \in 0..3 : j = <<t, p>>
    OBVIOUS
  <2>1. j[1] = t /\ j[2] = p
    BY <2>0
  <2>2. p # 0 => p \in Queues
    BY DEF Queues
  <2>3. CASE t = s
    <3>1. p # q
      BY <1>8, <2>0, <2>3
    <3>2. p # 0 => limbo'[t][p] = limbo[t][p]
      BY <1>1, <2>2, <2>3, <3>1
    <3> QED  BY <1>0, <1>1, <2>1, <3>2, ListSame
  <2>4. CASE t # s
    <3>1. limbo'[t] = limbo[t]
      BY <1>0, <2>4 DEF Frame, Same
    <3> QED  BY <1>0, <1>1, <2>1, <3>1, ListSame
  <2> QED  BY <2>3, <2>4
<1> HIDE DEF k
<1>9. ASSUME NEW y \in Sentinels
      PROVE  CountInv(y)'
  <2>1. Cardinality(Places(Lists', y)) =
          Cardinality(Places(Lists, y)) - (IF y = e.sent THEN 1 ELSE 0)
    <3> DEFINE F == Lists
               G == Lists'
               K == Sessions \X (0..3)
    <3>1. /\ F \in [K -> Seq(Sentinels)] /\ G \in [K -> Seq(Sentinels)] /\ k \in K
          /\ F[k] # <<>> /\ G[k] = Tail(F[k]) /\ \A j \in K \ {k} : G[j] = F[j]
          /\ F[k][1] = e.sent
      BY <1>5, <1>6, <1>7, <1>8
    <3>k. IsFiniteSet(K)
      BY KeysFinite
    <3> HIDE DEF F, G, K
    <3>2. Cardinality(Places(G, y)) = Cardinality(Places(F, y)) - (IF y = F[k][1] THEN 1 ELSE 0)
      <4>1. Shorter(K, Sentinels, F, G, k)
        BY <3>1, <3>k DEF Shorter
      <4> QED  BY <4>1, PlacesTail
    <3> QED  BY <3>1, <3>2 DEF F, G
  <2>2. gcRefs'[y] = gcRefs[y] - (IF y = e.sent THEN 1 ELSE 0) /\ CountInv(y)
    BY <1>0, <1>1
  <2>3. gcRefs'[y] = Cardinality(Places(Lists', y))
    BY <2>1, <2>2 DEF CountInv
  <2> QED  BY <2>3 DEF CountInv, Places
<1> QED  BY <1>3, <1>9

\* The element that goes does not own what a transaction holds.
LEMMA CleanOwned ==
    ASSUME GcInv, NEW s \in Sessions, NEW q \in Queues, NEW e \in Element, CleanEffect(s, q, e),
           NEW t \in Sessions, InTxn(t), held[t] # index, held[t] # Nobody
    PROVE  Owned(held[t], epoch[t])'
<1>0. GcTypes /\ HeldInv(t) /\ MinimumInv(s) /\ Frame(s)
  BY DEF GcInv, CleanEffect
<1>1. /\ pc[s] = "clean" /\ q = que[s] /\ e.csn < perform[s]
      /\ UNCHANGED <<dels, epoch, held>>
  BY DEF CleanEffect, txnVars
<1>2. e.csn \in Nat /\ perform[s] \in Nat /\ epoch[t] \in Nat
  BY <1>0, Numbers, ElementIs
<1>3. PICK u \in Sessions : \/ held[t] \in Marked(u)
                            \/ \E d \in Els(u, 3) : d.sent = held[t] /\ d.csn >= epoch[t]
  BY <1>0 DEF HeldInv, Owned
<1>4. Marked(u)' = Marked(u)
  BY <1>1 DEF Marked
<1>5. CASE held[t] \in Marked(u)
  BY <1>1, <1>4, <1>5 DEF Owned
<1>6. CASE \E d \in Els(u, 3) : d.sent = held[t] /\ d.csn >= epoch[t]
  <2>1. PICK d \in Els(u, 3) : d.sent = held[t] /\ d.csn >= epoch[t]
    BY <1>6
  <2>2. d \in Els(u, 3)'
    <3>1. CASE u # s
      BY <1>0, <3>1 DEF Frame, Same, Els
    <3>2. CASE u = s /\ q # 3
      <4>1. Els(s, 3)' = Els(s, 3)
        BY <3>2, CleanLists DEF Queues
      <4> QED  BY <3>2, <4>1
    <3>3. CASE u = s /\ q = 3
      <4>1. d # e
        <5> SUFFICES ASSUME d = e
                     PROVE  FALSE
          OBVIOUS
        <5>1. perform[s] <= epoch[t] \/ Apart(s, t)
          BY <1>0, <1>1 DEF MinimumInv
        <5>2. ~Apart(s, t)
          BY <2>1, <3>3 DEF Apart
        <5> QED  BY <1>1, <1>2, <2>1, <5>1, <5>2
      <4> QED  BY <3>3, <4>1, CleanLists
    <3> QED  BY <3>1, <3>2, <3>3
  <2>3. d.sent = held'[t] /\ d.csn >= epoch'[t]
    BY <1>1, <2>1
  <2> QED  BY <2>2, <2>3 DEF Owned
<1> QED  BY <1>3, <1>5, <1>6

\* What all cases of CleanElement keep.
LEMMA CleanKeeps ==
    ASSUME GcInv, NEW s \in Sessions, NEW q \in Queues, NEW e \in Element, CleanEffect(s, q, e),
           Alone(s)
    PROVE  /\ \A t \in Sessions : ControlInv(t)' /\ MinimumInv(t)'
           /\ \A t \in Sessions \ {s} : DtorInv(t)'
           /\ Reads(s)
           /\ \A y \in Sentinels : Waiting(y) /\ Inserters(y)' = Inserters(y)
<1>0. GcTypes /\ GcTypes' /\ Frame(s) /\ ControlInv(s) /\ MinimumInv(s)
  BY DEF GcInv, CleanEffect, Frame
<1>1. /\ pc[s] = "clean" /\ q = que[s] /\ pc'[s] \in {"clean", "dtor"}
      /\ UNCHANGED <<csn, index, refs, tombs, epoch, snap, held, op, mine, dels, closing, que,
                     perform, fresh, scan>>
  BY DEF CleanEffect, txnVars
<1>2. Reads(s) /\ Holds(s) /\ csn' >= csn
  BY <1>0, <1>1, Numbers DEF Reads, Holds, InTxn
<1>3. \A t \in Sessions \ {s} : ControlInv(t)' /\ DtorInv(t)' /\ MinimumInv(t)'
  BY <1>0, <1>2, OthersControl, OthersMinimum
<1>4. \A p \in Queues : Els(s, p)' \subseteq Els(s, p)
  <2> TAKE p \in Queues
  <2>1. CASE p = q
    BY <2>1, CleanLists
  <2>2. CASE p # q
    <3>1. Els(s, p)' = Els(s, p)
      BY <2>2, CleanLists
    <3> QED  BY <3>1
  <2> QED  BY <2>1, <2>2
<1>5. ControlInv(s)'
  <2>1. \A p \in Queues : \A d \in Els(s, p)' : p = QueueOf(d.kind)
    BY <1>0, <1>4 DEF ControlInv
  <2> QED  BY <1>0, <1>1, <2>1 DEF ControlInv, InTxn, Cleaning
<1>6. MinimumInv(s)'
  <2>1. ASSUME NEW t \in Sessions
        PROVE  /\ InTxn(t)' => InTxn(t)
               /\ Apart(s, t) => Apart(s, t)'
    <3>1. InTxn(t)' => InTxn(t)
      <4>1. CASE t = s
        BY <1>1, <4>1 DEF InTxn
      <4>2. CASE t # s
        BY <1>0, <4>2 DEF Frame, Same, InTxn
      <4> QED  BY <4>1, <4>2
    <3>2. Els(s, 3)' \subseteq Els(s, 3) /\ held'[t] = held[t]
      BY <1>1, <1>4 DEF Queues
    <3> QED  BY <3>1, <3>2 DEF Apart
  <2>2. /\ perform[s] <= csn \/ (closing[s] /\ que[s] = 3)
        /\ \A t \in Sessions : InTxn(t) =>
            perform[s] <= epoch[t] \/ (closing[s] /\ que[s] = 3 /\ Apart(s, t))
    BY <1>0, <1>1 DEF MinimumInv
  <2>3. \A t \in Sessions : InTxn(t)' =>
            perform'[s] <= epoch'[t] \/ (closing'[s] /\ que'[s] = 3 /\ Apart(s, t)')
    BY <1>1, <2>1, <2>2
  <2> QED  BY <1>1, <2>2, <2>3 DEF MinimumInv
<1>7. ASSUME NEW y \in Sentinels
      PROVE  Waiting(y)
  <2>1. \A d : Alike(d, d)
    BY DEF Alike
  <2>2. ASSUME NEW t \in Sessions, NEW d \in Pending(t)', d.kind = "delete"
        PROVE  \E u \in Sessions : \E b \in Pending(u) : Alike(d, b)
    <3>1. CASE t # s
      <4>1. d \in Pending(t)
        BY <1>0, <2>2, <3>1 DEF Pending, Els, Frame, Same
      <4> QED  BY <2>1, <4>1
    <3>2. CASE t = s /\ d \in Els(s, 1)'
      <4>1. d \in Pending(s)
        BY <1>4, <3>2 DEF Pending, Queues
      <4> QED  BY <2>1, <4>1
    <3>3. CASE t = s /\ d \notin Els(s, 1)'
      <4>1. d = cur'[s] /\ pc'[s] = "dtor"
        BY <2>2, <3>3 DEF Pending
      <4>2. ~(Removable(e.sent) \/ e.kind = "sentinel")
        BY <1>1, <4>1 DEF CleanEffect
      <4>3. cur'[s] = [kind |-> e.kind, sent |-> e.sent, row |-> e.row, csn |-> e.csn,
                          slot |-> gcRefs[e.sent] - 1]
        BY <4>2 DEF CleanEffect
      <4>4. Alike(d, e) /\ e.kind = "delete"
        BY <2>2, <4>1, <4>3 DEF Alike
      <4>5. e \in Els(s, q) /\ q = 1
        BY <1>0, <4>4, CleanLists DEF ControlInv, QueueOf
      <4>6. e \in Pending(s)
        BY <4>5 DEF Pending
      <4> QED  BY <4>4, <4>6
    <3> QED  BY <3>1, <3>2, <3>3
  <2> QED  BY <2>2 DEF Waiting
<1>8. ASSUME NEW y \in Sentinels
      PROVE  Inserters(y)' = Inserters(y)
  <2>1. \A t \in Sessions : pc'[t] = "open" <=> pc[t] = "open"
    BY <1>0, <1>1 DEF Frame, Same
  <2> QED  BY <1>1, <2>1 DEF Inserters
<1> QED  BY <1>2, <1>3, <1>5, <1>6, <1>7, <1>8

\* The element is not the last of its sentinel.
LEMMA CleanOthersLeft ==
    ASSUME GcInv, EpochInv', NEW s \in Sessions, NEW q \in Queues, NEW e \in Element,
           CleanEffect(s, q, e), Alone(s), ~Removable(e.sent)
    PROVE  GcInv'
<1>0. GcTypes /\ GcTypes' /\ Frame(s) /\ ControlInv(s) /\ LimboInv(s)
  BY DEF GcInv, CleanEffect, Frame
<1>1. /\ pc[s] = "clean" /\ q = que[s] /\ pc'[s] \in {"clean", "dtor"} /\ e.csn < perform[s]
      /\ UNCHANGED <<csn, index, refs, tombs, epoch, snap, held, op, mine, dels, closing, que,
                     perform, fresh, scan, used, rows, hist, minCsn>>
      /\ \A y \in Sentinels : gcRefs'[y] = gcRefs[y] - (IF y = e.sent THEN 1 ELSE 0)
  BY DEF CleanEffect, txnVars
<1>2. /\ e \in Els(s, q) /\ Els(s, q)' \subseteq Els(s, q)
      /\ \A p \in Queues \ {q} : Els(s, p)' = Els(s, p)
      /\ \A y \in Sentinels : CountInv(y)'
  BY CleanLists
<1>3. /\ \A t \in Sessions : ControlInv(t)' /\ MinimumInv(t)'
      /\ \A t \in Sessions \ {s} : DtorInv(t)'
      /\ Reads(s)
      /\ \A y \in Sentinels : Waiting(y) /\ Inserters(y)' = Inserters(y)
  BY CleanKeeps
<1>4. \A y \in Sentinels : Keeps(y) /\ Grows(y)
  BY <1>1 DEF Keeps, Grows
<1>n. csn \in Nat /\ csn' >= csn /\ \A y \in Sentinels : refs[y] \in Int /\ gcRefs[y] \in Int
  BY <1>0, <1>1, Numbers
<1>5. DtorInv(s)'
  <2> SUFFICES ASSUME pc'[s] = "dtor"
               PROVE  /\ cur'[s] \in DtorElement /\ ElementInv(cur[s])'
                      /\ cur'[s].csn < perform'[s] /\ que'[s] # 3
    BY DEF DtorInv
  <2>1. e.kind # "sentinel"
    BY <1>1 DEF CleanEffect
  <2>2. cur'[s] = [kind |-> e.kind, sent |-> e.sent, row |-> e.row, csn |-> e.csn,
                   slot |-> gcRefs[e.sent] - 1]
    BY <2>1 DEF CleanEffect
  <2>3. /\ e.kind \in {"delete", "version"} /\ e.sent \in Sentinels /\ e.row \in 0..MaxCsn
        /\ e.csn \in Csn
    BY <2>1 DEF Element
  <2>4. gcRefs[e.sent] - 1 \in Int
    BY <1>n, <2>3
  <2>5. cur'[s] \in DtorElement
    BY <2>2, <2>3, <2>4 DEF DtorElement
  <2>6. q \in {1, 2}
    BY <1>0, <1>2, <2>3 DEF ControlInv, QueueOf
  <2>7. ElementInv(e)
    BY <1>0, <1>2, <2>6 DEF LimboInv
  <2>8. /\ cur'[s].kind = e.kind /\ cur'[s].sent = e.sent /\ cur'[s].row = e.row
        /\ cur'[s].csn = e.csn
    BY <2>2
  <2>9. ElementInv(cur[s])'
    BY <1>1, <2>7, <2>8 DEF ElementInv
  <2> QED  BY <1>1, <2>5, <2>6, <2>8, <2>9
<1>6. ASSUME NEW t \in Sessions
      PROVE  LimboInv(t)'
  <2>1. /\ \A p \in {1, 2} : \A d \in Els(t, p) : ElementInv(d)'
        /\ \A p \in Queues : \A d \in Els(t, p) : d.csn <= csn'
        /\ \A d \in Els(t, 3) : d.sent # index'
        /\ \A x \in Marked(t) : x # index'
    BY <1>0, <1>1, <1>4, <1>n, LimboKept
  <2>2. \A p \in Queues : Els(t, p)' \subseteq Els(t, p)
    <3>1. CASE t = s
      BY <1>2, <3>1
    <3>2. CASE t # s
      BY <1>0, <3>2 DEF Frame, Same, Els
    <3> QED  BY <3>1, <3>2
  <2>3. Marked(t)' = Marked(t) /\ 1 \in Queues /\ 2 \in Queues /\ 3 \in Queues
    BY <1>1 DEF Marked, Queues
  <2> QED  BY <2>1, <2>2, <2>3 DEF LimboInv
<1>7. ASSUME NEW t \in Sessions
      PROVE  OpInv(t)'
  <2>1. CASE t = s
    BY <1>1, <2>1 DEF OpInv, Inserting
  <2>2. CASE t # s
    BY <1>0, <1>1, <1>4, <1>n, <2>2, OpKept
  <2> QED  BY <2>1, <2>2
<1>8. ASSUME NEW t \in Sessions
      PROVE  HeldInv(t)'
  <2> SUFFICES ASSUME InTxn(t)', held'[t] # Nobody
               PROVE  held'[t] \in used' /\ (held'[t] # index' => Owned(held[t], epoch[t])')
    BY DEF HeldInv
  <2>1. InTxn(t)
    <3>1. t # s
      BY <1>1 DEF InTxn
    <3> QED  BY <1>0, <3>1 DEF InTxn, Frame, Same
  <2>2. HeldInv(t)
    BY DEF GcInv
  <2> QED  BY <1>1, <2>1, <2>2, CleanOwned DEF HeldInv
<1>9. ASSUME NEW y \in Sentinels
      PROVE  PoolInv(y)' /\ ChainInv(y)' /\ CoverInv(y)'
  <2>1. ChainInv(y)'
    BY <1>0, <1>3, <1>4, <1>n, ChainKept
  <2>2. CoverInv(y)'
    <3>1. rows'[y] = rows[y] /\ minCsn'[y] = minCsn[y]
      BY <1>1
    <3>2. Waiting(y) /\ Inserters(y)' = Inserters(y) /\ tombs' = tombs /\ refs' = refs
      BY <1>1, <1>3
    <3>3. Cardinality(Inserters(y)) \in Nat /\ refs[y] \in Int
      BY <1>n, InsertersFinite
    <3>4. refs'[y] - Cardinality(Inserters(y)') >= refs[y] - Cardinality(Inserters(y))
      BY <3>2, <3>3
    <3> QED  BY <1>0, <3>1, <3>2, <3>4, CoverKept
  <2>3. PoolInv(y) /\ CoverInv(y)
    BY DEF GcInv
  <2>4. CASE y # e.sent
    <3>1. gcRefs'[y] = gcRefs[y]
      BY <1>1, <1>n, <2>4
    <3> QED  BY <1>1, <2>1, <2>2, <2>3, <3>1 DEF PoolInv
  <2>5. CASE y = e.sent
    <3>1. y \in used /\ gcRefs[y] >= 1
      BY <1>2, <2>5, InLimbo
    <3>2. refs[y] >= 0
      <4>1. /\ Cardinality(Inserters(y)) \in Nat /\ Cardinality(Owed(y)) \in Nat
            /\ Live(y) \in {0, 1} /\ refs[y] \in Int
        BY <1>0, <1>n, InsertersFinite, OwedFinite DEF Live
      <4>2. refs[y] >= Cardinality(Inserters(y)) + Live(y) + Cardinality(Owed(y))
                       + (IF Claimed(y) THEN 1 ELSE 0)
        BY <2>3 DEF CoverInv
      <4>3. CASE Claimed(y)
        BY <4>1, <4>2, <4>3
      <4>4. CASE ~Claimed(y)
        BY <4>1, <4>2, <4>4
      <4> QED  BY <4>3, <4>4
    <3>3. y # index => gcRefs[y] # 1
      BY <1>n, <2>3, <2>5, <3>2 DEF PoolInv, Removable
    <3>4. y # index' => gcRefs'[y] > 0
      BY <1>1, <1>n, <2>5, <3>1, <3>3
    <3>5. PoolInv(y)'
      BY <1>1, <2>3, <3>1, <3>4 DEF PoolInv
    <3> QED  BY <2>1, <2>2, <3>5
  <2> QED  BY <2>4, <2>5
<1> QED  BY <1>0, <1>2, <1>3, <1>5, <1>6, <1>7, <1>8, <1>9 DEF GcInv

\* The element is the last of its sentinel: nobody holds the sentinel any more.
LEMMA CleanLast ==
    ASSUME GcInv, EpochInv', NEW s \in Sessions, NEW q \in Queues, NEW e \in Element,
           CleanEffect(s, q, e), Alone(s), Removable(e.sent)
    PROVE  GcInv'
<1> DEFINE x == e.sent
<1>0. GcTypes /\ GcTypes' /\ Frame(s) /\ x \in Sentinels
  BY ElementIs DEF GcInv, CleanEffect, Frame
<1>1. /\ pc[s] = "clean" /\ pc' = pc /\ cur' = cur
      /\ UNCHANGED <<csn, index, refs, tombs, epoch, snap, held, op, mine, dels, closing, que,
                     perform, fresh, scan>>
      /\ \A y \in Sentinels : gcRefs'[y] = gcRefs[y] - (IF y = x THEN 1 ELSE 0)
  BY DEF CleanEffect, txnVars
<1>2. /\ used' = used \ {x} /\ rows'[x] = {} /\ hist'[x] = {} /\ minCsn'[x] = 0
      /\ \A y \in Sentinels \ {x} : Keeps(y)
  BY DEF CleanEffect, Keeps
<1>r. gcRefs[x] = 1 /\ refs[x] = 0
  BY DEF Removable
<1>3. /\ e \in Els(s, q) /\ Els(s, q)' \subseteq Els(s, q) /\ Els(s, q) \subseteq Els(s, q)' \cup {e}
      /\ \A p \in Queues \ {q} : Els(s, p)' = Els(s, p)
      /\ \A y \in Sentinels : CountInv(y)'
  BY CleanLists
<1>4. /\ \A t \in Sessions : ControlInv(t)' /\ MinimumInv(t)'
      /\ \A t \in Sessions \ {s} : DtorInv(t)'
      /\ Reads(s)
      /\ \A y \in Sentinels : Waiting(y) /\ Inserters(y)' = Inserters(y)
  BY CleanKeeps
<1> HIDE DEF x
<1>n. csn \in Nat /\ csn' >= csn /\ \A y \in Sentinels : refs[y] \in Int /\ gcRefs[y] \in Int
  BY <1>0, <1>1, Numbers
<1>5. gcRefs'[x] = 0
  BY <1>0, <1>1, <1>r
<1>6. Absent(x)'
  <2>1. Exact'
    BY <1>0, <1>3 DEF Exact
  <2>2. Unlisted'
    BY <2>1, UnlistedAfter
  <2> QED  BY <1>0, <1>5, <2>2 DEF Unlisted, x
<1>7. x # index /\ PoolInv(x)
  BY <1>0, <1>r DEF GcInv, PoolInv
<1>8. ASSUME NEW t \in Sessions, InTxn(t)
      PROVE  held[t] # x /\ held'[t] = held[t] /\ epoch'[t] = epoch[t]
  <2> SUFFICES ASSUME held[t] = x
               PROVE  FALSE
    BY <1>1
  <2>1. held[t] # index /\ held[t] # Nobody
    BY <1>0, <1>7, GcAssumption
  <2>2. Owned(held[t], epoch[t])'
    BY <1>8, <2>1, CleanOwned
  <2>3. PICK u \in Sessions : \/ held'[t] \in Marked(u)'
                              \/ \E d \in Els(u, 3)' : d.sent = held'[t] /\ d.csn >= epoch'[t]
    BY <2>2 DEF Owned
  <2>4. held'[t] = x
    BY <1>1
  <2>5. x \notin Marked(u)' /\ \A d \in Els(u, 3)' : d.sent # x
    BY <1>6 DEF Absent, Queues, x
  <2> QED  BY <2>3, <2>4, <2>5
<1>9. \A t \in Sessions : InTxn(t)' <=> InTxn(t)
  BY <1>1 DEF InTxn
<1>10. DtorInv(s)'
  BY <1>1 DEF DtorInv
<1>11. ASSUME NEW t \in Sessions
       PROVE  \A p \in Queues : Els(t, p)' \subseteq Els(t, p)
  <2>1. CASE t = s
    BY <1>3, <2>1
  <2>2. CASE t # s
    BY <1>0, <2>2 DEF Frame, Same, Els
  <2> QED  BY <2>1, <2>2
<1>12. ASSUME NEW t \in Sessions
       PROVE  LimboInv(t)'
  <2>0. LimboInv(t) /\ Marked(t)' = Marked(t) /\ 1 \in Queues /\ 2 \in Queues /\ 3 \in Queues
    BY <1>1 DEF GcInv, Marked, Queues
  <2>1. ASSUME NEW p \in {1, 2}, NEW d \in Els(t, p)'
        PROVE  ElementInv(d)'
    <3>1. d \in Els(t, p) /\ p \in Queues
      BY <1>11, <2>0
    <3>2. ElementInv(d) /\ d.sent \in Sentinels
      BY <2>0, <3>1, InLimbo, ElementIs DEF LimboInv
    <3>3. d.sent # x
      BY <1>6, <3>1, <2>1 DEF Absent, x
    <3>4. Keeps(d.sent)
      BY <1>2, <3>2, <3>3
    <3> QED  BY <1>1, <3>2, <3>4 DEF ElementInv, Keeps
  <2>2. \A p \in Queues : \A d \in Els(t, p)' : d.csn <= csn'
    BY <1>1, <1>11, <2>0 DEF LimboInv
  <2>3. \A d \in Els(t, 3)' : d.sent # index'
    BY <1>1, <1>11, <2>0 DEF LimboInv
  <2>4. \A y \in Marked(t)' : y # index'
    BY <1>1, <2>0 DEF LimboInv
  <2> QED  BY <2>1, <2>2, <2>3, <2>4 DEF LimboInv
<1>13. ASSUME NEW t \in Sessions
       PROVE  OpInv(t)'
  <2>1. OpInv(t) /\ ControlInv(t) /\ held[t] \in Sentinels \cup {Nobody}
    BY <1>0 DEF GcInv, GcTypes
  <2>2. CASE ~InTxn(t)
    BY <1>1, <2>2 DEF OpInv, InTxn, Inserting
  <2>3. CASE op[t] = "none"
    BY <1>1, <2>1, <2>3 DEF OpInv, Inserting
  <2>4. CASE InTxn(t) /\ op[t] # "none"
    <3>1. held[t] \in Sentinels \ {x}
      BY <1>8, <2>1, <2>4 DEF ControlInv
    <3>2. rows'[held[t]] = rows[held[t]] /\ hist'[held[t]] = hist[held[t]]
      BY <1>2, <3>1 DEF Keeps
    <3> QED  BY <1>1, <2>1, <3>2 DEF OpInv, Inserting
  <2> QED  BY <2>2, <2>3, <2>4
<1>14. ASSUME NEW t \in Sessions
       PROVE  HeldInv(t)'
  <2> SUFFICES ASSUME InTxn(t)', held'[t] # Nobody
               PROVE  held'[t] \in used' /\ (held'[t] # index' => Owned(held[t], epoch[t])')
    BY DEF HeldInv
  <2>1. InTxn(t) /\ HeldInv(t) /\ held[t] # x
    BY <1>8, <1>9 DEF GcInv
  <2> QED  BY <1>1, <1>2, <2>1, CleanOwned DEF HeldInv
<1>15. PoolInv(x)' /\ ChainInv(x)' /\ CoverInv(x)'
  <2>1. PoolInv(x)'
    BY <1>1, <1>2, <1>5, <1>7, <1>r DEF PoolInv
  <2>2. ASSUME NEW t \in Sessions, InTxn(t)'
        PROVE  minCsn'[x] < epoch'[t]
    <3>1. ChainInv(x) /\ InTxn(t) /\ epoch[t] \in Nat /\ minCsn[x] \in Nat
      BY <1>0, <1>9, <2>2, Numbers DEF GcInv
    <3> QED  BY <1>1, <1>2, <3>1 DEF ChainInv
  <2>3. minCsn'[x] < csn'
    BY <1>0, <1>1, <1>2, Numbers
  <2>4. ChainInv(x)'
    BY <1>2, <2>2, <2>3 DEF ChainInv
  <2>5. Inserters(x)' = {}
    <3>1. \A t \in Sessions : t \notin Inserters(x)
      BY <1>8 DEF Inserters, InTxn
    <3>2. Inserters(x) = {}
      BY <3>1 DEF Inserters
    <3> QED  BY <1>0, <1>4, <3>2
  <2>6. Top(x)' = 0
    <3>1. NewestOf({}) = 0
      BY DEF NewestOf
    <3> QED  BY <1>2, <3>1 DEF Top
  <2>7. Live(x)' = 0 /\ Owed(x)' = {}
    BY <1>2, <2>6 DEF Live, Owed
  <2>8. \A t \in Sessions : \A d \in Pending(t)' : d.sent # x
    <3> TAKE t \in Sessions
    <3>1. pc'[t] # "dtor"
      BY <1>1 DEF Alone
    <3> QED  BY <1>6, <3>1 DEF Pending, Absent, Queues, x
  <2>9. \A t \in Sessions : \A d \in Pending(t)' : ~Claim(d, x)'
    BY <2>8 DEF Claim, x
  <2>10. ~Claimed(x)'
    BY <2>9 DEF Claimed
  <2>11. Cardinality(Inserters(x)') = 0 /\ Cardinality(Owed(x)') = 0 /\ refs'[x] = 0
    BY <1>1, <1>r, <2>5, <2>7, FS_EmptySet
  <2>12. refs'[x] >= Cardinality(Inserters(x)') + Live(x)' + Cardinality(Owed(x)')
                       + (IF Claimed(x)' THEN 1 ELSE 0)
    BY <2>7, <2>10, <2>11
  <2>13. CoverInv(x)'
    BY <2>9, <2>12 DEF CoverInv
  <2> QED  BY <2>1, <2>4, <2>13
<1>16. ASSUME NEW y \in Sentinels \ {x}
       PROVE  PoolInv(y)' /\ ChainInv(y)' /\ CoverInv(y)'
  <2>0. Keeps(y) /\ y \in Sentinels
    BY <1>2
  <2>1. ChainInv(y)'
    BY <1>0, <1>4, <1>n, <2>0, ChainKept
  <2>2. CoverInv(y)'
    <3>1. rows'[y] = rows[y] /\ minCsn'[y] = minCsn[y]
      BY <2>0 DEF Keeps
    <3>2. Waiting(y) /\ Inserters(y)' = Inserters(y) /\ tombs' = tombs /\ refs' = refs
      BY <1>1, <1>4, <2>0
    <3>3. Cardinality(Inserters(y)) \in Nat /\ refs[y] \in Int
      BY <1>n, <2>0, InsertersFinite
    <3>4. refs'[y] - Cardinality(Inserters(y)') >= refs[y] - Cardinality(Inserters(y))
      BY <3>2, <3>3
    <3> QED  BY <1>0, <2>0, <3>1, <3>2, <3>4, CoverKept
  <2>3. gcRefs'[y] = gcRefs[y] /\ (y \in used' <=> y \in used)
    BY <1>1, <1>2, <1>n, <2>0
  <2>4. PoolInv(y)
    BY <2>0 DEF GcInv
  <2>5. PoolInv(y)'
    BY <1>1, <2>0, <2>3, <2>4 DEF PoolInv, Keeps
  <2> QED  BY <2>1, <2>2, <2>5
<1>17. \A y \in Sentinels : PoolInv(y)' /\ ChainInv(y)' /\ CoverInv(y)'
  BY <1>15, <1>16
<1> QED  BY <1>0, <1>3, <1>4, <1>10, <1>12, <1>13, <1>14, <1>17 DEF GcInv

LEMMA CleanGc ==
    ASSUME GcInv, EpochInv', NEW s \in Sessions, Alone(s), CleanElement(s)
    PROVE  GcInv'
<1>1. PICK q \in Queues : \E e \in Element : CleanEffect(s, q, e)
  BY CleanIs
<1>2. PICK e \in Element : CleanEffect(s, q, e)
  BY <1>1
<1> QED  BY <1>2, CleanLast, CleanOthersLeft

-----------------------------------------------------------------------------
(* The callbacks. *)

\* The element being destroyed is older than every snapshot, and its row is there.
LEMMA DtorFacts ==
    ASSUME GcInv, NEW s \in Sessions, NEW e \in DtorElement, NEW low \in Nat,
           NEW off \in SUBSET Csn, DtorEffect(s, e, low, off)
    PROVE  /\ e.sent \in Sentinels /\ e.row \in Nat /\ e.csn \in Nat /\ e.sent \in used
           /\ e.row \in rows[e.sent] /\ e.row \in hist[e.sent] /\ e.row <= e.csn
           /\ \A r \in hist[e.sent] : r > e.row => r >= e.csn
           /\ minCsn[e.sent] < e.csn /\ e.csn < csn /\ low <= e.row
           /\ e.kind = "delete" => e.row \in tombs
           /\ \A t \in Sessions : InTxn(t) => e.csn < epoch[t] /\ e.csn < snap[t]
<1> DEFINE x == e.sent
<1>0. GcTypes /\ DtorInv(s) /\ MinimumInv(s) /\ \A t \in Sessions : SessionInv(t)
  BY DEF GcInv, EpochInv
<1>1. pc[s] = "dtor" /\ e = cur[s] /\ minCsn[x] < e.csn /\ low <= e.row
  BY DEF DtorEffect
<1>2. x \in Sentinels /\ e.row \in Nat /\ e.csn \in Nat
  <2>1. x \in Sentinels /\ e.row \in 0..MaxCsn /\ e.csn \in 1..MaxCsn
    BY DEF DtorElement, Csn
  <2> QED  BY <2>1, GcAssumption
<1>3. ElementInv(e) /\ e.csn < perform[s] /\ que[s] # 3
  BY <1>0, <1>1 DEF DtorInv
<1>4. perform[s] <= csn /\ \A t \in Sessions : InTxn(t) => perform[s] <= epoch[t]
  BY <1>0, <1>1, <1>3 DEF MinimumInv
<1>5. /\ csn \in Nat /\ perform[s] \in Nat /\ minCsn[x] \in Nat
      /\ \A t \in Sessions : epoch[t] \in Nat /\ snap[t] \in Nat
  BY <1>0, <1>2, Numbers
<1>6. \A t \in Sessions : InTxn(t) => e.csn < epoch[t] /\ e.csn < snap[t]
  BY <1>0, <1>2, <1>3, <1>4, <1>5 DEF SessionInv
<1>7. /\ e.row \in rows[x] /\ e.row \in hist[x] /\ e.row <= e.csn
      /\ \A r \in hist[x] : r > e.row => r >= e.csn
      /\ e.kind = "delete" => e.row \in tombs
  <2>1. ~(e.csn <= minCsn[x])
    BY <1>1, <1>2, <1>5
  <2> QED  BY <1>3, <2>1 DEF ElementInv
<1>8. x \in used
  <2>1. PoolInv(x)
    BY <1>2 DEF GcInv
  <2> QED  BY <1>7, <2>1 DEF PoolInv
<1>9. e.csn < csn
  BY <1>2, <1>3, <1>4, <1>5
<1> QED  BY <1>1, <1>2, <1>6, <1>7, <1>8, <1>9

\* No snapshot shows a row that goes.
LEMMA DtorChain ==
    ASSUME GcInv, NEW s \in Sessions, NEW e \in DtorElement, NEW low \in Nat,
           NEW off \in SUBSET Csn, DtorEffect(s, e, low, off)
    PROVE  ChainInv(e.sent)'
<1> DEFINE x == e.sent
<1>0. GcTypes /\ Frame(s)
  BY DEF GcInv, DtorEffect
<1>1. /\ x \in Sentinels /\ e.row \in Nat /\ e.csn \in Nat
      /\ e.row \in hist[x] /\ e.row <= e.csn
      /\ e.csn < csn /\ low <= e.row
      /\ \A t \in Sessions : InTxn(t) => e.csn < epoch[t] /\ e.csn < snap[t]
  BY DtorFacts
<1>2. ChainInv(x)
  BY <1>1 DEF GcInv
<1>3. /\ rows'[x] = {r \in rows[x] : r >= low} /\ minCsn'[x] = e.csn
      /\ UNCHANGED <<csn, hist, epoch, snap>>
      /\ pc[s] = "dtor" /\ pc'[s] = "clean"
  BY DEF DtorEffect, txnVars
<1> HIDE DEF x
<1>4. \A t \in Sessions : InTxn(t)' => InTxn(t)
  <2> TAKE t \in Sessions
  <2>1. CASE t = s
    BY <1>3, <2>1 DEF InTxn
  <2>2. CASE t # s
    BY <1>0, <2>2 DEF Frame, Same, InTxn
  <2> QED  BY <2>1, <2>2
<1>5. /\ csn \in Nat /\ hist[x] \subseteq Nat /\ \A t \in Sessions : snap[t] \in Nat
  BY <1>0, <1>1, Numbers
<1>6. ASSUME NEW r \in rows[x], NEW c \in Nat, e.csn < c, Shows(x, r, c)
      PROVE  r \in rows'[x]
  <2>1. e.row < c /\ r \in hist[x]
    BY <1>1, <1>6 DEF Shows
  <2>2. e.row <= r
    BY <1>1, <1>6, <2>1 DEF Shows
  <2> QED  BY <1>1, <1>3, <1>5, <2>1, <2>2
<1>7. /\ rows'[x] \subseteq hist'[x] /\ minCsn'[x] < csn' /\ \A r \in hist'[x] : r < csn'
  BY <1>1, <1>2, <1>3 DEF ChainInv
<1>8. ASSUME NEW r \in hist[x], Shows(x, r, csn)
      PROVE  r \in rows'[x]
  <2>1. r \in rows[x]
    BY <1>2, <1>8 DEF ChainInv
  <2> QED  BY <1>1, <1>5, <1>6, <1>8, <2>1
<1>9. ASSUME NEW t \in Sessions, InTxn(t), NEW r \in hist[x], Shows(x, r, snap[t])
      PROVE  r \in rows'[x]
  <2>1. r \in rows[x]
    BY <1>2, <1>9 DEF ChainInv
  <2> QED  BY <1>1, <1>5, <1>6, <1>9, <2>1
<1>10. \A r \in hist'[x] : Shows(x, r, csn)' => r \in rows'[x]
  BY <1>3, <1>8 DEF Shows
<1>11. \A t \in Sessions : InTxn(t)' =>
          /\ minCsn'[x] < epoch'[t]
          /\ \A r \in hist'[x] : Shows(x, r, snap[t])' => r \in rows'[x]
  BY <1>1, <1>3, <1>4, <1>9 DEF Shows
<1>12. ChainInv(x)'
  BY <1>7, <1>10, <1>11 DEF ChainInv
<1> QED  BY <1>12 DEF x

\* The elements in limbo point to rows that stay, or are overtaken.
LEMMA DtorElements ==
    ASSUME GcInv, NEW s \in Sessions, NEW e \in DtorElement, NEW low \in Nat,
           NEW off \in SUBSET Csn, DtorEffect(s, e, low, off),
           NEW d, d.sent \in Sentinels, d.row \in Nat, d.csn \in Nat, ElementInv(d)
    PROVE  ElementInv(d)'
<1> DEFINE x == e.sent
<1>0. GcTypes
  BY DEF GcInv
<1>1. /\ x \in Sentinels /\ e.row \in Nat /\ e.csn \in Nat /\ minCsn[x] < e.csn
      /\ e.row \in hist[x] /\ e.row <= e.csn /\ low <= e.row
  BY DtorFacts
<1>2. /\ rows'[x] = {r \in rows[x] : r >= low} /\ minCsn'[x] = e.csn
      /\ UNCHANGED <<hist, tombs>>
      /\ \A y \in Sentinels \ {x} : minCsn'[y] = minCsn[y] /\ rows'[y] = rows[y]
  BY DEF DtorEffect
<1> HIDE DEF x
<1>3. CASE d.sent # x
  <2>1. minCsn'[d.sent] = minCsn[d.sent] /\ rows'[d.sent] = rows[d.sent]
    BY <1>2, <1>3
  <2> QED  BY <1>2, <2>1 DEF ElementInv
<1>4. CASE d.sent = x
  <2>1. /\ d.row \in hist[x] /\ d.row <= d.csn
        /\ \A r \in hist[x] : r > d.row => r >= d.csn
        /\ d.csn <= minCsn[x] \/ d.row \in rows[x]
        /\ d.kind = "delete" => d.row \in tombs
    BY <1>4 DEF ElementInv
  <2>2. d.csn <= e.csn \/ d.row \in rows'[x]
    <3> SUFFICES ASSUME ~(d.csn <= e.csn)
                 PROVE  d.row \in rows'[x]
      OBVIOUS
    <3>1. minCsn[x] \in Nat
      BY <1>0, <1>1, Numbers
    <3>2. d.row \in rows[x]
      BY <1>1, <2>1, <3>1
    <3>3. d.row >= e.row
      BY <1>1, <2>1
    <3> QED  BY <1>1, <1>2, <3>2, <3>3
  <2>3. /\ d.row \in hist'[d.sent] /\ d.row <= d.csn
        /\ \A r \in hist'[d.sent] : r > d.row => r >= d.csn
        /\ d.csn <= minCsn'[d.sent] \/ d.row \in rows'[d.sent]
        /\ d.kind = "delete" => d.row \in tombs'
    BY <1>2, <1>4, <2>1, <2>2
  <2> QED  BY <2>3 DEF ElementInv
<1> QED  BY <1>3, <1>4

\* Nothing new waits.
LEMMA DtorPending ==
    ASSUME NEW s \in Sessions, NEW e \in DtorElement, NEW low \in Nat,
           NEW off \in SUBSET Csn, DtorEffect(s, e, low, off), NEW t \in Sessions
    PROVE  Pending(t)' \subseteq Pending(t)
<1>1. limbo' = limbo /\ pc'[s] = "clean" /\ Frame(s)
  BY DEF DtorEffect
<1>2. CASE t = s
  BY <1>1, <1>2 DEF Pending, Els
<1>3. CASE t # s
  BY <1>1, <1>3 DEF Pending, Els, Frame, Same
<1> QED  BY <1>2, <1>3

\* The count covers what is left after the tombstones in `off` are counted off.
LEMMA DtorCover ==
    ASSUME GcInv, GcTypes', NEW s \in Sessions, NEW e \in DtorElement, NEW low \in Nat,
           NEW off \in SUBSET Csn, DtorEffect(s, e, low, off)
    PROVE  CoverInv(e.sent)'
<1> DEFINE x == e.sent
           n == Cardinality(off)
<1>0. GcTypes /\ Frame(s)
  BY DEF GcInv, DtorEffect
<1>1. /\ x \in Sentinels /\ e.row \in Nat /\ e.csn \in Nat /\ minCsn[x] < e.csn
      /\ e.row \in rows[x] /\ e.row \in hist[x] /\ e.row <= e.csn /\ low <= e.row
      /\ e.kind = "delete" => e.row \in tombs
  BY DtorFacts
<1>2. /\ rows'[x] = {r \in rows[x] : r >= low} /\ minCsn'[x] = e.csn /\ tombs' = tombs
      /\ IsFiniteSet(off) /\ n \in Nat /\ refs'[x] = refs[x] - n
      /\ \A r \in off : \/ r \in Owed(x) /\ r < e.row
                        \/ r = e.row /\ e.kind = "delete" /\ Top(x) = e.row
      /\ pc[s] = "dtor" /\ e = cur[s] /\ pc'[s] = "clean"
  BY DEF DtorEffect
<1>c. CoverInv(x)
  BY <1>1 DEF GcInv
<1>n. /\ refs[x] \in Int /\ minCsn[x] \in Nat /\ rows[x] \subseteq Csn /\ Csn \subseteq Nat
  BY <1>0, <1>1, Numbers
<1> HIDE DEF x, n
<1>3. Top(x)' = Top(x) /\ Top(x) \in Nat /\ Top(x) # 0
  <2>1. Top(x) \in rows[x] /\ \A r \in rows[x] : r <= Top(x)
    BY <1>0, <1>1, TopIs
  <2>2. Top(x) \in Nat /\ Top(x) >= e.row
    BY <1>1, <1>n, <2>1
  <2>3. Top(x) \in rows'[x] /\ \A r \in rows'[x] : r <= Top(x)
    BY <1>1, <1>2, <2>1, <2>2
  <2>4. rows'[x] \in SUBSET Csn
    BY <1>2, <1>n
  <2>5. NewestOf(rows'[x]) = Top(x)
    BY <2>3, <2>4, NewestEq
  <2>6. Top(x) # 0
    BY <1>n, <2>1 DEF Csn
  <2> QED  BY <2>2, <2>5, <2>6 DEF Top
<1>4. Live(x)' = Live(x) /\ Live(x) \in {0, 1}
  BY <1>2, <1>3 DEF Live
<1>5. Inserters(x)' = Inserters(x)
  <2>1. \A t \in Sessions : pc'[t] = "open" <=> pc[t] = "open"
    BY <1>0, <1>2 DEF Frame, Same
  <2>2. held' = held /\ op' = op
    BY DEF DtorEffect, txnVars
  <2> QED  BY <2>1, <2>2 DEF Inserters
<1>6. ASSUME NEW t \in Sessions, NEW d \in Pending(t)', Claim(d, x)'
      PROVE  d \in Pending(t) /\ Claim(d, x) /\ ~(d.csn <= e.csn)
  <2>1. d \in Pending(t)
    BY <1>6, DtorPending
  <2>2. /\ d.kind = "delete" /\ d.sent = x /\ d.row = Top(x) /\ d.row < d.csn /\ e.csn < d.csn
    BY <1>2, <1>3, <1>6 DEF Claim
  <2>3. d.csn \in Nat
    <3>1. CASE d \in Els(t, 1)
      BY <1>0, <3>1, ElsType, ElementIs DEF Queues
    <3>2. CASE d \notin Els(t, 1)
      <4>1. d = cur[t] /\ pc[t] = "dtor"
        BY <2>1, <3>2 DEF Pending
      <4>2. cur[t] \in DtorElement
        BY <4>1 DEF GcInv, DtorInv
      <4>3. cur[t].csn \in Csn
        BY <4>2 DEF DtorElement
      <4> QED  BY <1>n, <4>1, <4>3
    <3> QED  BY <3>1, <3>2
  <2> QED  BY <1>1, <1>n, <2>1, <2>2, <2>3 DEF Claim
<1>7. Claimed(x)' => Claimed(x)
  BY <1>6 DEF Claimed
<1>8. \A u, t \in Sessions : \A d \in Pending(u)', b \in Pending(t)' :
        Claim(d, x)' /\ Claim(b, x)' => d.csn = b.csn
  BY <1>6, <1>c DEF CoverInv
<1>9. Owed(x)' \subseteq Owed(x) /\ \A r \in Owed(x)' : r \in Nat /\ r > e.csn
  <2>1. ASSUME NEW r \in Owed(x)'
        PROVE  r \in Owed(x) /\ r \in Nat /\ r > e.csn
    <3>1. r \in rows'[x] /\ r \in tombs /\ r > e.csn
      BY <1>2, <2>1 DEF Owed
    <3>2. r \in rows[x] /\ r \in Nat
      BY <1>2, <1>n, <3>1
    <3>3. r > minCsn[x]
      BY <1>1, <1>n, <3>1, <3>2
    <3> QED  BY <3>1, <3>2, <3>3 DEF Owed
  <2> QED  BY <2>1
<1> DEFINE o == Cardinality(Owed(x))
           p == Cardinality(Owed(x)')
           i == Cardinality(Inserters(x))
<1>10. /\ IsFiniteSet(Owed(x)) /\ o \in Nat /\ IsFiniteSet(Owed(x)') /\ p \in Nat /\ i \in Nat
  BY <1>0, <1>1, OwedFinite, OwedAfterFinite, InsertersFinite
<1>11. refs[x] >= i + Live(x) + o + (IF Claimed(x) THEN 1 ELSE 0)
  BY <1>c DEF CoverInv
<1>12. ASSUME NEW S, S \subseteq Owed(x), IsFiniteSet(S), \A r \in S : r <= e.row
       PROVE  Cardinality(S) + p <= o /\ Cardinality(S) \in Nat
  <2>1. S \cap Owed(x)' = {}
    <3>1. \A r \in S : r \in Nat
      BY <1>12, <1>n DEF Owed
    <3> QED  BY <1>1, <1>9, <1>12, <3>1
  <2>2. IsFiniteSet(S \cup Owed(x)') /\ Cardinality(S \cup Owed(x)') = Cardinality(S) + p
    <3>1. Cardinality(S \cap Owed(x)') = 0
      BY <2>1, FS_EmptySet
    <3>2. Cardinality(S) \in Nat
      BY <1>12, FS_CardinalityType
    <3>3. /\ IsFiniteSet(S \cup Owed(x)')
          /\ Cardinality(S \cup Owed(x)') =
               Cardinality(S) + Cardinality(Owed(x)') - Cardinality(S \cap Owed(x)')
      BY <1>10, <1>12, FS_Union
    <3> HIDE DEF p
    <3>4. Cardinality(Owed(x)') = p
      BY DEF p
    <3> QED  BY <1>10, <3>1, <3>2, <3>3, <3>4
  <2>3. S \cup Owed(x)' \subseteq Owed(x)
    BY <1>9, <1>12
  <2>4. Cardinality(S \cup Owed(x)') <= o
    BY <1>10, <2>3, FS_Subset
  <2> QED  BY <1>12, <2>2, <2>4, FS_CardinalityType
<1> HIDE DEF o, p, i
<1>13. refs'[x] >= i + Live(x) + p + (IF Claimed(x)' THEN 1 ELSE 0)
  <2>1. CASE off \subseteq Owed(x)
    <3>1. \A r \in off : r <= e.row
      BY <1>1, <1>2, <1>n DEF Owed
    <3>2. n + p <= o
      BY <1>2, <1>12, <2>1, <3>1 DEF n
    <3>3. CASE Claimed(x)
      BY <1>2, <1>4, <1>10, <1>11, <1>n, <3>2, <3>3
    <3>4. CASE ~Claimed(x)
      BY <1>2, <1>4, <1>7, <1>10, <1>11, <1>n, <3>2, <3>4
    <3> QED  BY <3>3, <3>4
  <2>2. CASE ~(off \subseteq Owed(x))
    <3>1. /\ e.row \in off /\ e.row \notin Owed(x) /\ e.kind = "delete" /\ Top(x) = e.row
      BY <1>2, <2>2
    <3>2. e.row <= minCsn[x]
      BY <1>1, <1>n, <3>1 DEF Owed
    <3>3. Claim(e, x)
      BY <1>1, <1>n, <3>1, <3>2 DEF Claim, x
    <3>4. e \in Pending(s)
      BY <1>2 DEF Pending
    <3>5. Claimed(x)
      BY <3>3, <3>4 DEF Claimed
    <3>6. ~Claimed(x)'
      <4> SUFFICES ASSUME Claimed(x)'
                   PROVE  FALSE
        OBVIOUS
      <4>1. PICK t \in Sessions : \E d \in Pending(t)' : Claim(d, x)'
        BY DEF Claimed
      <4>2. PICK d \in Pending(t)' : Claim(d, x)'
        BY <4>1
      <4>3. d \in Pending(t) /\ Claim(d, x) /\ ~(d.csn <= e.csn)
        BY <1>6, <4>2
      <4>4. d.csn = e.csn
        BY <1>c, <3>3, <3>4, <4>3 DEF CoverInv
      <4> QED  BY <1>1, <4>3, <4>4
    <3> DEFINE S == off \ {e.row}
    <3>7. IsFiniteSet(S) /\ Cardinality(S) = n - 1
      BY <1>2, <3>1, FS_RemoveElement DEF n
    <3>8. S \subseteq Owed(x) /\ \A r \in S : r <= e.row
      <4>1. \A r \in S : r \in Owed(x) /\ r < e.row /\ r \in Nat
        BY <1>2, <1>n DEF Owed
      <4> QED  BY <1>1, <4>1
    <3> HIDE DEF S
    <3>9. n - 1 + p <= o
      BY <1>12, <3>7, <3>8
    <3> QED  BY <1>2, <1>4, <1>10, <1>11, <1>n, <3>5, <3>6, <3>9
  <2> QED  BY <2>1, <2>2
<1>14. refs'[x] >= Cardinality(Inserters(x)') + Live(x)' + Cardinality(Owed(x)')
                     + (IF Claimed(x)' THEN 1 ELSE 0)
  BY <1>4, <1>5, <1>13 DEF i, p
<1>15. CoverInv(x)'
  BY <1>8, <1>14 DEF CoverInv
<1> QED  BY <1>15 DEF x

\* The delete vector has one more sentinel.
LEMMA DtorLists ==
    ASSUME GcInv, NEW s \in Sessions, NEW e \in DtorElement, NEW low \in Nat,
           NEW off \in SUBSET Csn, DtorEffect(s, e, low, off)
    PROVE  /\ \A y \in Sentinels : CountInv(y)'
           /\ \A t \in Sessions : Marked(t) \subseteq Marked(t)'
           /\ \A t \in Sessions : Marked(t)' \subseteq Marked(t) \cup {e.sent}
           /\ index' # index => e.sent \in Marked(s)' /\ index' = Nobody
           /\ index' = index => \A t \in Sessions : Marked(t)' = Marked(t)
<1> DEFINE x == e.sent
           n == Cardinality(off)
<1>0. GcTypes /\ Frame(s) /\ GcTypes'
  BY DEF GcInv, DtorEffect, Frame
<1>1. x \in Sentinels
  BY DtorFacts
<1>2. limbo' = limbo
  BY DEF DtorEffect
<1>3. CASE ~(n > 0 /\ refs[x] = n)
  <2>1. UNCHANGED <<index, gcRefs, dels>>
    BY <1>3 DEF DtorEffect
  <2>2. \A y \in Sentinels : CountInv(y)'
    <3> TAKE y \in Sentinels
    <3>1. CountInv(y)
      BY DEF GcInv
    <3> QED  BY <1>2, <2>1, <3>1, CountKept
  <2> QED  BY <2>1, <2>2 DEF Marked
<1>4. CASE n > 0 /\ refs[x] = n
  <2>1. /\ index' = Nobody
        /\ gcRefs'[x] = gcRefs[x] + 1 /\ \A y \in Sentinels \ {x} : gcRefs'[y] = gcRefs[y]
        /\ dels'[s] = Append(dels[s], x)
    BY <1>4 DEF DtorEffect
  <2>2. index = x /\ Nobody # x
    <3>1. PoolInv(x)
      BY <1>1 DEF GcInv
    <3> QED  BY <1>1, <1>4, <3>1, GcAssumption DEF PoolInv
  <2>3. dels[s] \in Seq(Sentinels)
    BY <1>0 DEF GcTypes
  <2>4. Marked(s)' = Marked(s) \cup {x}
    BY <1>1, <2>1, <2>3, RangeAppend DEF Marked
  <2>5. \A t \in Sessions \ {s} : Marked(t)' = Marked(t) /\ dels'[t] = dels[t]
    BY <1>0 DEF Frame, Same, Marked
  <2> DEFINE k == <<s, 0>>
             F == Lists
             G == Lists'
             K == Sessions \X (0..3)
  <2>6. ListsOk /\ ListsOk'
    BY <1>0, ListsAre, ListsAfter
  <2>7. k \in K /\ F \in [K -> Seq(Sentinels)] /\ G \in [K -> Seq(Sentinels)]
        /\ G[k] = Append(F[k], x)
    BY <2>1, <2>6 DEF ListsOk
  <2>8. ASSUME NEW j \in K, j # k
        PROVE  G[j] = F[j]
    <3>0. PICK t \in Sessions, q \in 0..3 : j = <<t, q>>
      OBVIOUS
    <3>1. j[1] = t /\ j[2] = q
      BY <3>0
    <3>2. q = 0 => dels'[t] = dels[t]
      BY <2>5, <2>8, <3>0
    <3> QED  BY <1>0, <1>2, <3>1, <3>2, ListSame
  <2>9. ASSUME NEW y \in Sentinels
        PROVE  CountInv(y)'
    <3>1. CountInv(y) /\ gcRefs'[y] = gcRefs[y] + (IF y = x THEN 1 ELSE 0)
      <4>1. gcRefs[y] \in Int
        BY <1>0, Numbers
      <4> QED  BY <2>1, <4>1 DEF GcInv
    <3>k. IsFiniteSet(K)
      BY KeysFinite
    <3> HIDE DEF F, G, K, k, x
    <3>2. Cardinality(Places(G, y)) = Cardinality(Places(F, y)) + (IF y = x THEN 1 ELSE 0)
      <4>1. Longer(K, Sentinels, F, G, k, x)
        BY <1>1, <2>7, <2>8, <3>k DEF Longer
      <4> QED  BY <4>1, PlacesAppend
    <3>3. gcRefs'[y] = Cardinality(Places(Lists', y))
      BY <3>1, <3>2 DEF CountInv, F, G
    <3> QED  BY <3>3 DEF CountInv, Places
  <2> HIDE DEF k, F, G, K
  <2>10. \A y \in Sentinels : CountInv(y)'
    BY <2>9
  <2>11. \A t \in Sessions : Marked(t) \subseteq Marked(t)' /\ Marked(t)' \subseteq Marked(t) \cup {x}
    BY <2>4, <2>5
  <2>12. index' # index /\ x \in Marked(s)'
    BY <2>1, <2>2, <2>4
  <2> QED  BY <2>1, <2>10, <2>11, <2>12
<1> QED  BY <1>3, <1>4

LEMMA DtorStep ==
    ASSUME GcInv, EpochInv', NEW s \in Sessions, Alone(s), NEW e \in DtorElement, NEW low \in Nat,
           NEW off \in SUBSET Csn, DtorEffect(s, e, low, off)
    PROVE  GcInv'
<1> DEFINE x == e.sent
           n == Cardinality(off)
<1>0. GcTypes /\ GcTypes' /\ Frame(s) /\ ControlInv(s) /\ MinimumInv(s)
  BY DEF GcInv, DtorEffect, Frame
<1>1. /\ x \in Sentinels /\ e.row \in Nat /\ e.csn \in Nat /\ x \in used
      /\ e.row <= e.csn /\ low <= e.row
      /\ \A t \in Sessions : InTxn(t) => e.csn < epoch[t]
  BY DtorFacts
<1>2. /\ pc[s] = "dtor" /\ pc'[s] = "clean"
      /\ UNCHANGED <<csn, used, tombs, hist, epoch, snap, held, op, mine, limbo, closing, que,
                     perform, fresh, scan>>
      /\ \A y \in Sentinels \ {x} : Keeps(y) /\ refs'[y] = refs[y]
      /\ rows'[x] = {r \in rows[x] : r >= low}
      /\ n \in Nat /\ refs'[x] = refs[x] - n
  BY DEF DtorEffect, txnVars, Keeps
<1>3. /\ n > 0 /\ refs[x] = n =>
            /\ index' = Nobody
            /\ gcRefs'[x] = gcRefs[x] + 1 /\ \A y \in Sentinels \ {x} : gcRefs'[y] = gcRefs[y]
      /\ ~(n > 0 /\ refs[x] = n) => UNCHANGED <<index, gcRefs, dels>>
  BY DEF DtorEffect
<1>4. /\ \A y \in Sentinels : CountInv(y)'
      /\ \A t \in Sessions : Marked(t) \subseteq Marked(t)'
      /\ \A t \in Sessions : Marked(t)' \subseteq Marked(t) \cup {x}
      /\ index' # index => x \in Marked(s)' /\ index' = Nobody
      /\ index' = index => \A t \in Sessions : Marked(t)' = Marked(t)
  BY DtorLists
<1>5. ChainInv(x)' /\ CoverInv(x)'
  BY <1>0, DtorChain, DtorCover
<1>6. ASSUME NEW d, d.sent \in Sentinels, d.row \in Nat, d.csn \in Nat, ElementInv(d)
      PROVE  ElementInv(d)'
  BY <1>6, DtorElements
<1>7. \A t \in Sessions : Pending(t)' \subseteq Pending(t)
  BY DtorPending
<1> HIDE DEF x, n
<1>n. /\ csn \in Nat /\ csn' >= csn /\ \A y \in Sentinels : refs[y] \in Int /\ gcRefs[y] \in Int
      /\ \A t \in Sessions : epoch[t] \in Nat /\ mine[t] \in Nat
  BY <1>0, <1>2, Numbers
<1>q. 1 \in Queues /\ 2 \in Queues /\ 3 \in Queues /\ Nobody \notin Sentinels
  BY GcAssumption DEF Queues
<1>i. index' = index \/ (index' = Nobody /\ x \in Marked(s)' /\ index = x)
  <2>1. CASE n > 0 /\ refs[x] = n
    <3>1. index = x
      BY <1>1, <2>1 DEF GcInv, PoolInv
    <3> QED  BY <1>1, <1>3, <1>4, <1>q, <2>1, <3>1
  <2>2. CASE ~(n > 0 /\ refs[x] = n)
    BY <1>3, <2>2
  <2> QED  BY <2>1, <2>2
<1>8. Reads(s) /\ Holds(s)
  BY <1>2 DEF Reads, Holds, InTxn
<1>9. \A t \in Sessions : InTxn(t)' <=> InTxn(t)
  <2> TAKE t \in Sessions
  <2>1. CASE t = s
    BY <1>2, <2>1 DEF InTxn
  <2>2. CASE t # s
    BY <1>0, <2>2 DEF Frame, Same, InTxn
  <2> QED  BY <2>1, <2>2
<1>10. \A t \in Sessions \ {s} : ControlInv(t)' /\ DtorInv(t)' /\ MinimumInv(t)'
  BY <1>0, <1>8, <1>n, OthersControl, OthersMinimum
<1>11. \A t \in Sessions : \A p \in Queues : Els(t, p)' = Els(t, p)
  BY <1>2 DEF Els
<1>12. ControlInv(s)' /\ DtorInv(s)' /\ OpInv(s)'
  <2>1. DtorInv(s)' /\ OpInv(s)'
    BY <1>2 DEF DtorInv, OpInv, Inserting
  <2> QED  BY <1>0, <1>2, <1>11, <2>1 DEF ControlInv, InTxn, Cleaning
<1>13. MinimumInv(s)'
  <2>1. /\ perform[s] <= csn \/ (closing[s] /\ que[s] = 3)
        /\ \A t \in Sessions : InTxn(t) =>
            perform[s] <= epoch[t] \/ (closing[s] /\ que[s] = 3 /\ Apart(s, t))
    BY <1>0, <1>2 DEF MinimumInv
  <2>2. \A t \in Sessions : Apart(s, t)' <=> Apart(s, t)
    BY <1>2, <1>11, <1>q DEF Apart
  <2> QED  BY <1>2, <1>9, <2>1, <2>2 DEF MinimumInv
<1>14. ASSUME NEW t \in Sessions
       PROVE  LimboInv(t)'
  <2>0. LimboInv(t)
    BY DEF GcInv
  <2>1. ASSUME NEW p \in {1, 2}, NEW d \in Els(t, p)'
        PROVE  ElementInv(d)'
    <3>1. p \in Queues /\ d \in Els(t, p)
      BY <1>11, <1>q
    <3>2. d.sent \in Sentinels /\ d.row \in Nat /\ d.csn \in Nat
      BY <3>1, InLimbo, ElementIs
    <3>3. ElementInv(d)
      BY <2>0, <3>1 DEF LimboInv
    <3> QED  BY <1>6, <3>2, <3>3
  <2>2. \A p \in Queues : \A d \in Els(t, p)' : d.csn <= csn'
    BY <1>2, <1>11, <2>0 DEF LimboInv
  <2>3. \A d \in Els(t, 3)' : d.sent # index'
    <3> TAKE d \in Els(t, 3)'
    <3>1. d \in Els(t, 3) /\ d.sent # index
      BY <1>11, <1>q, <2>0 DEF LimboInv
    <3>2. d.sent \in Sentinels
      BY <1>q, <3>1, InLimbo, ElementIs
    <3> QED  BY <1>i, <1>q, <3>1, <3>2
  <2>4. \A y \in Marked(t)' : y # index'
    <3> TAKE y \in Marked(t)'
    <3>1. CASE index' = index
      BY <1>4, <2>0, <3>1 DEF LimboInv
    <3>2. CASE index' = Nobody
      <4>1. y \in Sentinels
        BY <1>1, <1>4, InMarked
      <4> QED  BY <1>q, <3>2, <4>1
    <3> QED  BY <1>i, <3>1, <3>2
  <2> QED  BY <2>1, <2>2, <2>3, <2>4 DEF LimboInv
<1>15. ASSUME NEW t \in Sessions \ {s}
       PROVE  OpInv(t)'
  <2>0. OpInv(t) /\ ControlInv(t) /\ pc'[t] = pc[t] /\ held[t] \in Sentinels \cup {Nobody}
    BY <1>0 DEF GcInv, Frame, Same, GcTypes
  <2>1. CASE pc[t] # "committed"
    BY <1>2, <2>0, <2>1 DEF OpInv, Inserting
  <2>2. CASE pc[t] = "committed"
    <3>1. /\ op[t] # "none" /\ mine[t] \in rows[held[t]] /\ epoch[t] <= mine[t]
          /\ op[t] = "delete" => mine[t] \in tombs
      BY <2>0, <2>2 DEF OpInv
    <3>2. held[t] \in Sentinels
      BY <2>0, <3>1 DEF ControlInv
    <3>3. mine[t] \in rows'[held[t]]
      <4>1. CASE held[t] = x
        <5>1. e.csn < epoch[t]
          BY <1>1, <2>2 DEF InTxn
        <5>2. mine[t] >= low
          BY <1>1, <1>n, <3>1, <5>1
        <5> QED  BY <1>2, <3>1, <4>1, <5>2
      <4>2. CASE held[t] # x
        BY <1>2, <3>1, <3>2, <4>2 DEF Keeps
      <4> QED  BY <4>1, <4>2
    <3> QED  BY <1>2, <2>0, <2>2, <3>1, <3>3 DEF OpInv, Inserting
  <2> QED  BY <2>1, <2>2
<1>16. ASSUME NEW t \in Sessions
       PROVE  HeldInv(t)'
  <2> SUFFICES ASSUME InTxn(t)', held'[t] # Nobody
               PROVE  held'[t] \in used' /\ (held'[t] # index' => Owned(held[t], epoch[t])')
    BY DEF HeldInv
  <2>1. InTxn(t) /\ HeldInv(t)
    BY <1>9 DEF GcInv
  <2>2. held[t] \in used /\ (held[t] # index => Owned(held[t], epoch[t]))
    BY <1>2, <2>1 DEF HeldInv
  <2>3. Owned(held[t], epoch[t]) => Owned(held[t], epoch[t])'
    BY <1>2, <1>4, <1>11, <1>q DEF Owned
  <2>4. held[t] = index /\ held'[t] # index' => Owned(held[t], epoch[t])'
    BY <1>2, <1>i DEF Owned
  <2> QED  BY <1>2, <2>2, <2>3, <2>4
<1>17. PoolInv(x)'
  <2>0. PoolInv(x) /\ CountInv(x) /\ CountInv(x)'
    BY <1>1, <1>4 DEF GcInv
  <2>1. refs'[x] >= 0
    <3>1. /\ Cardinality(Inserters(x)') \in Nat /\ Cardinality(Owed(x)') \in Nat
          /\ Live(x)' \in {0, 1} /\ refs'[x] \in Int
      BY <1>0, <1>1, InsertersFinite, OwedAfterFinite, NumbersAfter DEF Live
    <3>2. refs'[x] >= Cardinality(Inserters(x)') + Live(x)' + Cardinality(Owed(x)')
                     + (IF Claimed(x)' THEN 1 ELSE 0)
      BY <1>5 DEF CoverInv
    <3>3. CASE Claimed(x)'
      BY <3>1, <3>2, <3>3
    <3>4. CASE ~Claimed(x)'
      BY <3>1, <3>2, <3>4
    <3> QED  BY <3>3, <3>4
  <2>2. gcRefs[x] \in Nat
    <3>1. Lists \in [Sessions \X (0..3) -> Seq(Sentinels)]
      BY <1>0, ListsType
    <3>2. Cardinality(Places(Lists, x)) \in Nat
      BY <3>1, KeysFinite, PlacesFinite
    <3> QED  BY <2>0, <3>2 DEF CountInv
  <2>3. CASE n > 0 /\ refs[x] = n
    <3>1. index' = Nobody /\ gcRefs'[x] > 0 /\ refs'[x] = 0
      BY <1>2, <1>3, <2>2, <2>3
    <3> QED  BY <1>1, <1>2, <1>q, <3>1 DEF PoolInv
  <2>4. CASE ~(n > 0 /\ refs[x] = n)
    <3>1. index' = index /\ gcRefs' = gcRefs
      BY <1>3, <2>4
    <3>2. refs'[x] > 0 <=> refs[x] > 0
      BY <1>1, <1>2, <1>n, <2>1, <2>4
    <3> QED  BY <1>1, <1>2, <2>0, <3>1, <3>2 DEF PoolInv
  <2> QED  BY <2>3, <2>4
<1>18. ASSUME NEW y \in Sentinels \ {x}
       PROVE  PoolInv(y)' /\ ChainInv(y)' /\ CoverInv(y)'
  <2>0. Keeps(y) /\ refs'[y] = refs[y] /\ PoolInv(y) /\ y \in Sentinels
    BY <1>2 DEF GcInv
  <2>1. ChainInv(y)'
    BY <1>0, <1>8, <1>n, <2>0, ChainKept
  <2>2. gcRefs'[y] = gcRefs[y] /\ (y = index' <=> y = index)
    BY <1>3, <1>i, <1>q, <2>0
  <2>3. PoolInv(y)'
    BY <1>2, <2>0, <2>2 DEF PoolInv, Keeps
  <2>4. Waiting(y)
    <3>1. \A d : Alike(d, d)
      BY DEF Alike
    <3> QED  BY <1>7, <3>1 DEF Waiting
  <2>5. Inserters(y)' = Inserters(y)
    <3>1. \A t \in Sessions : pc'[t] = "open" <=> pc[t] = "open"
      BY <1>0, <1>2 DEF Frame, Same
    <3> QED  BY <1>2, <3>1 DEF Inserters
  <2>6. refs'[y] - Cardinality(Inserters(y)') >= refs[y] - Cardinality(Inserters(y))
    <3>1. Cardinality(Inserters(y)) \in Nat /\ refs[y] \in Int
      BY <1>n, <2>0, InsertersFinite
    <3> QED  BY <2>0, <2>5, <3>1
  <2>7. CoverInv(y)'
    <3>1. rows'[y] = rows[y] /\ minCsn'[y] = minCsn[y] /\ tombs' = tombs
      BY <1>2, <2>0 DEF Keeps
    <3> QED  BY <1>0, <2>0, <2>4, <2>6, <3>1, CoverKept
  <2> QED  BY <2>1, <2>3, <2>7
<1>19. \A y \in Sentinels : PoolInv(y)' /\ ChainInv(y)' /\ CoverInv(y)'
  BY <1>5, <1>17, <1>18
<1>20. \A t \in Sessions : ControlInv(t)' /\ DtorInv(t)' /\ MinimumInv(t)' /\ OpInv(t)'
  BY <1>10, <1>12, <1>13, <1>15
<1> QED  BY <1>0, <1>4, <1>14, <1>16, <1>19, <1>20 DEF GcInv

LEMMA DtorGc ==
    ASSUME GcInv, EpochInv', NEW s \in Sessions, Alone(s), Dtor(s)
    PROVE  GcInv'
<1>1. PICK e \in DtorElement : e = cur[s]
  BY DtorIs
<1>2. PICK low \in Nat : \E off \in SUBSET Csn : DtorEffect(s, e, low, off)
  BY <1>1, DtorIs
<1>3. PICK off \in SUBSET Csn : DtorEffect(s, e, low, off)
  BY <1>2
<1> QED  BY <1>3, DtorStep

-----------------------------------------------------------------------------
(* LeaveQueue. *)

\* The delete vector goes to the generic queue, with the current CSN.
LEMMA LeaveLists ==
    ASSUME GcInv, NEW s \in Sessions, LeaveEffect(s)
    PROVE  /\ Marked(s)' = {} /\ Els(s, 1)' = Els(s, 1) /\ Els(s, 2)' = Els(s, 2)
           /\ Els(s, 3) \subseteq Els(s, 3)'
           /\ \A d \in Els(s, 3)' : d \notin Els(s, 3) =>
                d.kind = "sentinel" /\ d.sent \in Marked(s) /\ d.csn = csn
           /\ \A y \in Marked(s) : \E d \in Els(s, 3)' : d.sent = y /\ d.csn = csn
           /\ \A y \in Sentinels : CountInv(y)'
<1>0. GcTypes /\ Frame(s) /\ GcTypes'
  BY DEF GcInv, LeaveEffect, Frame
<1>1. /\ dels'[s] = <<>> /\ \A q \in Queues \ {3} : limbo'[s][q] = limbo[s][q]
      /\ gcRefs' = gcRefs
  BY DEF LeaveEffect, sentVars
<1>2. PICK l \in Seq(Element) :
        /\ Len(l) = Len(dels[s])
        /\ \A i \in 1..Len(l) :
             l[i] = [kind |-> "sentinel", sent |-> dels[s][i], row |-> 0, csn |-> csn]
        /\ limbo'[s][3] = limbo[s][3] \o l
  BY DEF LeaveEffect
<1>q. 1 \in Queues \ {3} /\ 2 \in Queues \ {3} /\ 3 \in Queues
  BY DEF Queues
<1>3. dels[s] \in Seq(Sentinels) /\ limbo[s][3] \in Seq(Element)
  <2>1. limbo \in [Sessions -> [Queues -> Seq(Element)]] /\ dels \in [Sessions -> Seq(Sentinels)]
    BY <1>0 DEF GcTypes
  <2> QED  BY <1>q, <2>1
<1>4. Marked(s)' = {} /\ Els(s, 1)' = Els(s, 1) /\ Els(s, 2)' = Els(s, 2)
  BY <1>1, <1>q DEF Marked, Els, Range
<1>5. Els(s, 3)' = Els(s, 3) \cup Range(l)
  BY <1>2, <1>3, RangeConcat DEF Els
<1>6. ASSUME NEW i \in 1..Len(l)
      PROVE  l[i].kind = "sentinel" /\ l[i].sent = dels[s][i] /\ l[i].csn = csn
             /\ l[i] \in Range(l) /\ dels[s][i] \in Marked(s)
  <2>1. l[i] = [kind |-> "sentinel", sent |-> dels[s][i], row |-> 0, csn |-> csn]
    BY <1>2
  <2>2. l[i] \in Range(l) /\ dels[s][i] \in Marked(s)
    BY <1>2, <1>3 DEF Range, Marked
  <2> QED  BY <2>1, <2>2
<1>7. \A d \in Els(s, 3)' : d \notin Els(s, 3) =>
        d.kind = "sentinel" /\ d.sent \in Marked(s) /\ d.csn = csn
  <2> SUFFICES ASSUME NEW d \in Range(l)
               PROVE  d.kind = "sentinel" /\ d.sent \in Marked(s) /\ d.csn = csn
    BY <1>5
  <2>1. PICK i \in 1..Len(l) : d = l[i]
    BY DEF Range
  <2> QED  BY <1>6, <2>1
<1>8. \A y \in Marked(s) : \E d \in Els(s, 3)' : d.sent = y /\ d.csn = csn
  <2> TAKE y \in Marked(s)
  <2>1. PICK i \in 1..Len(l) : y = dels[s][i]
    BY <1>2, <1>3 DEF Marked, Range
  <2> QED  BY <1>5, <1>6, <2>1
<1> DEFINE k == <<s, 3>>
           h == <<s, 0>>
           F == Lists
           G == Lists'
           K == Sessions \X (0..3)
<1>9. ListsOk /\ ListsOk'
  BY <1>0, ListsAre, ListsAfter
<1>10. /\ k \in K /\ h \in K /\ k # h /\ F \in [K -> Seq(Sentinels)] /\ G \in [K -> Seq(Sentinels)]
       /\ F[h] = dels[s] /\ G[h] = <<>>
  BY <1>1, <1>9 DEF ListsOk
<1>11. /\ Len(G[k]) = Len(F[k]) + Len(F[h])
       /\ \A i \in 1..Len(F[k]) : G[k][i] = F[k][i]
       /\ \A i \in 1..Len(F[h]) : G[k][Len(F[k]) + i] = F[h][i]
  <2> DEFINE m == limbo[s][3]
             f == F[k]
             g == G[k]
  <2>1. /\ f \in Seq(Sentinels) /\ Len(f) = Len(m) /\ \A i \in 1..Len(m) : f[i] = m[i].sent
    BY <1>9, <1>q DEF ListsOk
  <2>2. /\ g \in Seq(Sentinels) /\ Len(g) = Len(limbo'[s][3])
        /\ \A i \in 1..Len(limbo'[s][3]) : g[i] = limbo'[s][3][i].sent
    BY <1>9, <1>q DEF ListsOk
  <2>3. m \in Seq(Element) /\ limbo'[s][3] = m \o l
    BY <1>2, <1>3
  <2> HIDE DEF m, f, g, k, h, F, G, K
  <2>4. /\ Len(m \o l) = Len(m) + Len(l) /\ Len(m) \in Nat /\ Len(l) \in Nat
        /\ \A i \in 1..Len(m) : (m \o l)[i] = m[i]
        /\ \A i \in 1..Len(l) : (m \o l)[Len(m) + i] = l[i]
    BY <2>3
  <2>5. Len(F[h]) = Len(l) /\ \A i \in 1..Len(l) : F[h][i] = l[i].sent
    BY <1>2, <1>6, <1>10
  <2>6. Len(g) = Len(f) + Len(F[h])
    BY <2>1, <2>2, <2>3, <2>4, <2>5
  <2>7. ASSUME NEW i \in 1..Len(f)
        PROVE  g[i] = f[i]
    <3>1. i \in 1..Len(m) /\ i \in 1..Len(limbo'[s][3])
      BY <2>1, <2>3, <2>4
    <3>2. g[i] = limbo'[s][3][i].sent /\ f[i] = m[i].sent
      BY <2>1, <2>2, <3>1
    <3>3. limbo'[s][3][i] = m[i]
      BY <2>3, <2>4, <3>1
    <3> QED  BY <3>2, <3>3
  <2>8. ASSUME NEW i \in 1..Len(F[h])
        PROVE  g[Len(f) + i] = F[h][i]
    <3>1. i \in 1..Len(l) /\ Len(f) + i \in 1..Len(limbo'[s][3]) /\ Len(f) = Len(m)
      BY <2>1, <2>3, <2>4, <2>5
    <3>2. g[Len(f) + i] = limbo'[s][3][Len(f) + i].sent /\ F[h][i] = l[i].sent
      BY <2>2, <2>5, <3>1
    <3>3. limbo'[s][3][Len(f) + i] = l[i]
      BY <2>3, <2>4, <3>1
    <3> QED  BY <3>2, <3>3
  <2> QED  BY <2>6, <2>7, <2>8 DEF f, g
<1>12. ASSUME NEW j \in K \ {k, h}
       PROVE  G[j] = F[j]
  <2>0. PICK t \in Sessions, p \in 0..3 : j = <<t, p>>
    OBVIOUS
  <2>1. j[1] = t /\ j[2] = p /\ j \in K
    BY <2>0
  <2>2. p # 0 => p \in Queues
    BY DEF Queues
  <2>3. CASE t = s
    <3>1. p # 0 /\ p # 3
      BY <2>0, <2>3
    <3>2. limbo'[t][p] = limbo[t][p]
      BY <1>1, <2>2, <2>3, <3>1
    <3> QED  BY <1>0, <2>1, <3>1, <3>2, ListSame
  <2>4. CASE t # s
    <3>1. limbo'[t] = limbo[t] /\ dels'[t] = dels[t]
      BY <1>0, <2>4 DEF Frame, Same
    <3> QED  BY <1>0, <2>1, <3>1, ListSame
  <2> QED  BY <2>3, <2>4
<1>13. ASSUME NEW y \in Sentinels
       PROVE  CountInv(y)'
  <2>1. CountInv(y) /\ gcRefs'[y] = gcRefs[y]
    BY <1>1 DEF GcInv
  <2>k. IsFiniteSet(K)
    BY KeysFinite
  <2> HIDE DEF F, G, K, k, h
  <2>2. Cardinality(Places(G, y)) = Cardinality(Places(F, y))
    <3>1. Moved(K, Sentinels, F, G, k, h)
      BY <1>10, <1>11, <1>12, <2>k DEF Moved
    <3> QED  BY <3>1, PlacesMove
  <2>3. gcRefs'[y] = Cardinality(Places(Lists', y))
    BY <2>1, <2>2 DEF CountInv, F, G
  <2> QED  BY <2>3 DEF CountInv, Places
<1> QED  BY <1>4, <1>5, <1>7, <1>8, <1>13

LEMMA LeaveGc ==
    ASSUME GcInv, EpochInv', NEW s \in Sessions, Alone(s), LeaveQueue(s)
    PROVE  GcInv'
<1>0. /\ GcTypes /\ GcTypes' /\ Frame(s) /\ ControlInv(s) /\ MinimumInv(s) /\ LeaveEffect(s)
      /\ \A t \in Sessions : SessionInv(t)
  BY LeaveIs DEF GcInv, LeaveEffect, Frame, EpochInv
<1>1. /\ pc[s] = "clean"
      /\ UNCHANGED <<csn, index, used, refs, gcRefs, minCsn, rows, tombs, hist, snap, held, op,
                     mine, scan, cur>>
  BY <1>0 DEF LeaveEffect, sentVars, txnVars
<1>2. /\ Marked(s)' = {} /\ Els(s, 1)' = Els(s, 1) /\ Els(s, 2)' = Els(s, 2)
      /\ Els(s, 3) \subseteq Els(s, 3)'
      /\ \A d \in Els(s, 3)' : d \notin Els(s, 3) =>
           d.kind = "sentinel" /\ d.sent \in Marked(s) /\ d.csn = csn
      /\ \A y \in Marked(s) : \E d \in Els(s, 3)' : d.sent = y /\ d.csn = csn
      /\ \A y \in Sentinels : CountInv(y)'
  BY <1>0, LeaveLists
<1>3. /\ \/ /\ closing[s] /\ pc'[s] = "queue" /\ closing'[s]
         \/ /\ ~closing[s] /\ ~closing'[s] /\ pc'[s] = "queue" /\ perform'[s] = perform[s]
         \/ /\ ~closing'[s] /\ ~fresh'[s] /\ pc'[s] = "idle"
  <2>1. /\ pc \in [Sessions -> PC] /\ fresh \in [Sessions -> BOOLEAN]
        /\ closing \in [Sessions -> BOOLEAN]
    BY <1>0 DEF GcTypes
  <2>2. CASE closing[s] /\ pc'[s] = "queue" /\ UNCHANGED <<que, perform, fresh, closing>>
    BY <2>2
  <2>3. CASE ~closing[s] /\ NextQueue(s) /\ que[s] < 3
    <3>1. pc' = [pc EXCEPT ![s] = "queue"] /\ UNCHANGED <<perform, closing>>
      BY <2>3 DEF NextQueue
    <3>2. pc'[s] = "queue"
      BY <2>1, <3>1
    <3> QED  BY <2>3, <3>1, <3>2
  <2>4. CASE ~closing[s] /\ NextQueue(s) /\ ~(que[s] < 3)
    <3>1. /\ pc' = [pc EXCEPT ![s] = "idle"] /\ fresh' = [fresh EXCEPT ![s] = FALSE]
          /\ closing' = [closing EXCEPT ![s] = FALSE]
      BY <2>4 DEF NextQueue
    <3>2. pc'[s] = "idle"
      BY <2>1, <3>1
    <3>3. ~closing'[s] /\ ~fresh'[s]
      BY <2>1, <3>1, ChangeAt, Zenon
    <3> QED  BY <3>2, <3>3
  <2> QED  BY <1>0, <2>2, <2>3, <2>4 DEF LeaveEffect
<1>n. csn \in Nat /\ csn' >= csn /\ \A t \in Sessions : epoch[t] \in Nat
  BY <1>0, <1>1, Numbers
<1>q. Queues = {1, 2, 3} /\ QueueOf("sentinel") = 3
  BY DEF Queues, QueueOf
<1>4. \A y \in Sentinels : Keeps(y) /\ Grows(y)
  BY <1>1 DEF Keeps, Grows
<1>5. Reads(s) /\ Holds(s) /\ ~InTxn(s) /\ ~InTxn(s)'
  BY <1>1, <1>3 DEF Reads, Holds, InTxn
<1>6. \A t \in Sessions \ {s} : ControlInv(t)' /\ DtorInv(t)' /\ MinimumInv(t)'
  BY <1>0, <1>5, <1>n, OthersControl, OthersMinimum
<1>7. DtorInv(s)' /\ OpInv(s)'
  BY <1>3 DEF DtorInv, OpInv, Inserting
<1>8. ControlInv(s)'
  <2>1. \A p \in Queues : \A d \in Els(s, p)' : p = QueueOf(d.kind)
    BY <1>0, <1>2, <1>q DEF ControlInv
  <2>2. ~Cleaning(s)' => ~closing'[s] /\ ~fresh'[s]
    BY <1>3 DEF Cleaning
  <2>3. pc'[s] # "found" /\ pc'[s] # "perform"
    BY <1>3
  <2> QED  BY <1>0, <1>1, <1>5, <2>1, <2>2, <2>3 DEF ControlInv
<1>9. ASSUME NEW t \in Sessions
      PROVE  InTxn(t)' => InTxn(t) /\ epoch'[t] = epoch[t] /\ held'[t] = held[t]
  <2>1. CASE t = s
    BY <1>5, <2>1
  <2>2. CASE t # s
    BY <1>0, <2>2 DEF Frame, Same, InTxn
  <2> QED  BY <2>1, <2>2
<1>10. MinimumInv(s)'
  <2>1. CASE closing'[s] \/ ~fresh'[s]
    BY <1>3, <2>1 DEF MinimumInv
  <2>2. CASE ~closing'[s] /\ fresh'[s]
    <3>1. ~closing[s] /\ perform'[s] = perform[s] /\ pc'[s] = "queue"
      BY <1>3, <2>2
    <3>2. perform[s] <= csn /\ \A t \in Sessions : InTxn(t) => perform[s] <= epoch[t]
      BY <1>0, <1>1, <3>1 DEF MinimumInv
    <3> QED  BY <1>1, <1>9, <3>1, <3>2 DEF MinimumInv
  <2> QED  BY <2>1, <2>2
<1>11. ASSUME NEW t \in Sessions
       PROVE  LimboInv(t)'
  <2>1. CASE t # s
    <3>1. limbo'[t] = limbo[t] /\ dels'[t] = dels[t]
      BY <1>0, <2>1 DEF Frame, Same
    <3> QED  BY <1>0, <1>1, <1>4, <1>n, <3>1, LimboSame
  <2>2. CASE t = s
    <3>1. /\ \A p \in {1, 2} : \A d \in Els(s, p) : ElementInv(d)'
          /\ \A p \in Queues : \A d \in Els(s, p) : d.csn <= csn'
          /\ \A d \in Els(s, 3) : d.sent # index'
          /\ \A x \in Marked(s) : x # index'
      BY <1>0, <1>1, <1>4, <1>n, LimboKept
    <3>2. \A p \in {1, 2} : \A d \in Els(s, p)' : ElementInv(d)'
      BY <1>2, <3>1
    <3>3. \A d \in Els(s, 3)' : d.csn <= csn' /\ d.sent # index'
      <4> TAKE d \in Els(s, 3)'
      <4>1. CASE d \in Els(s, 3)
        BY <1>q, <3>1, <4>1
      <4>2. CASE d \notin Els(s, 3)
        BY <1>1, <1>2, <1>n, <3>1, <4>2
      <4> QED  BY <4>1, <4>2
    <3>4. \A p \in Queues : \A d \in Els(s, p)' : d.csn <= csn'
      BY <1>2, <1>q, <3>1, <3>3
    <3> QED  BY <1>2, <2>2, <3>2, <3>3, <3>4 DEF LimboInv
  <2> QED  BY <2>1, <2>2
<1>12. \A t \in Sessions \ {s} : OpInv(t)'
  BY <1>0, <1>1, <1>4, <1>n, OpKept
<1>13. ASSUME NEW t \in Sessions
       PROVE  HeldInv(t)'
  <2> SUFFICES ASSUME InTxn(t)', held'[t] # Nobody
               PROVE  held'[t] \in used' /\ (held'[t] # index' => Owned(held[t], epoch[t])')
    BY DEF HeldInv
  <2>1. InTxn(t) /\ HeldInv(t) /\ epoch'[t] = epoch[t] /\ held'[t] = held[t] /\ epoch[t] <= csn
    BY <1>0, <1>9 DEF GcInv, SessionInv
  <2>2. held[t] \in used /\ (held[t] # index => Owned(held[t], epoch[t]))
    BY <2>1 DEF HeldInv
  <2>3. ASSUME held[t] # index
        PROVE  Owned(held[t], epoch[t])'
    <3>1. PICK u \in Sessions : \/ held[t] \in Marked(u)
                                \/ \E d \in Els(u, 3) : d.sent = held[t] /\ d.csn >= epoch[t]
      BY <2>2, <2>3 DEF Owned
    <3>2. CASE u # s
      <4>1. Els(u, 3)' = Els(u, 3) /\ Marked(u)' = Marked(u)
        BY <1>0, <3>2 DEF Frame, Same, Els, Marked
      <4> QED  BY <2>1, <3>1, <4>1 DEF Owned
    <3>3. CASE u = s /\ held[t] \in Marked(s)
      <4>1. PICK d \in Els(s, 3)' : d.sent = held[t] /\ d.csn = csn
        BY <1>2, <3>3
      <4>2. d.sent = held'[t] /\ d.csn >= epoch'[t]
        BY <1>n, <2>1, <4>1
      <4> QED  BY <4>2 DEF Owned
    <3>4. CASE u = s /\ held[t] \notin Marked(s)
      <4>1. PICK d \in Els(s, 3) : d.sent = held[t] /\ d.csn >= epoch[t]
        BY <3>1, <3>4
      <4>2. d \in Els(s, 3)' /\ d.sent = held'[t] /\ d.csn >= epoch'[t]
        BY <1>2, <2>1, <4>1
      <4> QED  BY <4>2 DEF Owned
    <3> QED  BY <3>2, <3>3, <3>4
  <2> QED  BY <1>1, <2>1, <2>2, <2>3
<1>14. ASSUME NEW y \in Sentinels
       PROVE  PoolInv(y)' /\ ChainInv(y)' /\ CoverInv(y)'
  <2>1. ChainInv(y)'
    BY <1>0, <1>4, <1>5, <1>n, ChainKept
  <2>2. PoolInv(y)
    BY DEF GcInv
  <2>3. PoolInv(y)'
    BY <1>1, <2>2 DEF PoolInv
  <2>4. Waiting(y)
    <3>1. \A d : Alike(d, d)
      BY DEF Alike
    <3>2. \A t \in Sessions : Pending(t)' \subseteq Pending(t)
      <4> TAKE t \in Sessions
      <4>1. CASE t = s
        BY <1>2, <1>3, <4>1 DEF Pending
      <4>2. CASE t # s
        BY <1>0, <4>2 DEF Pending, Els, Frame, Same
      <4> QED  BY <4>1, <4>2
    <3> QED  BY <3>1, <3>2 DEF Waiting
  <2>5. Inserters(y)' = Inserters(y)
    <3>1. \A t \in Sessions : pc'[t] = "open" <=> pc[t] = "open"
      BY <1>0, <1>1, <1>3 DEF Frame, Same
    <3> QED  BY <1>1, <3>1 DEF Inserters
  <2>6. refs'[y] - Cardinality(Inserters(y)') >= refs[y] - Cardinality(Inserters(y))
    <3>1. Cardinality(Inserters(y)) \in Nat /\ refs[y] \in Int
      BY <1>0, Numbers, InsertersFinite
    <3> QED  BY <1>1, <2>5, <3>1
  <2>7. CoverInv(y)'
    <3>1. rows'[y] = rows[y] /\ minCsn'[y] = minCsn[y] /\ tombs' = tombs
      BY <1>1
    <3> QED  BY <1>0, <2>4, <2>6, <3>1, CoverKept
  <2> QED  BY <2>1, <2>3, <2>7
<1>15. \A t \in Sessions : ControlInv(t)' /\ DtorInv(t)' /\ MinimumInv(t)' /\ OpInv(t)'
  BY <1>6, <1>7, <1>8, <1>10, <1>12
<1> QED  BY <1>0, <1>2, <1>11, <1>13, <1>14, <1>15 DEF GcInv

-----------------------------------------------------------------------------
(* The whole specification. *)

LEMMA InitGc == Init => GcInv
<1> SUFFICES ASSUME Init PROVE GcInv
  OBVIOUS
<1>0. EpochInv
  BY InitEpoch
<1>1. /\ MaxCsn \in Nat \ {0} /\ 1 \in Csn /\ 0 \in 0..MaxCsn /\ 0 \in 0..MaxCsn + 1
      /\ 1 \in Queues /\ NoScan \in ScanOf /\ Nobody \notin Sentinels
      /\ <<>> \in Seq(Element) /\ <<>> \in Seq(Sentinels) /\ "closed" \in PC
  BY GcAssumption DEF Csn, Queues, NoScan, ScanOf, PC
<1>2. GcTypes
  <2>1. limbo \in [Sessions -> [Queues -> Seq(Element)]] /\ dels \in [Sessions -> Seq(Sentinels)]
    BY <1>1 DEF Init
  <2>2. /\ closing \in [Sessions -> BOOLEAN] /\ fresh \in [Sessions -> BOOLEAN]
        /\ que \in [Sessions -> Queues] /\ scan \in [Sessions -> ScanOf]
        /\ cur \in [Sessions -> DtorElement \cup {NoElement}]
    BY <1>1 DEF Init
  <2>3. /\ refs \in [Sentinels -> Int] /\ gcRefs \in [Sentinels -> Int]
        /\ minCsn \in [Sentinels -> 0..MaxCsn]
        /\ epoch \in [Sessions -> 0..MaxCsn] /\ snap \in [Sessions -> 0..MaxCsn]
        /\ mine \in [Sessions -> 0..MaxCsn] /\ perform \in [Sessions -> 0..MaxCsn + 1]
    BY <1>1 DEF Init
  <2>4. /\ csn \in Csn /\ active \in 0..MaxCsn /\ glock \in Sessions \cup {Nobody}
        /\ index \in Sentinels \cup {Nobody} /\ used \in SUBSET Sentinels /\ tombs \in SUBSET Csn
        /\ rows \in [Sentinels -> SUBSET Csn] /\ hist \in [Sentinels -> SUBSET Csn]
        /\ pc \in [Sessions -> PC] /\ held \in [Sessions -> Sentinels \cup {Nobody}]
        /\ op \in [Sessions -> {"none", "update", "delete", "insert", "upgrade"}]
    BY <1>1 DEF Init
  <2> QED  BY <2>1, <2>2, <2>3, <2>4 DEF GcTypes
<1>3. \A t \in Sessions : Marked(t) = {} /\ \A q \in Queues : Els(t, q) = {}
  <2>1. Range(<<>>) = {}
    BY DEF Range
  <2> QED  BY <2>1 DEF Init, Marked, Els
<1>4. \A t \in Sessions : /\ pc[t] = "closed" /\ op[t] = "none" /\ mine[t] = 0 /\ ~closing[t]
                          /\ ~fresh[t]
  BY DEF Init
<1>q. 1 \in Queues /\ 2 \in Queues /\ 3 \in Queues
  BY DEF Queues
<1>5. ASSUME NEW t \in Sessions
      PROVE  /\ ControlInv(t) /\ LimboInv(t) /\ DtorInv(t) /\ OpInv(t)
             /\ HeldInv(t) /\ MinimumInv(t)
  <2>1. ControlInv(t) /\ LimboInv(t)
    BY <1>3, <1>4, <1>q DEF ControlInv, LimboInv, Cleaning
  <2>2. DtorInv(t) /\ OpInv(t) /\ HeldInv(t) /\ MinimumInv(t)
    BY <1>4 DEF DtorInv, OpInv, Inserting, HeldInv, MinimumInv, InTxn
  <2> QED  BY <2>1, <2>2
<1>6. ASSUME NEW x \in Sentinels
      PROVE  CountInv(x) /\ PoolInv(x) /\ ChainInv(x) /\ CoverInv(x)
  <2>0. /\ x \notin used /\ x # index /\ rows[x] = {} /\ hist[x] = {} /\ minCsn[x] = 0
        /\ gcRefs[x] = 0 /\ refs[x] = 0 /\ csn = 1
    BY <1>1 DEF Init
  <2>1. CountInv(x)
    <3>1. ListsOk
      BY <1>2, ListsAre
    <3>2. ASSUME NEW p, p \in Places(Lists, x)
          PROVE  FALSE
      <4>0. Lists \in [Sessions \X (0..3) -> Seq(Sentinels)]
        BY <3>1 DEF ListsOk
      <4>1. PICK k \in Sessions \X (0..3) : \E i \in 1..Len(Lists[k]) : p = <<k, i>> /\ Lists[k][i] = x
        BY <3>2, <4>0, PlaceIs
      <4>2. PICK t \in Sessions, q \in 0..3 : k = <<t, q>>
        OBVIOUS
      <4>3. CASE q = 0
        <5>1. Lists[k] = <<>>
          BY <3>1, <4>2, <4>3 DEF ListsOk, Init
        <5> QED  BY <4>1, <5>1
      <4>4. CASE q # 0
        <5>1. q \in Queues
          BY <4>4 DEF Queues
        <5>2. limbo[t][q] = <<>>
          BY <5>1 DEF Init
        <5>3. Len(Lists[k]) = 0
          BY <3>1, <4>2, <5>1, <5>2 DEF ListsOk
        <5> QED  BY <4>1, <5>3
      <4> QED  BY <4>3, <4>4
    <3>3. Places(Lists, x) = {}
      BY <3>2
    <3> QED  BY <2>0, <3>3, FS_EmptySet DEF CountInv
  <2>2. PoolInv(x) /\ ChainInv(x)
    BY <1>4, <2>0 DEF PoolInv, ChainInv, InTxn
  <2>3. Top(x) = 0 /\ Live(x) = 0 /\ Owed(x) = {} /\ Inserters(x) = {}
    <3>1. NewestOf({}) = 0
      BY DEF NewestOf
    <3>2. Top(x) = 0
      BY <2>0, <3>1 DEF Top
    <3> QED  BY <1>4, <2>0, <3>2 DEF Live, Owed, Inserters
  <2>4. \A t \in Sessions : Pending(t) = {}
    BY <1>3, <1>4, <1>q DEF Pending
  <2>5. ~Claimed(x)
    BY <2>4 DEF Claimed
  <2>6. Cardinality(Owed(x)) = 0 /\ Cardinality(Inserters(x)) = 0
    BY <2>3, FS_EmptySet
  <2>7. CoverInv(x)
    BY <2>0, <2>3, <2>4, <2>5, <2>6 DEF CoverInv
  <2> QED  BY <2>1, <2>2, <2>7
<1> QED  BY <1>0, <1>2, <1>5, <1>6 DEF GcInv

\* A step that changes nothing.
LEMMA StutterGc ==
    ASSUME GcInv, UNCHANGED vars, EpochInv'
    PROVE  GcInv'
<1>0. UNCHANGED <<csn, active, glock, index, used, refs, gcRefs, minCsn, rows, tombs, hist, pc,
                  epoch, snap, held, op, mine, limbo, dels, closing, que, perform, fresh, scan, cur>>
  BY DEF vars, sentVars, txnVars, gcVars
<1>1. GcTypes'
  BY <1>0 DEF GcInv, GcTypes
<1>2. \A t \in Sessions : /\ Marked(t)' = Marked(t) /\ Pending(t)' = Pending(t)
                          /\ \A q \in Queues : Els(t, q)' = Els(t, q)
  BY <1>0 DEF Marked, Els, Pending
<1>q. 1 \in Queues /\ 2 \in Queues /\ 3 \in Queues
  BY DEF Queues
<1>3. ASSUME NEW t \in Sessions
      PROVE  /\ ControlInv(t)' /\ LimboInv(t)' /\ DtorInv(t)' /\ OpInv(t)'
             /\ HeldInv(t)' /\ MinimumInv(t)'
  <2>0. /\ ControlInv(t) /\ LimboInv(t) /\ DtorInv(t) /\ OpInv(t)
        /\ HeldInv(t) /\ MinimumInv(t)
    BY DEF GcInv
  <2>1. ControlInv(t)'
    BY <1>0, <1>2, <2>0 DEF ControlInv, InTxn, Cleaning
  <2>2. LimboInv(t)'
    BY <1>0, <1>2, <1>q, <2>0 DEF LimboInv, ElementInv
  <2>3. DtorInv(t)' /\ OpInv(t)'
    BY <1>0, <2>0 DEF DtorInv, ElementInv, OpInv, Inserting
  <2>4. HeldInv(t)'
    BY <1>0, <1>2, <1>q, <2>0 DEF HeldInv, Owned, InTxn
  <2>5. MinimumInv(t)'
    BY <1>0, <1>2, <1>q, <2>0 DEF MinimumInv, Apart, InTxn
  <2> QED  BY <2>1, <2>2, <2>3, <2>4, <2>5
<1>4. ASSUME NEW x \in Sentinels
      PROVE  CountInv(x)' /\ PoolInv(x)' /\ ChainInv(x)' /\ CoverInv(x)'
  <2>0. CountInv(x) /\ PoolInv(x) /\ ChainInv(x) /\ CoverInv(x)
    BY DEF GcInv
  <2>1. CountInv(x)' /\ PoolInv(x)' /\ ChainInv(x)'
    BY <1>0, <2>0, CountKept DEF PoolInv, ChainInv, Shows, InTxn
  <2>2. /\ Inserters(x)' = Inserters(x) /\ Live(x)' = Live(x) /\ Owed(x)' = Owed(x)
        /\ \A e : Claim(e, x)' <=> Claim(e, x)
    BY <1>0 DEF Inserters, Live, Owed, Claim, Top
  <2>3. Claimed(x)' <=> Claimed(x)
    BY <1>2, <2>2 DEF Claimed
  <2>4. CoverInv(x)'
    BY <1>0, <1>2, <2>0, <2>2, <2>3 DEF CoverInv
  <2> QED  BY <2>1, <2>4
<1> QED  BY <1>1, <1>3, <1>4 DEF GcInv

\* Every step keeps the invariant, when no thread is delayed in a window.
LEMMA NextGc ==
    ASSUME GcInv, [Next]_vars, Delays = {}
    PROVE  GcInv'
<1>0. EpochInv'
  BY NextEpoch DEF GcInv
<1>1. CASE UNCHANGED vars
  BY <1>0, <1>1, StutterGc
<1>2. ASSUME NEW s \in Sessions, MayStep(s),
             AddToGcList(s) \/ GcCleanAll(s) \/ Transaction(s) \/ Collector(s)
      PROVE  GcInv'
  <2>1. Alone(s)
    <3>1. "epoch" \in DOMAIN Window \ Delays /\ "dtor" \in DOMAIN Window \ Delays
      BY DEF Window
    <3>2. Window["epoch"] = {"snap", "found"} /\ Window["dtor"] = {"dtor"}
      BY DEF Window
    <3> QED  BY <1>2, <3>1, <3>2 DEF MayStep, Alone
  <2>2. CASE Transaction(s)
    BY <1>0, <2>1, <2>2, TransactionGc, InsertGc, CommitGc, RollbackGc DEF Transaction
  <2>3. CASE Collector(s)
    BY <1>0, <2>1, <2>3, MaintenanceGc, QueueGc, CleanGc, DtorGc, LeaveGc DEF Collector
  <2>4. CASE AddToGcList(s) \/ GcCleanAll(s)
    BY <1>0, <2>1, <2>4, QueueGc
  <2> QED  BY <1>2, <2>2, <2>3, <2>4
<1> QED  BY <1>1, <1>2 DEF Next

LEMMA GcAlways == Delays = {} /\ Spec => []GcInv
<1>1. ASSUME Delays = {}
      PROVE  Spec => []GcInv
  <2>1. GcInv /\ [Next]_vars => GcInv'
    BY <1>1, NextGc
  <2> QED  BY <2>1, InitGc, PTL DEF Spec
<1> QED  BY <1>1

-----------------------------------------------------------------------------
(* The theorems.  None of them bounds the sessions, the sentinels or the   *)
(* CSNs; Delays = {} says that the windows of the runs gc_epoch and        *)
(* gc_dtor, which do break these properties, are not entered.              *)

\* The counts of a sentinel do not fall below zero.
LEMMA CountsNat ==
    ASSUME GcInv, NEW x \in Sentinels
    PROVE  /\ refs[x] \in Nat /\ gcRefs[x] \in Nat
           /\ refs[x] >= Cardinality(Inserters(x)) + Live(x) + Cardinality(Owed(x))
<1>0. GcTypes /\ CoverInv(x) /\ CountInv(x)
  BY DEF GcInv
<1>1. /\ Cardinality(Inserters(x)) \in Nat /\ Cardinality(Owed(x)) \in Nat
      /\ Live(x) \in {0, 1} /\ refs[x] \in Int
  BY <1>0, InsertersFinite, OwedFinite, Numbers DEF Live
<1>2. refs[x] >= Cardinality(Inserters(x)) + Live(x) + Cardinality(Owed(x))
                   + (IF Claimed(x) THEN 1 ELSE 0)
  BY <1>0 DEF CoverInv
<1>3. /\ refs[x] \in Nat
      /\ refs[x] >= Cardinality(Inserters(x)) + Live(x) + Cardinality(Owed(x))
  <2>1. CASE Claimed(x)
    BY <1>1, <1>2, <2>1
  <2>2. CASE ~Claimed(x)
    BY <1>1, <1>2, <2>2
  <2> QED  BY <2>1, <2>2
<1>4. gcRefs[x] \in Nat
  <2>1. Lists \in [Sessions \X (0..3) -> Seq(Sentinels)]
    BY <1>0, ListsType
  <2>2. Cardinality(Places(Lists, x)) \in Nat
    BY <2>1, KeysFinite, PlacesFinite
  <2> QED  BY <1>0, <2>2 DEF CountInv
<1> QED  BY <1>3, <1>4

\* The variables keep their types: the two counts of a sentinel, which RefCountUpdate and
\* GcSharedInfo take down from several sessions, do not fall below zero.
THEOREM GcTypeCorrect == Delays = {} /\ Spec => []TypeOK
<1>1. ASSUME GcInv
      PROVE  TypeOK
  <2>0. GcTypes
    BY <1>1 DEF GcInv
  <2>1. refs \in [Sentinels -> Nat] /\ gcRefs \in [Sentinels -> Nat]
    <3>1. refs \in [Sentinels -> Int] /\ gcRefs \in [Sentinels -> Int]
      BY <2>0 DEF GcTypes
    <3>2. \A x \in Sentinels : refs[x] \in Nat /\ gcRefs[x] \in Nat
      BY <1>1, CountsNat
    <3> QED  BY <3>1, <3>2
  <2>2. \A s \in Sessions : scan[s].left \subseteq Sessions /\ scan[s].min \in 0..MaxCsn
    <3> TAKE s \in Sessions
    <3>1. scan[s] \in ScanOf
      BY <2>0 DEF GcTypes
    <3> QED  BY <3>1 DEF ScanOf
  <2> QED  BY <2>0, <2>1, <2>2 DEF GcTypes, TypeOK
<1> QED  BY <1>1, GcAlways, PTL

\* No session reclaims the sentinel that a transaction has looked up, nor the row of the
\* chain that its snapshot shows (GetVisibleRowVersion follows the pointers; CleanUntil,
\* RowVersionDtor and DeleteRowDtor of other sessions free what they point to).
THEOREM VisibleRowsStay == Delays = {} /\ Spec => []VisibleRowKept
<1>1. ASSUME GcInv
      PROVE  VisibleRowKept
  <2> SUFFICES ASSUME NEW s \in Sessions, InTxn(s), held[s] # Nobody
               PROVE  /\ held[s] \in used
                      /\ LET r == NewestOf({q \in hist[held[s]] : q < snap[s]})
                         IN r # 0 => r \in rows[held[s]]
    BY DEF VisibleRowKept
  <2> DEFINE x == held[s]
             S == {q \in hist[x] : q < snap[s]}
  <2>0. GcTypes /\ HeldInv(s)
    BY <1>1 DEF GcInv
  <2>1. x \in used /\ x \in Sentinels
    <3>1. held[s] \in Sentinels \cup {Nobody}
      BY <2>0 DEF GcTypes
    <3> QED  BY <2>0, <3>1 DEF HeldInv
  <2>2. ChainInv(x) /\ hist[x] \in SUBSET Csn
    BY <1>1, <2>0, <2>1, Numbers DEF GcInv
  <2>3. ASSUME NewestOf(S) # 0
        PROVE  NewestOf(S) \in rows[x]
    <3>1. S \in SUBSET Csn
      BY <2>2
    <3> DEFINE r == NewestOf(S)
    <3>2. r \in S /\ \A q \in S : q <= r
      <4> HIDE DEF S
      <4> QED  BY <2>3, <3>1, NewestIs
    <3> HIDE DEF r
    <3>3. Shows(x, r, snap[s]) /\ r \in hist[x]
      BY <3>2 DEF Shows
    <3>4. r \in rows[x]
      BY <2>2, <3>3 DEF ChainInv
    <3> QED  BY <3>4 DEF r
  <2> QED  BY <2>1, <2>3
<1> QED  BY <1>1, GcAlways, PTL

\* GcSharedInfo counts exactly the elements of all sessions that refer to a sentinel
\* (GcRecordObject, GCRemoveRow, RegisterDeletedSentinels, the callbacks), and a sentinel
\* out of the index is in some session's lists.
THEOREM CountIsExact == Delays = {} /\ Spec => []GcCountExact
<1>1. ASSUME GcInv
      PROVE  GcCountExact
  <2>1. ASSUME NEW x \in used
        PROVE  gcRefs[x] = Cardinality(Places(Lists, x)) /\ (x # index => gcRefs[x] > 0)
    <3>1. x \in Sentinels
      BY <1>1 DEF GcInv, GcTypes
    <3>2. CountInv(x) /\ PoolInv(x)
      BY <1>1, <3>1 DEF GcInv
    <3> QED  BY <3>2 DEF CountInv, PoolInv
  <2> QED  BY <2>1 DEF GcCountExact
<1> QED  BY <1>1, GcAlways, PTL

\* The count of a sentinel covers the inserts under way, the row on top and the tombstones
\* to be counted off: GCRemoveRow and RollbackInsert take the sentinel out of the index, at
\* zero, when nobody relies on it.
THEOREM CountIsEnough == Delays = {} /\ Spec => []CountCovers
<1>1. ASSUME GcInv
      PROVE  CountCovers
  <2>1. ASSUME NEW x \in used
        PROVE  refs[x] >= Cardinality(Inserters(x)) + Live(x) + Cardinality(Owed(x))
    <3>1. x \in Sentinels
      BY <1>1 DEF GcInv, GcTypes
    <3> QED  BY <1>1, <3>1, CountsNat
  <2> QED  BY <2>1 DEF CountCovers, Live, Owed
<1> QED  BY <1>1, GcAlways, PTL

\* The clean-up of an element that no newer clean-up has overtaken finds its row in place:
\* RowVersionDtor and DeleteRowDtor follow the pointer kept in the element.
THEOREM LimboRowsLive == Delays = {} /\ Spec => []LimboRowLive
<1>1. ASSUME GcInv
      PROVE  LimboRowLive
  <2> SUFFICES ASSUME NEW s \in Sessions, NEW e \in Elements(s), e.kind # "sentinel"
               PROVE  e.csn <= minCsn[e.sent] \/ e.row \in rows[e.sent]
    BY DEF LimboRowLive
  <2>0. GcTypes /\ ControlInv(s) /\ LimboInv(s)
    BY <1>1 DEF GcInv
  <2>1. PICK q \in Queues : e \in Els(s, q)
    BY DEF Elements, Els, Range
  <2>2. e \in Element /\ q = QueueOf(e.kind)
    BY <2>0, <2>1, ElsType DEF ControlInv
  <2>3. q \in {1, 2}
    BY <2>2, ElementIs DEF QueueOf
  <2>4. ElementInv(e)
    BY <2>0, <2>1, <2>3 DEF LimboInv
  <2> QED  BY <2>4 DEF ElementInv
<1> QED  BY <1>1, GcAlways, PTL

\* RollbackInsert gives up the last count of a sentinel only if nothing was ever committed
\* on it ("We can never reach here").
THEOREM RollbackIsClean == Delays = {} /\ Spec => []RollbackFindsDirty
<1>1. ASSUME GcInv
      PROVE  RollbackFindsDirty
  <2> SUFFICES ASSUME NEW s \in Sessions, pc[s] = "open", op[s] = "insert", refs[held[s]] = 1,
                      NEW r \in hist[held[s]]
               PROVE  FALSE
    BY DEF RollbackFindsDirty
  <2> DEFINE x == held[s]
  <2>0. GcTypes /\ OpInv(s) /\ InTxn(s) /\ Inserting(s)
    BY <1>1 DEF GcInv, InTxn, Inserting
  <2>1. x \in Sentinels /\ Live(x) = 0 /\ Owed(x) = {}
    BY <1>1, <2>0, InserterIs
  <2>2. ChainInv(x)
    BY <1>1, <2>1 DEF GcInv
  <2>3. mine[s] = 0 /\ \A q \in hist[x] : q > 0 => q >= epoch[s]
    BY <2>0 DEF OpInv
  <2>4. minCsn[x] < epoch[s] /\ rows[x] \subseteq hist[x]
    BY <2>0, <2>2 DEF ChainInv
  <2> HIDE DEF x
  <2>5. Top(x) \in rows[x] /\ Top(x) \in Nat \ {0}
    BY <1>1, <2>1, TopNewest DEF x
  <2>6. Top(x) > minCsn[x]
    <3>1. epoch[s] \in Nat /\ minCsn[x] \in Nat
      BY <2>0, <2>1, Numbers
    <3>2. Top(x) >= epoch[s]
      BY <2>3, <2>4, <2>5
    <3> QED  BY <2>4, <2>5, <3>1, <3>2
  <2>7. Top(x) \in tombs
    BY <2>1, <2>5 DEF Live
  <2>8. Top(x) \in Owed(x)
    BY <2>5, <2>6, <2>7 DEF Owed
  <2> QED  BY <2>1, <2>8
<1> QED  BY <1>1, GcAlways, PTL

=============================================================================
