---------------------- MODULE MotCheckpointDataProofs ----------------------
(***************************************************************************)
(* What a MOT checkpoint writes and what a recovery from it rebuilds, for  *)
(* any number of sessions, rows, commits and checkpoints, as long as no    *)
(* checkpoint is aborted and no commit fails after it copied its rows      *)
(* (Faultless), and no session is held up in EndCommit until a checkpoint  *)
(* is over (PromptSpec).  Each of the three breaks the properties, see the *)
(* README.                                                                 *)
(*                                                                         *)
(* The argument, row by row.  Cut is the redo point: the end of the log    *)
(* while the redo lock is held, m_lsn after that.  When CAPTURE begins no  *)
(* commit is in progress, so the newest row of every sentinel is the row   *)
(* at the cut.  Until the worker visits a row it is either not written     *)
(* since (Untouched: a copy, if there is one, belongs to a commit that     *)
(* still owns the lock) or written since (Kept: marked, and the copy is    *)
(* the row at the cut).  Once visited it is marked and has no copy         *)
(* (Captured), and stays so until the meaning of the mark flips.           *)
(***************************************************************************)
EXTENDS MotCheckpointPhaseProofs, WellFoundedInduction

Faultless == MaxAborts = 0 /\ MaxFailures = 0

\* The redo point of the checkpoint in progress.
Cut == IF cp = "snapshot" THEN Len(log) ELSE lsn

Touches(i, k) == log[i].kind = "commit" /\ k \in DOMAIN log[i].ops

\* Position p, or 0 for none, is the last of the first n records that commits row k.
LastAt(n, k, p) ==
    /\ p = 0 \/ (p \in 1..n /\ Touches(p, k))
    /\ \A i \in 1..n : Touches(i, k) => i <= p

\* The version of a row, 0 for a tombstone.
Version(k) == IF main[k].del THEN 0 ELSE main[k].pos

\* Session t is going to write k, and its record is or is not in the log.
Writing(t, k) == pc[t] \in {"validated", "prepared", "logged"} /\ k \in DOMAIN ops[t]
Pending(t, k) == pc[t] = "logged" /\ k \in DOMAIN ops[t]

Holding == {"validated", "prepared", "logged", "applied", "test", "move", "release"}

-----------------------------------------------------------------------------
(* The inductive invariant. *)

\* What the faults that are left out would do.
Orderly ==
    /\ Faultless
    /\ left \in [commits : Nat, checkpoints : Nat, aborts : Nat, failures : Nat]
    /\ left.aborts = 0 /\ left.failures = 0
    /\ cp \notin {"aborting", "abortRest", "panic"}
    /\ ~errorSet /\ ~walHeld
    /\ redoLock = (cp = "snapshot") /\ recLock = (cp = "snapshot")
    /\ phase = "COMPLETE" => todo = {}
    /\ cp \in {"snapshot", "ready"} => todo = Key

\* A write set is locked, its writes are valid until they are applied, and the record of
\* a session is where rec says.
Session(t) ==
    /\ \A k \in DOMAIN ops[t] : owner[k] = t /\ pc[t] \in Holding
    /\ \A k \in Key : Writing(t, k) => Applicable(ops[t][k], main[k])
    /\ pc[t] \in {"prepared", "logged"} => rec[t] \in 1..Len(log)
    /\ pc[t] = "logged" => log[rec[t]].kind = "commit" /\ log[rec[t]].ops = ops[t]
    /\ pc[t] = "prepared" => rec[t] > lsn /\ rec[t] > ctl.lsn
    /\ pc[t] \in {"prepared", "logged"} => cp # "snapshot"
    /\ InCommit(t) /\ tphase[t] = "COMPLETE" =>
          nabit[t] = IF phase = "COMPLETE" THEN ~avail ELSE avail

\* The newest row is the one the log says, but for a commit that is yet to be applied.
NewestRow(k) ==
    /\ \A t \in Txn : Pending(t, k) =>
          LastAt(rec[t] - 1, k, main[k].pos) /\ LastAt(Len(log), k, rec[t])
    /\ (\A t \in Txn : ~Pending(t, k)) => LastAt(Len(log), k, main[k].pos)
    /\ main[k].pos = 0 => main[k].del
    /\ main[k].pos # 0 => main[k].del = (log[main[k].pos].ops[k] = "DEL")

Reset(k) == stable[k] = 0 /\ ~preAlloc[k] /\ (~main[k].del => status[k] = ~avail)

Captured(k) == stable[k] = 0 /\ ~preAlloc[k] /\ (~main[k].del => status[k] = avail)

Untouched(k) ==
    /\ Version(k) = Replay(Cut, k)
    /\ ~main[k].del => status[k] = ~avail
    /\ \/ /\ stable[k] = 0 /\ ~preAlloc[k]
          /\ \A t \in Txn : Writing(t, k) => ops[t][k] = "INS"
       \/ /\ stable[k] = main[k].pos /\ preAlloc[k] /\ ~main[k].del
          /\ \E t \in Txn : Writing(t, k)

Kept(k) == status[k] = avail /\ stable[k] = Replay(Cut, k) /\ ~preAlloc[k]

RowState(k) ==
    /\ phase \in {"REST", "PREPARE", "RESOLVE"} => Reset(k)
    /\ phase \in {"CAPTURE", "COMPLETE"} /\ k \notin todo => Captured(k)
    /\ phase = "CAPTURE" /\ k \in todo => Untouched(k) \/ Kept(k)

\* A record after a redo point does not take its data from before it.
DataAfter(point) ==
    /\ point <= Len(log)
    /\ \A i \in 1..Len(log) : i > point /\ log[i].kind = "commit" => log[i].data > point

\* The files: the rows visited so far, and the checkpoint the control file names.
Files ==
    /\ \A i \in DOMAIN dirs : i \in 1..id
    /\ ctl.id <= id
    /\ cp # "idle" => id \in DOMAIN dirs
    /\ cp \in {"preparing", "snapshot", "ready", "capturing", "end", "control"} => ctl.id < id
    /\ cp = "remove" => ctl.id = id
    /\ cp = "control" => dirs[id].end
    /\ cp \in {"capturing", "end", "control", "remove"} =>
          \A k \in Key \ todo : dirs[id].image[k] = Replay(lsn, k)
    /\ ctl.id = 0 => ctl.lsn = 0
    /\ ctl.id # 0 => /\ ctl.id \in DOMAIN dirs /\ dirs[ctl.id].end
                     /\ \A k \in Key : dirs[ctl.id].image[k] = Replay(ctl.lsn, k)

DataInv ==
    /\ PhaseInv
    /\ TypeOK
    /\ log \in Seq(Record)
    /\ Orderly
    /\ \A t \in Txn : Session(t)
    /\ \A k \in Key : NewestRow(k)
    /\ \A k \in Key : RowState(k)
    /\ DataAfter(lsn) /\ DataAfter(ctl.lsn)
    /\ Files

-----------------------------------------------------------------------------
(* Write sets, the log and its replay. *)

\* A write set is a partial function on the rows.
LEMMA WritesAre ==
    /\ NoWrites \in Writes /\ DOMAIN NoWrites = {}
    /\ \A w \in Writes : DOMAIN w \subseteq Key /\ \A k \in DOMAIN w : w[k] \in OpKind
<1>1. DOMAIN NoWrites = {} /\ NoWrites \in [{} -> OpKind]
    BY DEF NoWrites
<1>2. \A S \in SUBSET Key : \A w \in [S -> OpKind] : w \in Writes
    BY DEF Writes
<1>3. ASSUME NEW w \in Writes
      PROVE  DOMAIN w \subseteq Key /\ \A k \in DOMAIN w : w[k] \in OpKind
    <2>1. PICK S \in SUBSET Key : w \in [S -> OpKind]
        BY <1>3 DEF Writes
    <2> QED
        BY <2>1
<1> QED
    BY <1>1, <1>2, <1>3

\* A set of natural numbers has a least element.
LEMMA NatHasMin ==
    ASSUME NEW S \in SUBSET Nat, S # {}
    PROVE  \E m \in S : \A x \in S : m <= x
<1> DEFINE R == {p \in Nat \X Nat : p[1] < p[2]}
<1>1. R = OpToRel(<, Nat)
    BY DEF OpToRel
<1>2. IsWellFoundedOn(R, Nat)
    BY <1>1, NatLessThanWellFounded
<1>3. PICK m \in S : \A y \in S : ~(<<y, m>> \in R)
    BY <1>2, WFMin
<1>4. \A y \in S : m <= y
    <2> TAKE y \in S
    <2>1. y \in Nat /\ m \in Nat
        BY <1>3
    <2>2. ~(y < m)
        BY <1>3, <2>1
    <2> QED
        BY <2>1, <2>2
<1> QED
    BY <1>4

\* A bounded one has a greatest: the least of its bounds.
LEMMA MaxOfBounded ==
    ASSUME NEW S \in SUBSET Nat, S # {}, NEW n \in Nat, \A x \in S : x <= n
    PROVE  Max(S) \in S /\ \A x \in S : x <= Max(S)
<1> DEFINE B == {i \in Nat : \A x \in S : x <= i}
<1>1. n \in B /\ B \in SUBSET Nat
    OBVIOUS
<1>2. PICK m \in B : \A y \in B : m <= y
    BY <1>1, NatHasMin
<1>3. m \in S
    <2> SUFFICES ASSUME m \notin S PROVE FALSE
        OBVIOUS
    <2>1. m \in Nat /\ \A x \in S : x \in Nat /\ x < m
        BY <1>2
    <2>2. PICK x \in S : TRUE
        OBVIOUS
    <2>3. m - 1 \in B
        BY <2>1, <2>2
    <2> HIDE DEF B
    <2> QED
        BY <1>2, <2>1, <2>3
<1> QED
    BY <1>2, <1>3 DEF Max

\* The last record that commits a row gives its version.
LEMMA ReplayOfLast ==
    ASSUME NEW n \in Nat, NEW k, NEW p, LastAt(n, k, p)
    PROVE  Replay(n, k) = IF p = 0 THEN 0 ELSE IF log[p].ops[k] = "DEL" THEN 0 ELSE p
<1> DEFINE touching == {i \in 1..n : log[i].kind = "commit" /\ k \in DOMAIN log[i].ops}
<1>1. Replay(n, k) = IF touching = {} THEN 0
                     ELSE IF log[Max(touching)].ops[k] = "DEL" THEN 0 ELSE Max(touching)
    BY DEF Replay, RowFrom
<1>2. CASE p = 0
    <2>1. touching = {}
        BY <1>2 DEF LastAt, Touches
    <2> QED
        BY <1>1, <1>2, <2>1
<1>3. CASE p # 0
    <2>1. p \in touching /\ \A i \in touching : i <= p
        BY <1>3 DEF LastAt, Touches
    <2>2. Max(touching) = p
        BY <2>1 DEF Max
    <2>3. touching # {}
        BY <2>1
    <2> HIDE DEF touching
    <2> QED
        BY <1>1, <1>3, <2>2, <2>3
<1> QED
    BY <1>2, <1>3

\* The log only grows.
LogGrows == log' = log \/ \E r \in Record : log' = Append(log, r)

\* A growing log keeps the records it has.
LEMMA LogKeeps ==
    ASSUME log \in Seq(Record), LogGrows
    PROVE  /\ log' \in Seq(Record) /\ Len(log) \in Nat /\ Len(log') \in Nat
           /\ Len(log) <= Len(log')
           /\ \A i \in 1..Len(log) : log'[i] = log[i]
BY DEF LogGrows

\* What was committed up to a point stays.
LEMMA ReplayKeeps ==
    ASSUME log \in Seq(Record), LogGrows, NEW n \in Nat, n <= Len(log), NEW k
    PROVE  Replay(n, k)' = Replay(n, k)
<1>1. \A i \in 1..n : log'[i] = log[i]
    BY LogKeeps
<1> DEFINE touching == {i \in 1..n : log[i].kind = "commit" /\ k \in DOMAIN log[i].ops}
           after == {i \in 1..n : log'[i].kind = "commit" /\ k \in DOMAIN log'[i].ops}
<1>2. after = touching
    BY <1>1
<1>3. Replay(n, k) = IF touching = {} THEN 0
                     ELSE IF log[Max(touching)].ops[k] = "DEL" THEN 0 ELSE Max(touching)
    BY DEF Replay, RowFrom
<1>4. Replay(n, k)' = IF after = {} THEN 0
                      ELSE IF log'[Max(after)].ops[k] = "DEL" THEN 0 ELSE Max(after)
    BY DEF Replay, RowFrom
<1>5. CASE touching = {}
    BY <1>2, <1>3, <1>4, <1>5
<1>6. CASE touching # {}
    <2>1. touching \in SUBSET Nat /\ \A i \in touching : i <= n
        OBVIOUS
    <2>2. Max(touching) \in touching
        BY <1>6, <2>1, MaxOfBounded
    <2>3. log'[Max(touching)] = log[Max(touching)]
        BY <1>1, <2>2
    <2> HIDE DEF touching, after
    <2> QED
        BY <1>2, <1>3, <1>4, <2>3
<1> QED
    BY <1>5, <1>6

-----------------------------------------------------------------------------
(* What a step leaves alone. *)

\* The parts of TypeOK the proofs use by themselves.
LEMMA Types ==
    ASSUME DataInv
    PROVE  /\ Len(log) \in Nat /\ lsn \in Nat /\ ctl.lsn \in Nat /\ Cut \in Nat
           /\ lsn <= Len(log) /\ ctl.lsn <= Len(log) /\ Cut <= Len(log)
           /\ pc \in [Txn -> PC] /\ ops \in [Txn -> Writes] /\ rec \in [Txn -> Nat]
           /\ main \in [Key -> RowVersion] /\ avail \in BOOLEAN
           /\ \A k \in Key : main[k].pos \in Nat /\ main[k].del \in BOOLEAN
<1>1. Len(log) \in Nat
    BY DEF DataInv
<1>2. lsn \in Nat /\ ctl \in [id : Nat, lsn : Nat]
    BY DEF DataInv, TypeOK
<1>3. lsn <= Len(log) /\ ctl.lsn <= Len(log)
    BY DEF DataInv, DataAfter
<1>4. /\ pc \in [Txn -> PC] /\ ops \in [Txn -> Writes] /\ rec \in [Txn -> Nat]
      /\ main \in [Key -> RowVersion] /\ avail \in BOOLEAN
    BY DEF DataInv, TypeOK
<1> QED
    BY <1>1, <1>2, <1>3, <1>4 DEF Cut, RowVersion

\* A row nobody touches keeps its state.
LEMMA RowKeeps ==
    ASSUME DataInv, LogGrows, NEW k \in Key,
           UNCHANGED <<phase, avail, cp, todo, lsn>>,
           cp = "snapshot" => log' = log,
           main'[k] = main[k], status'[k] = status[k],
           stable'[k] = stable[k], preAlloc'[k] = preAlloc[k],
           \A u \in Txn : Writing(u, k)' = Writing(u, k),
           \A u \in Txn : Writing(u, k) => ops'[u][k] = ops[u][k]
    PROVE  RowState(k)'
<1>1. RowState(k)
    BY DEF DataInv
<1>2. Cut' = Cut
    BY DEF Cut
<1>3. Replay(Cut, k)' = Replay(Cut, k)
    <2>1. PICK n \in Nat : n = Cut /\ n <= Len(log)
        BY Types
    <2>2. Replay(Cut, k)' = Replay(n, k)'
        BY <1>2, <2>1 DEF Replay, RowFrom
    <2>3. Replay(n, k)' = Replay(n, k)
        BY <2>1, ReplayKeeps DEF DataInv
    <2> QED
        BY <2>1, <2>2, <2>3
<1>4. Version(k)' = Version(k)
    BY DEF Version
<1>5. Reset(k) => Reset(k)'
    BY DEF Reset
<1>6. Captured(k) => Captured(k)'
    BY DEF Captured
<1>7. Untouched(k) => Untouched(k)'
    BY <1>3, <1>4 DEF Untouched
<1>8. Kept(k) => Kept(k)'
    BY <1>3 DEF Kept
<1> QED
    BY <1>1, <1>5, <1>6, <1>7, <1>8 DEF RowState

\* The row at a fixed redo point.
LEMMA PointKeeps ==
    ASSUME DataInv, LogGrows, NEW k
    PROVE  /\ lsn' = lsn => Replay(lsn, k)' = Replay(lsn, k)
           /\ ctl' = ctl => Replay(ctl.lsn, k)' = Replay(ctl.lsn, k)
<1>1. PICK n \in Nat : n = lsn /\ n <= Len(log)
    BY Types
<1>2. PICK m \in Nat : m = ctl.lsn /\ m <= Len(log)
    BY Types
<1>3. Replay(n, k)' = Replay(n, k) /\ Replay(m, k)' = Replay(m, k)
    BY <1>1, <1>2, ReplayKeeps DEF DataInv
<1>4. lsn' = lsn => Replay(lsn, k)' = Replay(n, k)'
    BY <1>1 DEF Replay, RowFrom
<1>5. ctl' = ctl => Replay(ctl.lsn, k)' = Replay(m, k)'
    BY <1>2 DEF Replay, RowFrom
<1> QED
    BY <1>1, <1>2, <1>3, <1>4, <1>5

\* The last record that commits a row stays the last until another one is written.
LEMMA LastKeeps ==
    ASSUME log \in Seq(Record), LogGrows, NEW n \in Nat, n <= Len(log), NEW k, NEW p,
           LastAt(n, k, p)
    PROVE  LastAt(n, k, p)'
BY LogKeeps DEF LastAt, Touches

\* A record that does not touch row k leaves the last record of k where it is.
LEMMA LastExtends ==
    ASSUME log \in Seq(Record), NEW r \in Record, log' = Append(log, r), NEW k, NEW p \in Nat,
           LastAt(Len(log), k, p), ~(r.kind = "commit" /\ k \in DOMAIN r.ops)
    PROVE  LastAt(Len(log), k, p)'
BY DEF LastAt, Touches

\* A commit record of row k is the last one of k once it is appended.
LEMMA LastIsNew ==
    ASSUME log \in Seq(Record), NEW r \in Record, log' = Append(log, r), NEW k,
           r.kind = "commit", k \in DOMAIN r.ops
    PROVE  LastAt(Len(log), k, Len(log))'
BY DEF LastAt, Touches

\* A record that does not commit row k leaves NewestRow alone.
LEMMA NewestKeeps ==
    ASSUME DataInv, NEW k \in Key, main'[k] = main[k],
           \/ log' = log
           \/ \E r \in Record : log' = Append(log, r) /\ ~(r.kind = "commit" /\ k \in DOMAIN r.ops),
           \A u \in Txn : Pending(u, k)' = Pending(u, k),
           \A u \in Txn : Pending(u, k) => rec'[u] = rec[u]
    PROVE  NewestRow(k)'
<1>1. NewestRow(k) /\ log \in Seq(Record) /\ LogGrows
    BY DEF DataInv, LogGrows
<1>2. ASSUME NEW p \in Nat, LastAt(Len(log), k, p)
      PROVE  LastAt(Len(log), k, p)'
    <2>1. CASE log' = log
        BY <1>2, <2>1 DEF LastAt, Touches
    <2> QED
        BY <1>1, <1>2, <2>1, LastExtends
<1>3. ASSUME NEW u \in Txn, Pending(u, k)'
      PROVE  LastAt(rec[u] - 1, k, main[k].pos)' /\ LastAt(Len(log), k, rec[u])'
    <2>1. Pending(u, k) /\ rec'[u] = rec[u] /\ rec[u] \in 1..Len(log)
        BY <1>3 DEF DataInv, Session, Pending
    <2>2. LastAt(rec[u] - 1, k, main[k].pos) /\ LastAt(Len(log), k, rec[u])
        BY <1>1, <2>1 DEF NewestRow
    <2>3. PICK n \in Nat : n = rec[u] - 1 /\ n <= Len(log)
        BY <2>1, Types
    <2>4. PICK p \in Nat : p = main[k].pos
        BY Types
    <2>5. LastAt(n, k, p)'
        BY <1>1, <2>2, <2>3, <2>4, LastKeeps
    <2>6. LastAt(rec[u] - 1, k, main[k].pos)'
        BY <2>1, <2>3, <2>4, <2>5 DEF LastAt, Touches
    <2>7. PICK q \in Nat : q = rec[u]
        BY <2>1
    <2>8. LastAt(Len(log), k, q)'
        BY <1>2, <2>2, <2>7
    <2>9. LastAt(Len(log), k, rec[u])'
        BY <2>1, <2>7, <2>8 DEF LastAt, Touches
    <2> QED
        BY <2>6, <2>9
<1>4. ASSUME \A u \in Txn : ~Pending(u, k)'
      PROVE  LastAt(Len(log), k, main[k].pos)'
    <2>1. LastAt(Len(log), k, main[k].pos)
        BY <1>1, <1>4 DEF NewestRow
    <2>2. PICK p \in Nat : p = main[k].pos
        BY Types
    <2>3. LastAt(Len(log), k, p)'
        BY <1>2, <2>1, <2>2
    <2> QED
        BY <2>2, <2>3 DEF LastAt, Touches
<1>5. main[k].pos # 0 => log'[main[k].pos] = log[main[k].pos]
    <2>1. main[k].pos \in 0..Len(log)
        <3>1. CASE \E u \in Txn : Pending(u, k)
            <4>1. PICK u \in Txn : Pending(u, k)
                BY <3>1
            <4>2. rec[u] \in 1..Len(log)
                BY <4>1 DEF DataInv, Session, Pending
            <4> QED
                BY <1>1, <4>1, <4>2, Types DEF NewestRow, LastAt
        <3>2. CASE \A u \in Txn : ~Pending(u, k)
            BY <1>1, <3>2, Types DEF NewestRow, LastAt
        <3> QED
            BY <3>1, <3>2
    <2> QED
        BY <1>1, <2>1, LogKeeps
<1> QED
    BY <1>1, <1>3, <1>4, <1>5 DEF NewestRow

\* The checkpointer's side of a step of session t.
Outside ==
    /\ UNCHANGED <<phase, cntBit, avail, redoLock>>
    /\ UNCHANGED <<recLock, walHeld, cp, todo, errorSet, lsn, id, dirs, ctl>>

\* A step of t leaves the other sessions alone.
Own(t) ==
    /\ \A u \in Txn \ {t} : /\ pc'[u] = pc[u] /\ ops'[u] = ops[u] /\ rec'[u] = rec[u]
                            /\ tphase'[u] = tphase[u] /\ nabit'[u] = nabit[u]
    /\ \A k \in Key : owner[k] \notin {t, NoTxn} => owner'[k] = owner[k] /\ main'[k] = main[k]

\* A step of session t keeps what is said of every other session.
LEMMA OtherSessions ==
    ASSUME DataInv, NEW t \in Txn, Outside, Own(t), LogGrows
    PROVE  \A u \in Txn \ {t} : Session(u)'
<1> TAKE u \in Txn \ {t}
<1>1. Session(u)
    BY DEF DataInv
<1>2. /\ pc'[u] = pc[u] /\ ops'[u] = ops[u] /\ rec'[u] = rec[u]
      /\ tphase'[u] = tphase[u] /\ nabit'[u] = nabit[u]
      /\ UNCHANGED <<phase, avail, cp, lsn, ctl>>
    BY DEF Own, Outside
<1>3. DOMAIN ops[u] \subseteq Key
    BY Types, WritesAre
<1>4. \A k \in DOMAIN ops[u] : owner'[k] = u /\ main'[k] = main[k] /\ owner[k] = u
    BY <1>1, <1>3, CheckpointAssumption DEF Session, Own
<1>5. \A k \in Key : Writing(u, k)' => Writing(u, k)
    BY <1>2 DEF Writing
<1>6. \A k \in Key : Writing(u, k)' => Applicable(ops[u][k], main[k])'
    BY <1>1, <1>2, <1>4, <1>5 DEF Session, Applicable, Writing
<1>7. /\ pc[u] \in {"prepared", "logged"} => rec[u] \in 1..Len(log')
      /\ pc[u] = "logged" => log'[rec[u]].kind = "commit" /\ log'[rec[u]].ops = ops[u]
    BY <1>1, LogKeeps DEF Session, DataInv
<1>8. InCommit(u)' = InCommit(u)
    BY <1>2 DEF InCommit
<1> QED
    BY <1>1, <1>2, <1>4, <1>6, <1>7, <1>8 DEF Session

\* A step of session t, from what it does to itself, the rows and the log.
LEMMA SessionStep ==
    ASSUME DataInv, NEW t \in Txn, Outside, Own(t), LogGrows, PhaseInv', TypeOK',
           left' \in [commits : Nat, checkpoints : Nat, aborts : Nat, failures : Nat],
           left'.aborts = 0 /\ left'.failures = 0,
           Session(t)',
           \A k \in Key : NewestRow(k)' /\ RowState(k)',
           \A i \in 1..Len(log') : i > Len(log) /\ log'[i].kind = "commit" =>
              log'[i].data > lsn /\ log'[i].data > ctl.lsn
    PROVE  DataInv'
<1>1. log' \in Seq(Record) /\ Len(log) \in Nat /\ Len(log') \in Nat /\ Len(log) <= Len(log')
      /\ \A i \in 1..Len(log) : log'[i] = log[i]
    BY LogKeeps DEF DataInv
<1>2. Orderly'
    BY DEF DataInv, Orderly, Outside, Faultless
<1>3. \A u \in Txn : Session(u)'
    BY OtherSessions
<1>4. lsn' = lsn /\ ctl' = ctl
    BY DEF Outside
<1>5. DataAfter(lsn)' /\ DataAfter(ctl.lsn)'
    <2>1. DataAfter(lsn) /\ DataAfter(ctl.lsn)
        BY DEF DataInv
    <2>2. ASSUME NEW i \in 1..Len(log'), log'[i].kind = "commit"
          PROVE  (i > lsn => log'[i].data > lsn) /\ (i > ctl.lsn => log'[i].data > ctl.lsn)
        <3>1. CASE i \in 1..Len(log)
            BY <1>1, <2>1, <2>2, <3>1 DEF DataAfter
        <3>2. CASE i > Len(log)
            BY <2>2, <3>2
        <3> QED
            BY <1>1, <3>1, <3>2
    <2>3. lsn <= Len(log') /\ ctl.lsn <= Len(log')
        BY <1>1, Types
    <2> QED
        BY <1>4, <2>2, <2>3 DEF DataAfter
<1>6. Files'
    <2>1. Files
        BY DEF DataInv
    <2>2. \A k \in Key : /\ Replay(lsn, k)' = Replay(lsn, k)
                         /\ Replay(ctl.lsn, k)' = Replay(ctl.lsn, k)
        BY <1>4, PointKeeps
    <2>3. UNCHANGED <<cp, todo, id, dirs, ctl>>
        BY DEF Outside
    <2> QED
        BY <2>1, <2>2, <2>3 DEF Files
<1> QED
    BY <1>1, <1>2, <1>3, <1>5, <1>6 DEF DataInv

\* The types after a step of a session.
LEMMA SessionTypes ==
    ASSUME DataInv, Outside, LogGrows, PhaseInv',
           main' \in [Key -> RowVersion], stable' \in [Key -> Nat],
           status' \in [Key -> BOOLEAN], preAlloc' \in [Key -> BOOLEAN],
           owner' \in [Key -> Txn \cup {NoTxn}],
           nabit' \in [Txn -> BOOLEAN], ops' \in [Txn -> Writes], rec' \in [Txn -> Nat]
    PROVE  TypeOK'
<1>1. log' \in Seq(Record)
    BY LogKeeps DEF DataInv
<1>2. \A i \in DOMAIN log' : log'[i] \in Record
    BY <1>1
<1>3. PhaseTypes'
    BY DEF PhaseInv
<1> QED
    BY <1>2, <1>3 DEF DataInv, TypeOK, PhaseTypes, Outside

\* A step of t that touches neither rows nor the log, and in which t is not writing.
LEMMA QuietSession ==
    ASSUME DataInv, NEW t \in Txn, NEW to \in PC, Outside, PhaseInv',
           UNCHANGED <<log, main, status, stable, preAlloc, owner, ops, rec>>,
           pc' = [pc EXCEPT ![t] = to],
           {pc[t], to} \cap {"validated", "prepared", "logged"} = {},
           DOMAIN ops[t] # {} => to \in Holding,
           \A u \in Txn \ {t} : tphase'[u] = tphase[u] /\ nabit'[u] = nabit[u],
           nabit' \in [Txn -> BOOLEAN],
           InCommit(t)' /\ tphase'[t] = "COMPLETE" =>
              nabit'[t] = IF phase = "COMPLETE" THEN ~avail ELSE avail,
           left' \in [commits : Nat, checkpoints : Nat, aborts : Nat, failures : Nat],
           left'.aborts = 0 /\ left'.failures = 0
    PROVE  DataInv'
<1>1. pc'[t] = to /\ \A u \in Txn \ {t} : pc'[u] = pc[u]
    BY Types
<1>2. LogGrows /\ Own(t)
    BY <1>1 DEF LogGrows, Own
<1>3. TypeOK'
    <2>1. TypeOK
        BY DEF DataInv
    <2> QED
        BY <1>2, <2>1, SessionTypes DEF TypeOK
<1>4. UNCHANGED <<phase, avail, cp, todo, lsn, ctl>>
    BY DEF Outside
<1>5. Session(t)'
    <2>1. Session(t)
        BY DEF DataInv
    <2>2. \A k \in Key : ~Writing(t, k)'
        BY <1>1 DEF Writing
    <2> QED
        BY <1>1, <1>4, <2>1, <2>2 DEF Session
<1>6. ASSUME NEW k \in Key
      PROVE  NewestRow(k)' /\ RowState(k)'
    <2>1. \A u \in Txn : Writing(u, k)' = Writing(u, k) /\ Pending(u, k)' = Pending(u, k)
        BY <1>1 DEF Writing, Pending
    <2> QED
        BY <1>2, <1>4, <2>1, NewestKeeps, RowKeeps
<1> QED
    BY <1>2, <1>3, <1>5, <1>6, SessionStep, Types

-----------------------------------------------------------------------------
(* The sessions. *)

\* BeginCommit touches no row.
LEMMA DataBegin ==
    ASSUME DataInv, NEW t \in Txn, BeginCommit(t), PhaseInv'
    PROVE  DataInv'
<1>1. /\ Outside /\ pc[t] = "idle" /\ pc' = [pc EXCEPT ![t] = "validate"]
      /\ UNCHANGED <<log, main, status, stable, preAlloc, owner, ops, rec>>
      /\ tphase' = [tphase EXCEPT ![t] = phase] /\ nabit' = [nabit EXCEPT ![t] = ~avail]
      /\ left.commits > 0 /\ left' = [left EXCEPT !["commits"] = @ - 1]
    BY DEF BeginCommit, Outside, Go, Spend, mgrVars, cpVars, diskVars, rowVars
<1>2. /\ tphase \in [Txn -> Phases \cup {"NONE"}] /\ nabit \in [Txn -> BOOLEAN]
      /\ avail \in BOOLEAN
    BY DEF DataInv, TypeOK
<1>3. nabit' \in [Txn -> BOOLEAN] /\ nabit'[t] = ~avail /\ tphase'[t] = phase
    BY <1>1, <1>2
<1>4. \A u \in Txn \ {t} : tphase'[u] = tphase[u] /\ nabit'[u] = nabit[u]
    BY <1>1, <1>2
<1>5. DOMAIN ops[t] = {}
    BY <1>1 DEF DataInv, Session, Holding
<1>6. /\ left' \in [commits : Nat, checkpoints : Nat, aborts : Nat, failures : Nat]
      /\ left'.aborts = 0 /\ left'.failures = 0
    BY <1>1 DEF DataInv, Orderly
<1>7. {pc[t], "validate"} \cap {"validated", "prepared", "logged"} = {} /\ "validate" \in PC
    BY <1>1 DEF PC
<1> QED
    BY <1>1, <1>3, <1>4, <1>5, <1>6, <1>7, QuietSession

\* EndCommit leaves rows, log and image as they are.
LEMMA DataEnd ==
    ASSUME DataInv, NEW t \in Txn, EndCommit(t) \/ TestPhase(t), PhaseInv'
    PROVE  DataInv'
<1>1. PICK to \in {"test", "move", "release"} : pc' = [pc EXCEPT ![t] = to]
    BY DEF EndCommit, TestPhase, Go
<1>2. /\ Outside /\ pc[t] \in {"applied", "test"}
      /\ UNCHANGED <<log, main, status, stable, preAlloc, owner, ops, rec, tphase, nabit, left>>
    BY DEF EndCommit, TestPhase, Outside, mgrVars, cpVars, diskVars, rowVars, txnVars
<1>3. pc'[t] = to
    BY <1>1, Types
<1>4. to \in PC /\ to \in Holding /\ ~InCommit(t)'
    BY <1>3 DEF PC, Holding, InCommit
<1>5. /\ left' \in [commits : Nat, checkpoints : Nat, aborts : Nat, failures : Nat]
      /\ left'.aborts = 0 /\ left'.failures = 0 /\ nabit' \in [Txn -> BOOLEAN]
    BY <1>2 DEF DataInv, Orderly, TypeOK
<1>6. {pc[t], to} \cap {"validated", "prepared", "logged"} = {}
    BY <1>2
<1> QED
    BY <1>1, <1>2, <1>4, <1>5, <1>6, QuietSession

\* The phase a commit in progress began in.
LEMMA PhaseOfCommit ==
    ASSUME PhaseInv, NEW t \in Txn, InCommit(t)
    PROVE  /\ phase \in {"REST", "PREPARE", "RESOLVE"} => tphase[t] \in {"COMPLETE", "REST", "PREPARE"}
           /\ phase = "CAPTURE" => tphase[t] = "CAPTURE"
           /\ phase = "COMPLETE" => tphase[t] \in {"CAPTURE", "COMPLETE"}
           /\ tphase[t] = "COMPLETE" => phase \in {"COMPLETE", "REST"}
<1>1. tphase[t] \in {phase, PrevPhase(phase)} /\ tphase[t] # "RESOLVE" /\ phase \in Phases
    BY DEF PhaseInv, PhaseTypes, CutOff, NoneBeginsInResolve
<1> QED
    BY <1>1, PrevIs DEF Phases

\* A row in a write set is in no other.
LEMMA OneWriter ==
    ASSUME DataInv, NEW k \in Key
    PROVE  /\ \A t, u \in Txn : k \in DOMAIN ops[t] /\ k \in DOMAIN ops[u] => t = u
           /\ owner[k] = NoTxn => \A t \in Txn : k \notin DOMAIN ops[t]
BY CheckpointAssumption DEF DataInv, Session

\* ValidateOcc: the copies belong to t, as long as t owns the locks.
LEMMA DataValidate ==
    ASSUME DataInv, NEW t \in Txn, ValidateOcc(t), PhaseInv'
    PROVE  DataInv'
<1>1. /\ Outside /\ pc[t] = "validate" /\ pc' = [pc EXCEPT ![t] = "validated"]
      /\ UNCHANGED <<log, main, status, rec, tphase, nabit, left>>
    BY DEF ValidateOcc, Outside, Go, mgrVars, cpVars, diskVars
<1>2. PICK w \in Writes : /\ Lockable(w)
                          /\ ops' = [ops EXCEPT ![t] = w]
                          /\ owner' = [k \in Key |-> IF k \in DOMAIN w THEN t ELSE owner[k]]
                          /\ PreAllocStableRows(t, DOMAIN w)
    BY DEF ValidateOcc
<1>3. /\ pc'[t] = "validated" /\ \A u \in Txn \ {t} : pc'[u] = pc[u]
      /\ ops'[t] = w /\ \A u \in Txn \ {t} : ops'[u] = ops[u]
    BY <1>1, <1>2, Types
<1>4. DOMAIN w \subseteq Key /\ \A k \in DOMAIN w : w[k] \in OpKind
    BY WritesAre
<1>5. InCommit(t) /\ DOMAIN ops[t] = {}
    BY <1>1 DEF InCommit, DataInv, Session, Holding
<1>6. \A k \in Key : owner[k] \notin {t, NoTxn} => owner'[k] = owner[k]
    BY <1>2 DEF Lockable
<1>7. LogGrows /\ Own(t)
    BY <1>1, <1>3, <1>6 DEF LogGrows, Own
<1>8. UNCHANGED <<phase, avail, cp, todo, lsn, ctl>>
    BY <1>1 DEF Outside
<1>9. \A k \in Key : /\ k \in DOMAIN w /\ NeedsStable(t, k) => stable'[k] = main[k].pos /\ preAlloc'[k]
                     /\ ~(k \in DOMAIN w /\ NeedsStable(t, k)) => stable'[k] = stable[k] /\ preAlloc'[k] = preAlloc[k]
    BY <1>2 DEF PreAllocStableRows, DataInv, TypeOK
<1>10. TypeOK'
    <2>1. TypeOK
        BY DEF DataInv
    <2>2. stable' \in [Key -> Nat] /\ preAlloc' \in [Key -> BOOLEAN]
        <3>1. stable' = [k \in Key |-> stable'[k]] /\ preAlloc' = [k \in Key |-> preAlloc'[k]]
            BY <1>2 DEF PreAllocStableRows
        <3>2. \A k \in Key : stable'[k] \in Nat /\ preAlloc'[k] \in BOOLEAN
            BY <1>2, <2>1, Types DEF PreAllocStableRows, TypeOK
        <3> QED
            BY <3>1, <3>2
    <2>3. ops' \in [Txn -> Writes] /\ owner' \in [Key -> Txn \cup {NoTxn}]
        BY <1>2, <2>1 DEF TypeOK
    <2> QED
        BY <1>1, <1>7, <2>1, <2>2, <2>3, SessionTypes DEF TypeOK
<1>11. Session(t)'
    <2>1. Session(t)
        BY DEF DataInv
    <2>2. \A k \in DOMAIN w : owner'[k] = t
        BY <1>2, <1>4
    <2>3. \A k \in Key : Writing(t, k)' => Applicable(ops[t][k], main[k])'
        BY <1>1, <1>2, <1>3 DEF Writing, Lockable, Applicable
    <2>4. InCommit(t)'
        BY <1>3 DEF InCommit
    <2> QED
        BY <1>1, <1>3, <1>5, <1>8, <2>1, <2>2, <2>3, <2>4 DEF Session, Holding
<1>12. ASSUME NEW k \in Key
       PROVE  NewestRow(k)' /\ RowState(k)'
    <2>1. \A u \in Txn : Pending(u, k)' = Pending(u, k)
        BY <1>1, <1>3 DEF Pending
    <2>2. NewestRow(k)'
        BY <1>1, <2>1, NewestKeeps
    <2>3. CASE k \notin DOMAIN w
        <3>1. \A u \in Txn : Writing(u, k)' = Writing(u, k)
            BY <1>1, <1>3, <2>3 DEF Writing
        <3>2. \A u \in Txn : Writing(u, k) => ops'[u][k] = ops[u][k]
            BY <1>1, <1>3 DEF Writing
        <3> QED
            BY <1>1, <1>7, <1>8, <1>9, <2>2, <2>3, <3>1, <3>2, RowKeeps
    <2>4. CASE k \in DOMAIN w
        <3>1. /\ \A u \in Txn : ~Writing(u, k)
              /\ \A u \in Txn : Writing(u, k)' => u = t
              /\ Writing(t, k)'
            BY <1>2, <1>3, <2>4, OneWriter DEF Writing, Lockable
        <3>2. RowState(k) /\ avail \in BOOLEAN /\ main[k].del \in BOOLEAN
            BY Types DEF DataInv
        <3>3. (w[k] = "INS") = main[k].del
            BY <1>2, <2>4 DEF Lockable, Applicable
        <3>4. UNCHANGED <<main, status, log, cp, lsn, avail, phase, todo>>
            BY <1>1, <1>8
        <3>5. phase \in {"REST", "PREPARE", "RESOLVE"} => Reset(k)'
            <4>1. phase \in {"REST", "PREPARE", "RESOLVE"} => ~NeedsStable(t, k)
                BY <1>5, PhaseOfCommit DEF NeedsStable, DataInv
            <4> QED
                BY <1>9, <3>2, <3>4, <4>1 DEF RowState, Reset
        <3>6. Captured(k) => Captured(k)'
            <4>1. Captured(k) => ~NeedsStable(t, k)
                BY <3>2 DEF NeedsStable, Captured
            <4> QED
                BY <1>9, <3>4, <4>1 DEF Captured
        <3>7. Replay(Cut, k)' = Replay(Cut, k) /\ Version(k)' = Version(k)
            BY <3>4 DEF Replay, RowFrom, Cut, Version
        <3>8. Kept(k) => Kept(k)'
            <4>1. Kept(k) => ~NeedsStable(t, k)
                BY <3>2 DEF NeedsStable, Kept
            <4> QED
                BY <1>9, <3>4, <3>7, <4>1 DEF Kept
        <3>9. phase = "CAPTURE" /\ Untouched(k) => Untouched(k)'
            <4> SUFFICES ASSUME phase = "CAPTURE", Untouched(k)
                         PROVE  Untouched(k)'
                OBVIOUS
            <4>1. stable[k] = 0 /\ ~preAlloc[k]
                BY <3>1 DEF Untouched
            <4>2. tphase[t] = "CAPTURE"
                BY <1>5, PhaseOfCommit DEF DataInv
            <4>3. CASE main[k].del
                <5>1. ~NeedsStable(t, k) /\ ops'[t][k] = "INS"
                    BY <1>3, <3>3, <4>3 DEF NeedsStable
                <5> QED
                    BY <1>9, <3>1, <3>4, <3>7, <4>1, <5>1 DEF Untouched
            <4>4. CASE ~main[k].del
                <5>1. NeedsStable(t, k)
                    BY <4>2, <4>4 DEF NeedsStable, Untouched
                <5> QED
                    BY <1>9, <2>4, <3>1, <3>4, <3>7, <4>4, <5>1 DEF Untouched
            <4> QED
                BY <4>3, <4>4
        <3>10. RowState(k)'
            BY <3>2, <3>4, <3>5, <3>6, <3>8, <3>9 DEF RowState
        <3> QED
            BY <2>2, <3>10
    <2> QED
        BY <2>3, <2>4
<1>13. /\ left' \in [commits : Nat, checkpoints : Nat, aborts : Nat, failures : Nat]
       /\ left'.aborts = 0 /\ left'.failures = 0
    BY <1>1 DEF DataInv, Orderly
<1> QED
    BY <1>1, <1>7, <1>10, <1>11, <1>12, <1>13, SessionStep, Types

\* A copy that is only pre-allocated belongs to the commit that owns the lock.
LEMMA PreAllocOwned ==
    ASSUME DataInv, NEW k \in Key, preAlloc[k]
    PROVE  /\ phase = "CAPTURE" /\ k \in todo /\ Untouched(k) /\ ~main[k].del
           /\ \E t \in Txn : Writing(t, k)
           /\ owner[k] # NoTxn
<1>1. RowState(k) /\ phase \in Phases /\ (phase = "COMPLETE" => todo = {})
    BY DEF DataInv, TypeOK, Orderly
<1>2. phase = "CAPTURE" /\ k \in todo /\ Untouched(k)
    BY <1>1 DEF RowState, Reset, Captured, Kept, Phases
<1>3. ~main[k].del /\ \E t \in Txn : Writing(t, k)
    BY <1>2 DEF Untouched
<1> QED
    BY <1>2, <1>3, OneWriter DEF Writing

\* ValidateOcc fails: there is nothing to free on rows it does not own.
LEMMA DataValidateFails ==
    ASSUME DataInv, NEW t \in Txn, ValidateOccFails(t), PhaseInv'
    PROVE  DataInv'
<1>1. /\ Outside /\ pc[t] = "validate" /\ pc' = [pc EXCEPT ![t] = "applied"]
      /\ UNCHANGED <<log, main, status, owner, ops, rec, tphase, nabit, left>>
    BY DEF ValidateOccFails, Outside, Go, mgrVars, cpVars, diskVars, txnVars
<1>2. PICK S \in SUBSET {k \in Key : owner[k] = NoTxn /\ main[k].pos # 0} :
         FreePreAllocStableRows(S)
    BY DEF ValidateOccFails
<1>3. \A k \in S : ~preAlloc[k]
    BY PreAllocOwned
<1>4. TypeOK
    BY DEF DataInv
<1>5. /\ stable' = [k \in Key |-> stable[k]]
      /\ preAlloc' = [k \in Key |-> preAlloc[k]]
    BY <1>2, <1>3, <1>4 DEF FreePreAllocStableRows, TypeOK
<1>6. UNCHANGED <<stable, preAlloc>>
    BY <1>4, <1>5 DEF TypeOK
<1>7. pc'[t] = "applied" /\ DOMAIN ops[t] = {}
    BY <1>1, Types DEF DataInv, Session, Holding
<1>8. Session(t) /\ UNCHANGED <<phase, avail>>
    BY <1>1 DEF DataInv, Outside
<1>9. InCommit(t) /\ "applied" \in PC /\ {pc[t], "applied"} \cap {"validated", "prepared", "logged"} = {}
    BY <1>1 DEF InCommit, PC
<1>10. tphase'[t] = "COMPLETE" => nabit'[t] = IF phase = "COMPLETE" THEN ~avail ELSE avail
    BY <1>1, <1>8, <1>9 DEF Session
<1>11. /\ left' \in [commits : Nat, checkpoints : Nat, aborts : Nat, failures : Nat]
       /\ left'.aborts = 0 /\ left'.failures = 0 /\ nabit' \in [Txn -> BOOLEAN]
    BY <1>1, <1>4 DEF DataInv, Orderly, TypeOK
<1> QED
    BY <1>1, <1>6, <1>7, <1>9, <1>10, <1>11, QuietSession

\* A session that writes to the log finds the redo lock free, so that the checkpoint
\* has its redo point already or not yet begun.
LEMMA DataLogs ==
    ASSUME DataInv, NEW t \in Txn, RedoCommit(t) \/ Prepare(t) \/ CommitPrepared(t), PhaseInv'
    PROVE  DataInv'
<1>1. PICK kind \in {"commit", "prepare"}, w \in {ops[t], NoWrites}, data \in Nat :
         /\ WriteToLog(t, kind, w, data)
         /\ pc' = [pc EXCEPT ![t] = IF kind = "commit" THEN "logged" ELSE "prepared"]
         /\ kind = "commit" => w = ops[t] /\ data > lsn /\ data > ctl.lsn
    <2>1. CASE RedoCommit(t)
        BY <2>1, Types DEF RedoCommit, Go
    <2>2. CASE Prepare(t)
        BY <2>2 DEF Prepare, Go
    <2>3. CASE CommitPrepared(t)
        <3>1. rec[t] > lsn /\ rec[t] > ctl.lsn /\ rec[t] \in Nat
            BY <2>3, Types DEF CommitPrepared, DataInv, Session
        <3> QED
            BY <2>3, <3>1 DEF CommitPrepared, Go
    <2> QED
        BY <2>1, <2>2, <2>3
<1>2. /\ Outside /\ pc[t] \in {"validated", "prepared"}
      /\ UNCHANGED <<main, status, stable, preAlloc, owner, ops, tphase, nabit, left>>
    BY DEF RedoCommit, Prepare, CommitPrepared, Outside, mgrVars, cpVars, diskVars, rowVars
<1> DEFINE r == [kind |-> kind, ops |-> w, data |-> data]
<1>3. /\ cp # "snapshot" /\ log' = Append(log, r) /\ rec' = [rec EXCEPT ![t] = Len(log) + 1]
    BY <1>1 DEF WriteToLog, LogOpen, DataInv, Orderly
<1>4. r \in Record /\ r.kind = kind /\ r.ops = w /\ r.data = data
    BY <1>1, Types, WritesAre DEF Record
<1> HIDE DEF r
<1>5. LogGrows
    BY <1>3, <1>4 DEF LogGrows
<1>6. /\ Len(log') = Len(log) + 1 /\ log'[Len(log) + 1] = r
      /\ \A i \in 1..Len(log) : log'[i] = log[i]
    BY <1>3, <1>4 DEF DataInv
<1>7. /\ pc'[t] = (IF kind = "commit" THEN "logged" ELSE "prepared") /\ rec'[t] = Len(log) + 1
      /\ \A u \in Txn \ {t} : pc'[u] = pc[u] /\ rec'[u] = rec[u]
    BY <1>1, <1>3, Types
<1>8. Own(t)
    BY <1>2, <1>7 DEF Own
<1>9. UNCHANGED <<phase, avail, cp, todo, lsn, ctl>>
    BY <1>2 DEF Outside
<1>10. TypeOK'
    <2>1. TypeOK
        BY DEF DataInv
    <2>2. rec' \in [Txn -> Nat]
        BY <1>3, Types
    <2> QED
        BY <1>2, <1>5, <2>1, <2>2, SessionTypes DEF TypeOK
<1>11. \A u \in Txn, k \in Key : Writing(u, k)' = Writing(u, k)
    BY <1>1, <1>2, <1>7 DEF Writing
<1>12. Session(t)'
    <2>1. Session(t)
        BY DEF DataInv
    <2>2. \A k \in Key : Writing(t, k)' => Applicable(ops[t][k], main[k])'
        BY <1>2, <1>11, <2>1 DEF Session, Applicable
    <2>3. rec'[t] \in 1..Len(log') /\ rec'[t] > lsn /\ rec'[t] > ctl.lsn
        BY <1>6, <1>7, Types
    <2>4. pc'[t] = "logged" => log'[rec'[t]].kind = "commit" /\ log'[rec'[t]].ops = ops[t]
        BY <1>1, <1>4, <1>6, <1>7
    <2>5. InCommit(t)
        BY <1>2 DEF InCommit
    <2>6. pc'[t] \in Holding
        BY <1>1, <1>7 DEF Holding
    <2> QED
        BY <1>2, <1>3, <1>9, <2>1, <2>2, <2>3, <2>4, <2>5, <2>6 DEF Session
<1>13. ASSUME NEW k \in Key
       PROVE  NewestRow(k)' /\ RowState(k)'
    <2>1. RowState(k)'
        BY <1>2, <1>3, <1>5, <1>9, <1>11, RowKeeps
    <2>2. CASE kind = "commit" /\ k \in DOMAIN ops[t]
        <3>1. /\ \A u \in Txn : ~Pending(u, k)
              /\ \A u \in Txn : Pending(u, k)' => u = t
              /\ Pending(t, k)'
            BY <1>2, <1>7, <2>2, OneWriter DEF Pending
        <3>2. NewestRow(k) /\ log \in Seq(Record)
            BY DEF DataInv
        <3>3. LastAt(Len(log), k, main[k].pos)
            BY <3>1, <3>2 DEF NewestRow
        <3>4. PICK n \in Nat : n = Len(log)
            BY Types
        <3>5. PICK p \in Nat : p = main[k].pos
            BY Types
        <3>6. LastAt(n, k, p)'
            BY <1>5, <3>2, <3>3, <3>4, <3>5, LastKeeps
        <3>7. LastAt(rec[t] - 1, k, main[k].pos)'
            BY <1>2, <1>7, <3>4, <3>5, <3>6 DEF LastAt, Touches
        <3>8. LastAt(Len(log), k, Len(log))'
            BY <1>1, <1>3, <1>4, <2>2, <3>2, LastIsNew
        <3>9. LastAt(Len(log), k, rec[t])'
            BY <1>6, <1>7, <3>8 DEF LastAt, Touches
        <3>10. main[k].pos \in 0..Len(log)
            BY <3>3, Types DEF LastAt
        <3>11. main[k].pos # 0 => log'[main[k].pos] = log[main[k].pos]
            BY <1>6, <3>10
        <3>12. NewestRow(k)'
            BY <1>2, <3>1, <3>2, <3>7, <3>9, <3>11 DEF NewestRow
        <3> QED
            BY <2>1, <3>12
    <2>3. CASE ~(kind = "commit" /\ k \in DOMAIN ops[t])
        <3>1. ~(r.kind = "commit" /\ k \in DOMAIN r.ops)
            BY <1>1, <1>4, <2>3
        <3>2. \A u \in Txn : Pending(u, k)' = Pending(u, k)
            BY <1>1, <1>2, <1>7, <2>3 DEF Pending
        <3>3. \A u \in Txn : Pending(u, k) => rec'[u] = rec[u]
            BY <1>2, <1>7 DEF Pending
        <3>4. NewestRow(k)'
            BY <1>2, <1>3, <1>4, <3>1, <3>2, <3>3, NewestKeeps
        <3> QED
            BY <2>1, <3>4
    <2> QED
        BY <2>2, <2>3
<1>14. /\ left' \in [commits : Nat, checkpoints : Nat, aborts : Nat, failures : Nat]
       /\ left'.aborts = 0 /\ left'.failures = 0
    BY <1>2 DEF DataInv, Orderly
<1>15. ASSUME NEW i \in 1..Len(log'), i > Len(log), log'[i].kind = "commit"
       PROVE  log'[i].data > lsn /\ log'[i].data > ctl.lsn
    <2>1. log'[i] = r
        BY <1>6, <1>15, Types
    <2> QED
        BY <1>1, <1>4, <1>15, <2>1
<1> QED
    BY <1>2, <1>5, <1>8, <1>10, <1>12, <1>13, <1>14, <1>15, SessionStep

\* The roll-back of a prepared transaction takes its copies back.
LEMMA DataRollback ==
    ASSUME DataInv, NEW t \in Txn, RollbackPrepared(t), PhaseInv'
    PROVE  DataInv'
<1>1. /\ Outside /\ pc[t] = "prepared" /\ pc' = [pc EXCEPT ![t] = "applied"]
      /\ UNCHANGED <<log, main, status, owner, rec, tphase, nabit, left>>
      /\ ops' = [ops EXCEPT ![t] = NoWrites]
      /\ FreePreAllocStableRows(PreAllocated(t))
    BY DEF RollbackPrepared, Outside, Go, mgrVars, cpVars, diskVars
<1>2. /\ pc'[t] = "applied" /\ \A u \in Txn \ {t} : pc'[u] = pc[u]
      /\ ops'[t] = NoWrites /\ \A u \in Txn \ {t} : ops'[u] = ops[u]
    BY <1>1, Types
<1>3. LogGrows /\ Own(t)
    BY <1>1, <1>2 DEF LogGrows, Own
<1>4. UNCHANGED <<phase, avail, cp, todo, lsn, ctl>>
    BY <1>1 DEF Outside
<1>5. TypeOK
    BY DEF DataInv
<1>6. \A k \in Key : /\ k \in PreAllocated(t) /\ preAlloc[k] => stable'[k] = 0 /\ ~preAlloc'[k]
                     /\ ~(k \in PreAllocated(t) /\ preAlloc[k]) => stable'[k] = stable[k] /\ preAlloc'[k] = preAlloc[k]
    BY <1>1, <1>5 DEF FreePreAllocStableRows, TypeOK
<1>7. TypeOK'
    <2>1. stable' \in [Key -> Nat] /\ preAlloc' \in [Key -> BOOLEAN]
        BY <1>1, <1>5 DEF FreePreAllocStableRows, TypeOK
    <2>2. ops' \in [Txn -> Writes]
        BY <1>1, Types, WritesAre
    <2> QED
        BY <1>1, <1>3, <1>5, <2>1, <2>2, SessionTypes DEF TypeOK
<1>8. Session(t)'
    <2>1. Session(t) /\ InCommit(t)
        BY <1>1 DEF DataInv, InCommit
    <2>2. DOMAIN ops'[t] = {} /\ \A k \in Key : ~Writing(t, k)'
        BY <1>2, WritesAre DEF Writing
    <2> QED
        BY <1>1, <1>2, <1>4, <2>1, <2>2 DEF Session
<1>9. ASSUME NEW k \in Key
      PROVE  NewestRow(k)' /\ RowState(k)'
    <2>1. \A u \in Txn : Pending(u, k)' = Pending(u, k)
        BY <1>1, <1>2 DEF Pending
    <2>2. NewestRow(k)'
        BY <1>1, <2>1, NewestKeeps
    <2>3. CASE k \notin DOMAIN ops[t]
        <3>1. \A u \in Txn : Writing(u, k)' = Writing(u, k)
            BY <1>1, <1>2, <2>3 DEF Writing
        <3>2. \A u \in Txn : Writing(u, k) => ops'[u][k] = ops[u][k]
            BY <1>1, <1>2, <2>3 DEF Writing
        <3>3. k \notin PreAllocated(t)
            BY <2>3 DEF PreAllocated
        <3> QED
            BY <1>1, <1>3, <1>4, <1>6, <2>2, <3>1, <3>2, <3>3, RowKeeps
    <2>4. CASE k \in DOMAIN ops[t]
        <3>1. /\ Writing(t, k) /\ \A u \in Txn : Writing(u, k) => u = t
              /\ \A u \in Txn : ~Writing(u, k)'
            BY <1>1, <1>2, <2>4, OneWriter DEF Writing
        <3>2. RowState(k) /\ Applicable(ops[t][k], main[k]) /\ main[k].del \in BOOLEAN
            BY <3>1, Types DEF DataInv, Session
        <3>3. UNCHANGED <<main, status, log, cp, lsn, avail, phase, todo>>
            BY <1>1, <1>4
        <3>4. Replay(Cut, k)' = Replay(Cut, k) /\ Version(k)' = Version(k)
            BY <3>3 DEF Replay, RowFrom, Cut, Version
        <3>5. CASE preAlloc[k]
            <4>1. phase = "CAPTURE" /\ k \in todo /\ Untouched(k) /\ ~main[k].del
                BY <3>5, PreAllocOwned
            <4>2. ops[t][k] # "INS"
                BY <3>2, <4>1 DEF Applicable
            <4>3. stable'[k] = 0 /\ ~preAlloc'[k]
                BY <1>6, <2>4, <3>5, <4>2 DEF PreAllocated
            <4>4. Untouched(k)'
                BY <3>1, <3>3, <3>4, <4>1, <4>3 DEF Untouched
            <4> QED
                BY <2>2, <3>3, <4>1, <4>4 DEF RowState
        <3>6. CASE ~preAlloc[k]
            <4>1. stable'[k] = stable[k] /\ preAlloc'[k] = preAlloc[k]
                BY <1>6, <3>6
            <4>2. Untouched(k) => Untouched(k)'
                BY <3>1, <3>3, <3>4, <3>6, <4>1 DEF Untouched
            <4>3. /\ Reset(k) => Reset(k)'
                  /\ Captured(k) => Captured(k)'
                  /\ Kept(k) => Kept(k)'
                BY <3>3, <3>4, <4>1 DEF Reset, Captured, Kept
            <4> QED
                BY <2>2, <3>2, <3>3, <4>2, <4>3 DEF RowState
        <3> QED
            BY <3>5, <3>6
    <2> QED
        BY <2>3, <2>4
<1>10. /\ left' \in [commits : Nat, checkpoints : Nat, aborts : Nat, failures : Nat]
       /\ left'.aborts = 0 /\ left'.failures = 0
    BY <1>1 DEF DataInv, Orderly
<1> QED
    BY <1>1, <1>3, <1>7, <1>8, <1>9, <1>10, SessionStep, Types

\* The mark ApplyWrite leaves.
LEMMA StatusIs ==
    ASSUME NEW t, NEW k
    PROVE  /\ tphase[t] = "CAPTURE" => StatusAfter(t, k) = avail
           /\ tphase[t] = "COMPLETE" /\ IsInsert(ops[t][k]) => StatusAfter(t, k) = ~nabit[t]
           /\ tphase[t] \in {"REST", "PREPARE"} /\ IsInsert(ops[t][k]) => StatusAfter(t, k) = ~avail
           /\ tphase[t] # "CAPTURE" /\ ~IsInsert(ops[t][k]) => StatusAfter(t, k) = status[k]
BY Zenon DEF StatusAfter

\* WriteChanges: the row before the cut is kept the first time it is overwritten, and a
\* row is marked for the checkpoint it belongs to.
LEMMA DataWrite ==
    ASSUME DataInv, NEW t \in Txn, WriteChanges(t), PhaseInv'
    PROVE  DataInv'
<1> DEFINE used == {k \in DOMAIN ops[t] : tphase[t] = "CAPTURE" /\ ops[t][k] # "INS"
                                          /\ status[k] = ~avail}
<1>1. /\ Outside /\ pc[t] = "logged" /\ pc' = [pc EXCEPT ![t] = "applied"]
      /\ UNCHANGED <<log, stable, owner, ops, rec, tphase, nabit, left>>
      /\ status' = [k \in Key |-> IF k \in DOMAIN ops[t] THEN StatusAfter(t, k) ELSE status[k]]
      /\ preAlloc' = [k \in Key |-> k \notin used /\ preAlloc[k]]
      /\ main' = [k \in Key |-> IF k \in DOMAIN ops[t]
                                THEN [pos |-> rec[t], del |-> ops[t][k] = "DEL"] ELSE main[k]]
    BY DEF WriteChanges, Outside, Go, mgrVars, cpVars, diskVars, txnVars
<1>2. pc'[t] = "applied" /\ \A u \in Txn \ {t} : pc'[u] = pc[u]
    BY <1>1, Types
<1>3. TypeOK /\ Session(t) /\ InCommit(t)
    BY <1>1 DEF DataInv, InCommit
<1>4. \A k \in DOMAIN ops[t] : owner[k] = t
    BY <1>3 DEF Session
<1>5. LogGrows /\ Own(t)
    BY <1>1, <1>2, <1>4 DEF LogGrows, Own
<1>6. UNCHANGED <<phase, avail, cp, todo, lsn, ctl>>
    BY <1>1 DEF Outside
<1>7. avail \in BOOLEAN /\ nabit[t] \in BOOLEAN /\ status \in [Key -> BOOLEAN]
    BY <1>3 DEF TypeOK
<1>8. DOMAIN ops[t] \subseteq Key /\ \A k \in DOMAIN ops[t] : ops[t][k] \in OpKind
    BY Types, WritesAre
<1>9. tphase[t] \in {"CAPTURE", "COMPLETE", "REST", "PREPARE"}
    BY <1>3, PhaseOfCommit DEF DataInv, TypeOK, Phases
<1>10. TypeOK'
    <2>1. \A k \in DOMAIN ops[t] : StatusAfter(t, k) \in BOOLEAN
        <3> TAKE k \in DOMAIN ops[t]
        <3>1. status[k] \in BOOLEAN /\ (~avail) \in BOOLEAN /\ (~nabit[t]) \in BOOLEAN
            BY <1>7, <1>8
        <3>2. \/ StatusAfter(t, k) = avail \/ StatusAfter(t, k) = ~avail
              \/ StatusAfter(t, k) = ~nabit[t] \/ StatusAfter(t, k) = status[k]
            BY <1>9, StatusIs
        <3> QED
            BY <1>7, <3>1, <3>2
    <2>2. status' \in [Key -> BOOLEAN]
        BY <1>1, <1>7, <2>1
    <2>3. preAlloc' \in [Key -> BOOLEAN]
        BY <1>1, <1>3 DEF TypeOK
    <2>4. main' \in [Key -> RowVersion]
        BY <1>1, Types DEF RowVersion
    <2> QED
        BY <1>1, <1>3, <1>5, <2>2, <2>3, <2>4, SessionTypes DEF TypeOK
<1>11. Session(t)'
    <2>1. \A k \in Key : ~Writing(t, k)'
        BY <1>2 DEF Writing
    <2> QED
        BY <1>1, <1>2, <1>3, <1>6, <2>1 DEF Session, Holding
<1>12. ASSUME NEW k \in Key
       PROVE  NewestRow(k)' /\ RowState(k)'
    <2>1. CASE k \notin DOMAIN ops[t]
        <3>1. \A u \in Txn : Writing(u, k)' = Writing(u, k) /\ Pending(u, k)' = Pending(u, k)
            BY <1>1, <1>2, <2>1 DEF Writing, Pending
        <3>2. main'[k] = main[k] /\ status'[k] = status[k] /\ preAlloc'[k] = preAlloc[k]
            BY <1>1, <1>3, <2>1 DEF TypeOK
        <3> QED
            BY <1>1, <1>5, <1>6, <3>1, <3>2, RowKeeps, NewestKeeps
    <2>2. CASE k \in DOMAIN ops[t]
        <3>1. /\ Writing(t, k) /\ Pending(t, k) /\ \A u \in Txn : Writing(u, k) => u = t
              /\ \A u \in Txn : ~Writing(u, k)' /\ ~Pending(u, k)'
            BY <1>1, <1>2, <2>2, OneWriter DEF Writing, Pending
        <3>2. /\ RowState(k) /\ NewestRow(k) /\ main[k].del \in BOOLEAN
              /\ (ops[t][k] = "INS") = main[k].del
            BY <1>3, <3>1, Types DEF DataInv, Session, Applicable
        <3>3. main'[k].pos = rec[t] /\ main'[k].del = (ops[t][k] = "DEL")
            BY <1>1, <2>2
        <3>4. NewestRow(k)'
            <4>1. LastAt(Len(log), k, rec[t])
                BY <3>1, <3>2 DEF NewestRow
            <4>2. rec[t] # 0 /\ log[rec[t]].ops[k] = ops[t][k]
                BY <1>1, <1>3 DEF Session
            <4>3. LastAt(Len(log), k, main[k].pos)'
                BY <1>1, <3>3, <4>1 DEF LastAt, Touches
            <4> QED
                BY <1>1, <3>1, <3>3, <4>2, <4>3 DEF NewestRow
        <3>5. status'[k] = StatusAfter(t, k) /\ preAlloc'[k] = (k \notin used /\ preAlloc[k])
            BY <1>1, <2>2
        <3>6. ops[t][k] \in {"INS", "RPL"} <=> IsInsert(ops[t][k])
            BY DEF IsInsert
        <3>7. CASE phase \in {"REST", "PREPARE", "RESOLVE"}
            <4>1. Reset(k) /\ tphase[t] \in {"COMPLETE", "REST", "PREPARE"}
                BY <1>3, <3>2, <3>7, PhaseOfCommit DEF RowState, DataInv
            <4>2. tphase[t] = "COMPLETE" => nabit[t] = avail
                <5>1. tphase[t] = "COMPLETE" => phase # "COMPLETE"
                    BY <3>7
                <5> QED
                    BY <1>3, <5>1 DEF Session
            <4>3. ~main'[k].del => status'[k] = ~avail
                <5>1. CASE IsInsert(ops[t][k])
                    <6>1. StatusAfter(t, k) = ~avail
                        BY <4>1, <4>2, <5>1, StatusIs
                    <6> QED
                        BY <3>5, <6>1
                <5>2. CASE ~IsInsert(ops[t][k])
                    <6>1. StatusAfter(t, k) = status[k]
                        BY <4>1, <5>2, StatusIs
                    <6>2. ~main[k].del
                        BY <3>2, <3>6, <5>2
                    <6> QED
                        BY <3>5, <4>1, <6>1, <6>2 DEF Reset
                <5> QED
                    BY <5>1, <5>2
            <4>4. stable'[k] = 0 /\ ~preAlloc'[k]
                BY <1>1, <3>5, <4>1 DEF Reset
            <4>5. Reset(k)'
                BY <1>6, <4>3, <4>4 DEF Reset
            <4> QED
                BY <1>6, <3>4, <3>7, <4>5 DEF RowState
        <3>8. CASE phase \in {"CAPTURE", "COMPLETE"} /\ k \notin todo
            <4>1. Captured(k) /\ tphase[t] \in {"CAPTURE", "COMPLETE"}
                BY <1>3, <3>2, <3>8, PhaseOfCommit DEF RowState, DataInv
            <4>2. tphase[t] = "COMPLETE" => nabit[t] = ~avail
                <5>1. tphase[t] = "COMPLETE" => phase = "COMPLETE"
                    BY <1>3, <3>8, PhaseOfCommit DEF DataInv
                <5> QED
                    BY <1>3, <5>1 DEF Session
            <4>3. ~main'[k].del => status'[k] = avail
                <5>1. CASE tphase[t] = "CAPTURE"
                    BY <3>5, <5>1, StatusIs
                <5>2. CASE tphase[t] = "COMPLETE" /\ IsInsert(ops[t][k])
                    <6>1. StatusAfter(t, k) = ~nabit[t] /\ nabit[t] = ~avail
                        BY <4>2, <5>2, StatusIs
                    <6> QED
                        BY <1>7, <3>5, <6>1
                <5>3. CASE tphase[t] = "COMPLETE" /\ ~IsInsert(ops[t][k])
                    <6>1. StatusAfter(t, k) = status[k]
                        BY <5>3, StatusIs
                    <6>2. ~main[k].del
                        BY <3>2, <3>6, <5>3
                    <6> QED
                        BY <3>5, <4>1, <6>1, <6>2 DEF Captured
                <5> QED
                    BY <4>1, <5>1, <5>2, <5>3
            <4>4. stable'[k] = 0 /\ ~preAlloc'[k]
                BY <1>1, <3>5, <4>1 DEF Captured
            <4>5. Captured(k)'
                BY <1>6, <4>3, <4>4 DEF Captured
            <4> QED
                BY <1>6, <3>4, <3>8, <4>5 DEF RowState
        <3>9. CASE phase = "CAPTURE" /\ k \in todo
            <4>1. tphase[t] = "CAPTURE"
                BY <1>3, <3>9, PhaseOfCommit DEF DataInv
            <4>2. status'[k] = avail
                BY <3>5, <4>1, StatusIs
            <4>3. Replay(Cut, k)' = Replay(Cut, k)
                BY <1>1, <1>6 DEF Replay, RowFrom, Cut
            <4>4. ASSUME Untouched(k)
                  PROVE  Kept(k)'
                <5>1. CASE ops[t][k] = "INS"
                    <6>1. main[k].del
                        BY <3>2, <5>1
                    <6>2. stable[k] = 0 /\ ~preAlloc[k] /\ Replay(Cut, k) = 0
                        BY <4>4, <6>1 DEF Untouched, Version
                    <6>3. ~preAlloc'[k]
                        BY <3>5, <6>2
                    <6> QED
                        BY <1>1, <1>6, <4>2, <4>3, <6>2, <6>3 DEF Kept
                <5>2. CASE ops[t][k] # "INS"
                    <6>1. ~main[k].del /\ status[k] = ~avail
                        BY <3>2, <4>4, <5>2 DEF Untouched
                    <6>2. stable[k] = main[k].pos /\ Replay(Cut, k) = main[k].pos
                        BY <3>1, <4>4, <5>2, <6>1 DEF Untouched, Version
                    <6>3. k \in used
                        BY <2>2, <4>1, <5>2, <6>1
                    <6>4. ~preAlloc'[k]
                        BY <3>5, <6>3
                    <6> QED
                        BY <1>1, <1>6, <4>2, <4>3, <6>2, <6>4 DEF Kept
                <5> QED
                    BY <5>1, <5>2
            <4>5. ASSUME Kept(k)
                  PROVE  Kept(k)'
                <5>1. stable[k] = Replay(Cut, k) /\ ~preAlloc[k]
                    BY <4>5 DEF Kept
                <5>2. ~preAlloc'[k]
                    BY <3>5, <5>1
                <5> QED
                    BY <1>1, <1>6, <4>2, <4>3, <5>1, <5>2 DEF Kept
            <4>6. Untouched(k) \/ Kept(k)
                BY <3>2, <3>9 DEF RowState
            <4>7. Kept(k)'
                BY <4>4, <4>5, <4>6
            <4> QED
                BY <1>6, <3>4, <3>9, <4>7 DEF RowState
        <3> QED
            <4>1. phase \in Phases /\ (phase = "COMPLETE" => todo = {})
                BY DEF DataInv, Orderly, TypeOK
            <4> QED
                BY <3>7, <3>8, <3>9, <4>1 DEF Phases
    <2> QED
        BY <2>1, <2>2
<1>13. /\ left' \in [commits : Nat, checkpoints : Nat, aborts : Nat, failures : Nat]
       /\ left'.aborts = 0 /\ left'.failures = 0
    BY <1>1 DEF DataInv, Orderly
<1> QED
    BY <1>1, <1>5, <1>10, <1>11, <1>12, <1>13, SessionStep, Types

\* The locks go, and with them the write set.
LEMMA DataRelease ==
    ASSUME DataInv, NEW t \in Txn, EndTransaction(t), PhaseInv'
    PROVE  DataInv'
<1>1. /\ Outside /\ pc[t] = "release"
      /\ UNCHANGED <<log, main, status, stable, preAlloc, left>>
      /\ owner' = [k \in Key |-> IF owner[k] = t THEN NoTxn ELSE owner[k]]
      /\ tphase' = [tphase EXCEPT ![t] = "NONE"]
      /\ nabit' = [nabit EXCEPT ![t] = FALSE]
      /\ ops' = [ops EXCEPT ![t] = NoWrites]
      /\ rec' = [rec EXCEPT ![t] = 0]
    BY DEF EndTransaction, Outside, mgrVars, cpVars, diskVars
<1>2. PICK to \in {"rollback", "idle"} : pc' = [pc EXCEPT ![t] = to]
    BY DEF EndTransaction, Go
<1>3. TypeOK
    BY DEF DataInv
<1>4. /\ pc'[t] = to /\ \A u \in Txn \ {t} : pc'[u] = pc[u]
      /\ ops'[t] = NoWrites /\ \A u \in Txn \ {t} : ops'[u] = ops[u]
      /\ \A u \in Txn \ {t} : rec'[u] = rec[u] /\ tphase'[u] = tphase[u] /\ nabit'[u] = nabit[u]
    BY <1>1, <1>2, <1>3 DEF TypeOK
<1>5. LogGrows /\ Own(t)
    BY <1>1, <1>4 DEF LogGrows, Own
<1>6. UNCHANGED <<phase, avail, cp, todo, lsn, ctl>>
    BY <1>1 DEF Outside
<1>7. TypeOK'
    <2>1. /\ owner' \in [Key -> Txn \cup {NoTxn}] /\ nabit' \in [Txn -> BOOLEAN]
          /\ ops' \in [Txn -> Writes] /\ rec' \in [Txn -> Nat]
        BY <1>1, <1>3, WritesAre DEF TypeOK
    <2> QED
        BY <1>1, <1>3, <1>5, <2>1, SessionTypes DEF TypeOK
<1>8. Session(t)'
    <2>1. DOMAIN ops'[t] = {} /\ \A k \in Key : ~Writing(t, k)'
        BY <1>4, WritesAre DEF Writing
    <2>2. ~InCommit(t)'
        BY <1>4 DEF InCommit
    <2> QED
        BY <1>4, <2>1, <2>2 DEF Session
<1>9. ASSUME NEW k \in Key
      PROVE  NewestRow(k)' /\ RowState(k)'
    <2>1. /\ \A u \in Txn : Writing(u, k)' = Writing(u, k) /\ Pending(u, k)' = Pending(u, k)
          /\ \A u \in Txn : Writing(u, k) => ops'[u][k] = ops[u][k]
          /\ \A u \in Txn : Pending(u, k) => rec'[u] = rec[u]
        BY <1>1, <1>4 DEF Writing, Pending
    <2> QED
        BY <1>1, <1>5, <1>6, <2>1, NewestKeeps, RowKeeps
<1>10. /\ left' \in [commits : Nat, checkpoints : Nat, aborts : Nat, failures : Nat]
       /\ left'.aborts = 0 /\ left'.failures = 0
    BY <1>1 DEF DataInv, Orderly
<1> QED
    BY <1>1, <1>5, <1>7, <1>8, <1>9, <1>10, SessionStep, Types

\* The record of a roll-back changes no row.
LEMMA DataRedoRollback ==
    ASSUME DataInv, NEW t \in Txn, RedoRollback(t), PhaseInv'
    PROVE  DataInv'
<1> DEFINE r == [kind |-> "rollback", ops |-> NoWrites, data |-> 0]
<1>1. /\ Outside /\ pc[t] = "rollback" /\ pc' = [pc EXCEPT ![t] = "idle"]
      /\ UNCHANGED <<main, status, stable, preAlloc, owner, ops, rec, tphase, nabit, left>>
      /\ ~redoLock /\ log' = Append(log, r)
    BY DEF RedoRollback, Outside, Go, LogOpen, mgrVars, cpVars, diskVars, rowVars, txnVars
<1>2. r \in Record /\ r.kind = "rollback"
    BY WritesAre DEF Record
<1> HIDE DEF r
<1>3. Len(log') = Len(log) + 1 /\ log'[Len(log) + 1] = r /\ cp # "snapshot"
    <2>1. cp # "snapshot"
        BY <1>1 DEF DataInv, Orderly
    <2> QED
        BY <1>1, <1>2, <2>1 DEF DataInv
<1>4. TypeOK /\ Session(t)
    BY DEF DataInv
<1>5. pc'[t] = "idle" /\ \A u \in Txn \ {t} : pc'[u] = pc[u]
    BY <1>1, Types
<1>6. LogGrows /\ Own(t)
    BY <1>1, <1>2, <1>5 DEF LogGrows, Own
<1>7. UNCHANGED <<phase, avail, cp, todo, lsn, ctl>>
    BY <1>1 DEF Outside
<1>8. TypeOK'
    BY <1>1, <1>4, <1>6, SessionTypes DEF TypeOK
<1>9. Session(t)'
    <2>1. DOMAIN ops[t] = {} /\ ~InCommit(t)'
        BY <1>1, <1>4, <1>5 DEF Session, Holding, InCommit
    <2>2. \A k \in Key : ~Writing(t, k)'
        BY <1>5 DEF Writing
    <2> QED
        BY <1>1, <1>5, <2>1, <2>2 DEF Session
<1>10. ASSUME NEW k \in Key
       PROVE  NewestRow(k)' /\ RowState(k)'
    <2>1. \A u \in Txn : Writing(u, k)' = Writing(u, k) /\ Pending(u, k)' = Pending(u, k)
        BY <1>1, <1>5 DEF Writing, Pending
    <2>2. NewestRow(k)'
        BY <1>1, <1>2, <2>1, NewestKeeps
    <2> QED
        BY <1>1, <1>3, <1>6, <1>7, <2>1, <2>2, RowKeeps
<1>11. /\ left' \in [commits : Nat, checkpoints : Nat, aborts : Nat, failures : Nat]
       /\ left'.aborts = 0 /\ left'.failures = 0
    BY <1>1 DEF DataInv, Orderly
<1>12. \A i \in 1..Len(log') : i > Len(log) => log'[i].kind # "commit"
    BY <1>2, <1>3, Types
<1> QED
    BY <1>1, <1>6, <1>8, <1>9, <1>10, <1>11, <1>12, SessionStep

-----------------------------------------------------------------------------
(* The checkpointer. *)

\* Entering REST exchanges the meaning of the mark, no other move does.
LEMMA AvailMoves ==
    ASSUME DataInv, MoveToNextPhase
    PROVE  /\ phase' = "REST" => avail' = ~avail
           /\ phase' # "REST" => avail' = avail
           /\ avail' \in BOOLEAN
           /\ redoLock' = (redoLock \/ phase' = "CAPTURE")
<1>1. avail' = (avail # (phase' = "REST")) /\ redoLock' = (redoLock \/ phase' = "CAPTURE")
    BY MoveIs DEF DataInv
<1>2. avail \in BOOLEAN
    BY Types
<1> QED
    BY <1>1, <1>2

\* What the checkpointer, or a session that leaves PREPARE, does not touch.
Beyond ==
    UNCHANGED <<log, main, status, stable, preAlloc, owner, tphase, nabit, ops, rec>>

\* A step that leaves log, rows and write sets alone, from what it does to the rest.
LEMMA CheckpointStep ==
    ASSUME DataInv, Beyond, PhaseInv', Orderly', Files',
           \A t \in Txn, k \in Key : Writing(t, k)' = Writing(t, k) /\ Pending(t, k)' = Pending(t, k),
           \A t \in Txn : Session(t)',
           \A k \in Key : RowState(k)',
           avail' \in BOOLEAN, {redoLock', recLock', walHeld', errorSet'} \subseteq BOOLEAN,
           todo' \subseteq Key, lsn' \in Nat, id' \in Nat, ctl' \in [id : Nat, lsn : Nat],
           \A i \in DOMAIN dirs' : dirs'[i] \in [image : [Key -> Nat], end : BOOLEAN],
           DataAfter(lsn)', DataAfter(ctl.lsn)'
    PROVE  DataInv'
<1>1. TypeOK /\ log \in Seq(Record)
    BY DEF DataInv
<1>2. PhaseTypes'
    BY DEF PhaseInv
<1>3. TypeOK'
    BY <1>1, <1>2 DEF TypeOK, PhaseTypes, Beyond
<1>4. \A k \in Key : NewestRow(k)'
    BY NewestKeeps DEF Beyond
<1> QED
    BY <1>1, <1>3, <1>4 DEF DataInv, Beyond

\* The sessions over a step that is not theirs, or that only ends a commit.
LEMMA SessionsStay ==
    ASSUME DataInv, Beyond,
           \A t \in Txn : pc'[t] = pc[t] \/ (pc[t] = "move" /\ pc'[t] = "release"),
           \A t \in Txn : pc[t] = "prepared" => rec[t] > lsn' /\ rec[t] > ctl'.lsn,
           \A t \in Txn : pc[t] \in {"prepared", "logged"} => cp' # "snapshot",
           \A t \in Txn : InCommit(t) /\ tphase[t] = "COMPLETE" =>
                             nabit[t] = IF phase' = "COMPLETE" THEN ~avail' ELSE avail'
    PROVE  /\ \A t \in Txn : Session(t)'
           /\ \A t \in Txn, k \in Key : Writing(t, k)' = Writing(t, k) /\ Pending(t, k)' = Pending(t, k)
<1>1. ASSUME NEW t \in Txn, NEW k \in Key
      PROVE  Writing(t, k)' = Writing(t, k) /\ Pending(t, k)' = Pending(t, k)
    BY DEF Beyond, Writing, Pending
<1>2. ASSUME NEW t \in Txn
      PROVE  Session(t)'
    <2>1. Session(t)
        BY DEF DataInv
    <2>2. InCommit(t)' = InCommit(t)
        BY DEF InCommit
    <2>3. \A k \in Key : Writing(t, k)' => Applicable(ops[t][k], main[k])'
        BY <1>1, <2>1 DEF Session, Applicable, Beyond
    <2> QED
        BY <2>1, <2>2, <2>3 DEF Session, Beyond, Holding
<1> QED
    BY <1>1, <1>2

\* The rows while the phase and the cut stay.
LEMMA RowStays ==
    ASSUME DataInv, Beyond, NEW k \in Key,
           UNCHANGED <<phase, avail, todo>>, Cut' = Cut,
           \A t \in Txn : Writing(t, k)' = Writing(t, k)
    PROVE  RowState(k)'
<1>1. RowState(k)
    BY DEF DataInv
<1>2. Replay(Cut, k)' = Replay(Cut, k) /\ Version(k)' = Version(k)
    BY DEF Beyond, Replay, RowFrom, Version
<1>3. /\ Reset(k) => Reset(k)'
      /\ Captured(k) => Captured(k)'
      /\ Kept(k) => Kept(k)'
    BY <1>2 DEF Beyond, Reset, Captured, Kept
<1>4. Untouched(k) => Untouched(k)'
    BY <1>2 DEF Beyond, Untouched
<1> QED
    BY <1>1, <1>3, <1>4 DEF RowState

\* A step of the checkpointer inside a phase.
LEMMA StillStep ==
    ASSUME DataInv, Beyond, PhaseInv', Orderly', Files',
           UNCHANGED <<phase, avail, todo, pc, id, lsn>>,
           cp # "snapshot", cp' # "snapshot",
           {redoLock', recLock', walHeld', errorSet'} \subseteq BOOLEAN,
           ctl' \in {ctl, [id |-> id, lsn |-> lsn]},
           \A i \in DOMAIN dirs' : dirs'[i] \in [image : [Key -> Nat], end : BOOLEAN]
    PROVE  DataInv'
<1>1. TypeOK /\ \A t \in Txn : Session(t)
    BY DEF DataInv
<1>2. ctl' \in [id : Nat, lsn : Nat] /\ ctl'.lsn \in {lsn, ctl.lsn}
    BY <1>1 DEF TypeOK
<1>3. /\ \A t \in Txn : Session(t)'
      /\ \A t \in Txn, k \in Key : Writing(t, k)' = Writing(t, k) /\ Pending(t, k)' = Pending(t, k)
    <2>1. \A t \in Txn : pc[t] = "prepared" => rec[t] > lsn' /\ rec[t] > ctl'.lsn
        BY <1>1, <1>2 DEF Session
    <2>2. \A t \in Txn : InCommit(t) /\ tphase[t] = "COMPLETE" =>
                            nabit[t] = IF phase' = "COMPLETE" THEN ~avail' ELSE avail'
        BY <1>1 DEF Session
    <2> QED
        BY <2>1, <2>2, SessionsStay
<1>4. Cut' = Cut
    BY DEF Cut
<1>5. \A k \in Key : RowState(k)'
    BY <1>3, <1>4, RowStays
<1>6. DataAfter(lsn)' /\ DataAfter(ctl.lsn)'
    BY <1>2 DEF DataInv, DataAfter, Beyond
<1> QED
    BY <1>1, <1>2, <1>3, <1>5, <1>6, CheckpointStep DEF TypeOK

\* The row at a redo point, over a step that leaves the log alone.
LEMMA ReplayStays ==
    ASSUME log' = log, NEW k
    PROVE  /\ lsn' = lsn => Replay(lsn, k)' = Replay(lsn, k)
           /\ ctl' = ctl => Replay(ctl.lsn, k)' = Replay(ctl.lsn, k)
           /\ ctl'.lsn = lsn => Replay(ctl.lsn, k)' = Replay(lsn, k)
BY DEF Replay, RowFrom

\* Writing the end file completes the directory of the image.
LEMMA DataCreateEndFile ==
    ASSUME DataInv, CreateEndFile, PhaseInv'
    PROVE  DataInv'
<1>1. /\ cp = "end" /\ cp' = "control" /\ dirs' = [dirs EXCEPT ![id].end = TRUE]
      /\ Beyond /\ UNCHANGED <<phase, cntBit, avail, todo, pc, id, lsn, ctl>>
      /\ UNCHANGED <<redoLock, recLock, walHeld, errorSet, left>>
    BY DEF CreateEndFile, WithEndFile, Beyond, mgrVars, rowVars, txnVars
<1>2. Files /\ TypeOK /\ Orderly
    BY DEF DataInv
<1>3. /\ DOMAIN dirs' = DOMAIN dirs /\ id \in DOMAIN dirs
      /\ dirs'[id].end /\ dirs'[id].image = dirs[id].image
      /\ \A i \in DOMAIN dirs \ {id} : dirs'[i] = dirs[i]
      /\ \A i \in DOMAIN dirs' : dirs'[i] \in [image : [Key -> Nat], end : BOOLEAN]
    BY <1>1, <1>2 DEF Files, TypeOK
<1>4. \A k \in Key : Replay(lsn, k)' = Replay(lsn, k) /\ Replay(ctl.lsn, k)' = Replay(ctl.lsn, k)
    BY <1>1, ReplayStays DEF Beyond
<1>5. Files'
    BY <1>1, <1>2, <1>3, <1>4 DEF Files, TypeOK
<1>6. Orderly'
    BY <1>1, <1>2 DEF Orderly, Faultless
<1> QED
    BY <1>1, <1>2, <1>3, <1>5, <1>6, StillStep DEF TypeOK

\* The control file names the new checkpoint: its image is the one at its redo point.
LEMMA DataControl ==
    ASSUME DataInv, UpdateControlFile, PhaseInv'
    PROVE  DataInv'
<1>1. /\ cp = "control" /\ cp' = "remove" /\ ctl' = [id |-> id, lsn |-> lsn]
      /\ Beyond /\ UNCHANGED <<phase, cntBit, avail, todo, pc, id, lsn, dirs>>
      /\ UNCHANGED <<redoLock, recLock, walHeld, errorSet, left>>
    BY DEF UpdateControlFile, Beyond, mgrVars, rowVars, txnVars
<1>2. Files /\ TypeOK /\ Orderly /\ PhaseOfStep
    BY DEF DataInv, PhaseInv
<1>3. todo = {} /\ ctl'.id = id /\ ctl'.lsn = lsn
    BY <1>1, <1>2 DEF Orderly, PhaseOfStep
<1>4. \A k \in Key : Replay(lsn, k)' = Replay(lsn, k) /\ Replay(ctl.lsn, k)' = Replay(lsn, k)
    BY <1>1, <1>3, ReplayStays DEF Beyond
<1>5. id \in Nat /\ ctl.id \in Nat /\ ctl.id < id
    BY <1>1, <1>2 DEF TypeOK, Files
<1>6. Files'
    BY <1>1, <1>2, <1>3, <1>4, <1>5 DEF Files
<1>7. Orderly'
    BY <1>1, <1>2 DEF Orderly, Faultless
<1> QED
    BY <1>1, <1>2, <1>6, <1>7, StillStep DEF TypeOK

\* Only the directories the control file does not name go.
LEMMA DataRemove ==
    ASSUME DataInv, RemoveOldCheckpoints, PhaseInv'
    PROVE  DataInv'
<1>1. /\ cp = "remove" /\ cp' = "completed" /\ dirs' = [i \in {id} |-> dirs[i]]
      /\ Beyond /\ UNCHANGED <<phase, cntBit, avail, todo, pc, id, lsn, ctl>>
      /\ UNCHANGED <<redoLock, recLock, walHeld, errorSet, left>>
    BY DEF RemoveOldCheckpoints, Restrict, Beyond, mgrVars, rowVars, txnVars
<1>2. Files /\ TypeOK /\ Orderly
    BY DEF DataInv
<1>3. /\ DOMAIN dirs' = {id} /\ dirs'[id] = dirs[id] /\ id \in DOMAIN dirs /\ ctl.id = id
      /\ id \in 1..id
    BY <1>1, <1>2 DEF Files
<1>4. \A k \in Key : Replay(lsn, k)' = Replay(lsn, k) /\ Replay(ctl.lsn, k)' = Replay(ctl.lsn, k)
    BY <1>1, ReplayStays DEF Beyond
<1>5. Files'
    BY <1>1, <1>2, <1>3, <1>4 DEF Files
<1>6. Orderly'
    BY <1>1, <1>2 DEF Orderly, Faultless
<1>7. \A i \in DOMAIN dirs' : dirs'[i] \in [image : [Key -> Nat], end : BOOLEAN]
    BY <1>2, <1>3 DEF TypeOK
<1> QED
    BY <1>1, <1>2, <1>5, <1>6, <1>7, StillStep DEF TypeOK

\* BeginCheckpoint starts the capture from rows nobody has captured yet.
LEMMA DataBeginCheckpoint ==
    ASSUME DataInv, BeginCheckpoint, PhaseInv'
    PROVE  DataInv'
<1>1. /\ cp = "ready" /\ cp' = "capturing"
      /\ Beyond /\ UNCHANGED <<phase, cntBit, avail, todo, pc, id, lsn, ctl, dirs>>
      /\ UNCHANGED <<redoLock, recLock, walHeld, errorSet, left>>
    BY DEF BeginCheckpoint, Beyond, mgrVars, rowVars, txnVars, diskVars
<1>2. Files /\ TypeOK /\ Orderly
    BY DEF DataInv
<1>3. \A k \in Key : Replay(lsn, k)' = Replay(lsn, k) /\ Replay(ctl.lsn, k)' = Replay(ctl.lsn, k)
    BY <1>1, ReplayStays DEF Beyond
<1>4. todo = Key
    BY <1>1, <1>2 DEF Orderly
<1>5. Files'
    BY <1>1, <1>2, <1>3, <1>4 DEF Files
<1>6. Orderly'
    BY <1>1, <1>2 DEF Orderly, Faultless
<1> QED
    BY <1>1, <1>2, <1>5, <1>6, StillStep DEF TypeOK

\* The redo point is the end of the log, and no session has written to it since CAPTURE
\* began: no commit is between its record and its rows, none is prepared.
LEMMA DataSnapshotReady ==
    ASSUME DataInv, SnapshotReady, PhaseInv'
    PROVE  DataInv'
<1>1. cp = "snapshot" /\ phase = "CAPTURE"
    BY DEF SnapshotReady, DataInv, PhaseInv, PhaseOfStep
<1>2. /\ lsn' = Len(log) /\ redoLock' = FALSE /\ recLock' = FALSE /\ cp' = "ready"
      /\ Beyond /\ UNCHANGED <<phase, cntBit, avail, todo, pc, id, ctl, dirs>>
      /\ UNCHANGED <<walHeld, errorSet, left>>
    BY <1>1 DEF SnapshotReady, ReleaseSnapshot, Beyond, rowVars, txnVars, diskVars
<1>3. Files /\ TypeOK /\ Orderly /\ \A t \in Txn : Session(t)
    BY DEF DataInv
<1>4. \A t \in Txn : pc[t] \notin {"prepared", "logged"}
    BY <1>1, <1>3 DEF Session
<1>5. \A t \in Txn : InCommit(t) /\ tphase[t] = "COMPLETE" =>
                        nabit[t] = IF phase' = "COMPLETE" THEN ~avail' ELSE avail'
    BY <1>2, <1>3 DEF Session
<1>6. /\ \A t \in Txn : Session(t)'
      /\ \A t \in Txn, k \in Key : Writing(t, k)' = Writing(t, k) /\ Pending(t, k)' = Pending(t, k)
    BY <1>2, <1>4, <1>5, SessionsStay
<1>7. Cut' = Cut
    BY <1>1, <1>2 DEF Cut
<1>8. \A k \in Key : RowState(k)'
    BY <1>2, <1>6, <1>7, RowStays
<1>9. DataAfter(lsn)' /\ DataAfter(ctl.lsn)'
    <2>1. DataAfter(ctl.lsn) /\ Len(log) \in Nat
        BY Types DEF DataInv
    <2>2. log' = log /\ ctl' = ctl
        BY <1>2 DEF Beyond
    <2> QED
        BY <1>2, <2>1, <2>2 DEF DataAfter
<1>10. \A k \in Key : Replay(ctl.lsn, k)' = Replay(ctl.lsn, k)
    BY <1>2, ReplayStays DEF Beyond
<1>11. Files'
    BY <1>1, <1>2, <1>3, <1>10 DEF Files
<1>12. Orderly'
    BY <1>1, <1>2, <1>3 DEF Orderly, Faultless
<1>13. {redoLock', recLock', walHeld', errorSet'} \subseteq BOOLEAN /\ lsn' \in Nat
    BY <1>2, <1>3, Types DEF TypeOK
<1> QED
    BY <1>2, <1>3, <1>6, <1>8, <1>9, <1>11, <1>12, <1>13, CheckpointStep DEF TypeOK

\* The rows before CAPTURE keep their state when one of its phases follows another.
LEMMA ResetStays ==
    ASSUME DataInv, Beyond, NEW k \in Key, avail' = avail,
           phase \in {"REST", "PREPARE", "RESOLVE"}, phase' \in {"REST", "PREPARE", "RESOLVE"}
    PROVE  RowState(k)'
<1>1. Reset(k)
    BY DEF DataInv, RowState
<1>2. Reset(k)'
    BY <1>1 DEF Reset, Beyond
<1> QED
    BY <1>2 DEF RowState

\* CreateSnapShot opens the directory of the next checkpoint id.
LEMMA DataCreateSnapShot ==
    ASSUME DataInv, CreateSnapShot, PhaseInv'
    PROVE  DataInv'
<1>1. cp = "idle" /\ phase = "REST"
    BY DEF CreateSnapShot, DataInv, PhaseInv, PhaseOfStep
<1>2. /\ MoveToNextPhase /\ cp' = "preparing" /\ errorSet' = FALSE /\ id' = id + 1
      /\ dirs' = [i \in DOMAIN dirs \cup {id + 1} |->
                    IF i = id + 1 THEN [image |-> EmptyImage, end |-> FALSE] ELSE dirs[i]]
      /\ Beyond /\ UNCHANGED <<counters, recLock, walHeld, todo, lsn, ctl, pc>>
      /\ left.checkpoints > 0 /\ left' = [left EXCEPT !["checkpoints"] = @ - 1]
    BY <1>1 DEF CreateSnapShot, Beyond, Spend, rowVars, txnVars
<1>3. phase' \in {"PREPARE", "RESOLVE"}
    BY <1>1, <1>2, MoveIs DEF DataInv
<1>4. avail' = avail /\ avail' \in BOOLEAN /\ redoLock' = redoLock
    <2>1. avail' = avail /\ avail' \in BOOLEAN /\ redoLock' = (redoLock \/ phase' = "CAPTURE")
        BY <1>2, <1>3, AvailMoves
    <2>2. redoLock \in BOOLEAN /\ phase' # "CAPTURE"
        BY <1>3 DEF DataInv, TypeOK
    <2> QED
        BY <2>1, <2>2
<1>5. Files /\ TypeOK /\ Orderly /\ \A t \in Txn : Session(t)
    BY DEF DataInv
<1>6. /\ \A t \in Txn : Session(t)'
      /\ \A t \in Txn, k \in Key : Writing(t, k)' = Writing(t, k) /\ Pending(t, k)' = Pending(t, k)
    <2>1. \A t \in Txn : InCommit(t) /\ tphase[t] = "COMPLETE" =>
                            nabit[t] = IF phase' = "COMPLETE" THEN ~avail' ELSE avail'
        BY <1>1, <1>3, <1>4, <1>5 DEF Session
    <2>2. \A t \in Txn : pc[t] = "prepared" => rec[t] > lsn' /\ rec[t] > ctl'.lsn
        BY <1>2, <1>5 DEF Session
    <2> QED
        BY <1>2, <2>1, <2>2, SessionsStay
<1>7. \A k \in Key : RowState(k)'
    BY <1>1, <1>2, <1>3, <1>4, ResetStays
<1>8. DataAfter(lsn)' /\ DataAfter(ctl.lsn)'
    BY <1>2 DEF DataInv, DataAfter, Beyond
<1>9. \A k \in Key : Replay(lsn, k)' = Replay(lsn, k) /\ Replay(ctl.lsn, k)' = Replay(ctl.lsn, k)
    BY <1>2, ReplayStays DEF Beyond
<1>10. id \in Nat /\ ctl.id \in Nat /\ id + 1 \notin DOMAIN dirs
    BY <1>5 DEF TypeOK, Files
<1>11. /\ DOMAIN dirs' = DOMAIN dirs \cup {id + 1}
       /\ \A i \in DOMAIN dirs : dirs'[i] = dirs[i]
       /\ dirs'[id + 1] = [image |-> EmptyImage, end |-> FALSE]
    BY <1>2, <1>10
<1>12. Files'
    <2>1. \A i \in DOMAIN dirs' : i \in 1..id'
        BY <1>2, <1>5, <1>10, <1>11 DEF Files
    <2>2. ctl.id <= id' /\ ctl.id < id' /\ id' \in DOMAIN dirs'
        BY <1>2, <1>5, <1>10, <1>11 DEF Files
    <2>3. ctl.id # 0 => /\ ctl.id \in DOMAIN dirs' /\ dirs'[ctl.id].end
                        /\ \A k \in Key : dirs'[ctl.id].image[k] = Replay(ctl.lsn, k)'
        BY <1>5, <1>9, <1>11 DEF Files
    <2> QED
        BY <1>2, <1>5, <2>1, <2>2, <2>3 DEF Files
<1>13. \A i \in DOMAIN dirs' : dirs'[i] \in [image : [Key -> Nat], end : BOOLEAN]
    <2>1. EmptyImage \in [Key -> Nat]
        BY DEF EmptyImage
    <2>2. dirs'[id + 1] \in [image : [Key -> Nat], end : BOOLEAN]
        BY <1>11, <2>1
    <2>3. \A i \in DOMAIN dirs : dirs'[i] \in [image : [Key -> Nat], end : BOOLEAN]
        BY <1>5, <1>11 DEF TypeOK
    <2> QED
        BY <1>11, <2>2, <2>3
<1>14. Orderly'
    <2>1. /\ left' \in [commits : Nat, checkpoints : Nat, aborts : Nat, failures : Nat]
          /\ left'.aborts = 0 /\ left'.failures = 0
        BY <1>2, <1>5 DEF Orderly
    <2> QED
        BY <1>1, <1>2, <1>3, <1>4, <1>5, <2>1 DEF Orderly, Faultless
<1>15. /\ {redoLock', recLock', walHeld', errorSet'} \subseteq BOOLEAN /\ id' \in Nat
       /\ todo' \subseteq Key /\ lsn' \in Nat /\ ctl' \in [id : Nat, lsn : Nat]
    <2>1. /\ {redoLock, recLock, walHeld} \subseteq BOOLEAN /\ todo \subseteq Key
          /\ lsn \in Nat /\ ctl \in [id : Nat, lsn : Nat]
        BY <1>5 DEF TypeOK
    <2>2. /\ redoLock' \in BOOLEAN /\ recLock' \in BOOLEAN /\ walHeld' \in BOOLEAN
          /\ errorSet' \in BOOLEAN
        BY <1>2, <1>4, <2>1
    <2>3. id' \in Nat
        BY <1>2, <1>10
    <2>4. todo' \subseteq Key /\ lsn' \in Nat /\ ctl' \in [id : Nat, lsn : Nat]
        BY <1>2, <2>1
    <2> QED
        BY <2>2, <2>3, <2>4
<1> QED
    BY <1>2, <1>4, <1>6, <1>7, <1>8, <1>12, <1>13, <1>14, <1>15, CheckpointStep

\* When CAPTURE begins no commit is in progress, so that every row is the one the whole
\* log gives.
LEMMA DataEnterCapture ==
    ASSUME DataInv, EnterCapture, PhaseInv'
    PROVE  DataInv'
<1>1. /\ cp = "preparing" /\ phase = "RESOLVE" /\ PrevDone /\ MoveToNextPhase
      /\ recLock' = TRUE /\ todo' = Key /\ cp' = "snapshot"
      /\ Beyond /\ UNCHANGED <<counters, walHeld, errorSet, lsn, id, dirs, ctl, pc, left>>
    BY DEF EnterCapture, CutOffReached, Beyond, rowVars, txnVars, diskVars
<1>2. phase' = "CAPTURE"
    BY <1>1, MoveIs DEF DataInv
<1>3. avail' = avail /\ avail' \in BOOLEAN /\ redoLock' = TRUE
    <2>1. avail' = avail /\ avail' \in BOOLEAN /\ redoLock' = (redoLock \/ phase' = "CAPTURE")
        BY <1>1, <1>2, AvailMoves
    <2> QED
        BY <1>2, <2>1
<1>4. Files /\ TypeOK /\ Orderly /\ \A t \in Txn : Session(t)
    BY DEF DataInv
<1>5. \A t \in Txn : ~InCommit(t)
    BY <1>1, PrevDoneMeans DEF DataInv, PhaseInv, NoneBeginsInResolve
<1>6. \A t \in Txn, k \in Key : ~Writing(t, k) /\ ~Pending(t, k)
    BY <1>5 DEF InCommit, Writing, Pending
<1>7. /\ \A t \in Txn : Session(t)'
      /\ \A t \in Txn, k \in Key : Writing(t, k)' = Writing(t, k) /\ Pending(t, k)' = Pending(t, k)
    BY <1>1, <1>5, SessionsStay DEF InCommit
<1>8. ASSUME NEW k \in Key
      PROVE  RowState(k)'
    <2>1. Reset(k) /\ NewestRow(k)
        BY <1>1 DEF DataInv, RowState
    <2>2. LastAt(Len(log), k, main[k].pos)
        BY <1>6, <2>1 DEF NewestRow
    <2>3. Version(k) = Replay(Len(log), k)
        BY <2>1, <2>2, ReplayOfLast, Types DEF Version, NewestRow
    <2>4. Cut' = Len(log)
        BY <1>1 DEF Cut, Beyond
    <2>5. Version(k)' = Replay(Cut, k)'
        BY <1>1, <2>3, <2>4 DEF Version, Replay, RowFrom, Beyond
    <2>6. Untouched(k)'
        BY <1>1, <1>3, <1>6, <1>7, <2>1, <2>5 DEF Untouched, Reset, Beyond
    <2> QED
        BY <1>1, <1>2, <2>6 DEF RowState
<1>9. DataAfter(lsn)' /\ DataAfter(ctl.lsn)'
    BY <1>1 DEF DataInv, DataAfter, Beyond
<1>10. \A k \in Key : Replay(lsn, k)' = Replay(lsn, k) /\ Replay(ctl.lsn, k)' = Replay(ctl.lsn, k)
    BY <1>1, ReplayStays DEF Beyond
<1>11. Files'
    BY <1>1, <1>4, <1>10 DEF Files
<1>12. Orderly'
    BY <1>1, <1>2, <1>3, <1>4 DEF Orderly, Faultless
<1> QED
    BY <1>1, <1>3, <1>4, <1>7, <1>8, <1>9, <1>11, <1>12, CheckpointStep DEF TypeOK

\* The worker writes the row at the redo point, whatever happened to the row since.
LEMMA DataCheckpoint ==
    ASSUME DataInv, NEW k \in Key, Checkpoint(k), PhaseInv'
    PROVE  DataInv'
<1>1. /\ cp = "capturing" /\ k \in todo /\ owner[k] = NoTxn
      /\ dirs' = [dirs EXCEPT ![id].image[k] = RowOutcome(k).write]
      /\ status' = [status EXCEPT ![k] = IF RowOutcome(k).mark THEN avail ELSE @]
      /\ stable' = [stable EXCEPT ![k] = IF RowOutcome(k).drop THEN 0 ELSE @]
      /\ errorSet' = RowOutcome(k).error
      /\ todo' = todo \ {k}
      /\ UNCHANGED <<phase, cntBit, avail, redoLock, counters, recLock, walHeld, cp, lsn, id>>
      /\ UNCHANGED <<ctl, log, main, preAlloc, owner, pc, tphase, nabit, ops, rec, seen, left>>
    BY DEF Checkpoint, mgrVars, txnVars
<1>2. /\ Files /\ TypeOK /\ Orderly /\ RowState(k) /\ NewestRow(k)
      /\ \A t \in Txn : Session(t)
    BY DEF DataInv
<1>3. phase = "CAPTURE" /\ Cut = lsn
    BY <1>1 DEF DataInv, PhaseInv, PhaseOfStep, Cut
<1>4. \A t \in Txn : ~Writing(t, k)
    BY <1>1, OneWriter DEF Writing
<1>5. /\ avail \in BOOLEAN /\ main[k].del \in BOOLEAN /\ main[k].pos \in Nat
      /\ status[k] \in BOOLEAN /\ stable[k] \in Nat /\ (main[k].pos = 0 => main[k].del)
    BY <1>2, Types DEF TypeOK, NewestRow
<1>6. Untouched(k) \/ Kept(k)
    BY <1>1, <1>2, <1>3 DEF RowState
<1>7. /\ RowOutcome(k).write = Replay(lsn, k)
      /\ RowOutcome(k).error = FALSE
      /\ ~preAlloc[k]
      /\ stable'[k] = 0
      /\ ~main[k].del => status'[k] = avail
    <2> DEFINE exists == main[k].pos # 0
               done == status[k] = avail
               held == stable[k] # 0
               mark == exists /\ ~done /\ ~held /\ ~main[k].del
    <2>1. /\ RowOutcome(k).write = IF mark THEN main[k].pos ELSE IF exists /\ done THEN stable[k] ELSE 0
          /\ RowOutcome(k).mark = mark
          /\ RowOutcome(k).drop = (exists /\ held /\ (done \/ main[k].del))
          /\ RowOutcome(k).error = (exists /\ held /\ ~done)
        BY DEF RowOutcome
    <2>2. /\ stable'[k] = IF RowOutcome(k).drop THEN 0 ELSE stable[k]
          /\ status'[k] = IF RowOutcome(k).mark THEN avail ELSE status[k]
        BY <1>1, <1>2 DEF TypeOK
    <2>3. CASE Untouched(k)
        <3>1. stable[k] = 0 /\ ~preAlloc[k] /\ ~held
            BY <1>4, <2>3 DEF Untouched
        <3>2. Replay(lsn, k) = IF main[k].del THEN 0 ELSE main[k].pos
            BY <1>3, <2>3 DEF Untouched, Version
        <3>3. CASE main[k].del
            BY <2>1, <2>2, <3>1, <3>2, <3>3
        <3>4. CASE ~main[k].del
            <4>1. exists /\ ~done /\ mark
                BY <1>5, <2>3, <3>1, <3>4 DEF Untouched
            <4> QED
                BY <2>1, <2>2, <3>1, <3>2, <3>4, <4>1
        <3> QED
            BY <3>3, <3>4
    <2>4. CASE Kept(k)
        <3>1. done /\ ~mark /\ ~preAlloc[k] /\ stable[k] = Replay(lsn, k)
            BY <1>3, <2>4 DEF Kept
        <3>2. ~exists => stable[k] = 0
            <4> SUFFICES ASSUME ~exists
                         PROVE  stable[k] = 0
                OBVIOUS
            <4>1. \A t \in Txn : ~Pending(t, k)
                BY <1>4 DEF Writing, Pending
            <4>2. LastAt(Len(log), k, 0)
                BY <1>2, <4>1 DEF NewestRow
            <4>3. LastAt(lsn, k, 0)
                BY <4>2, Types DEF LastAt
            <4>4. Replay(lsn, k) = 0
                BY <4>3, ReplayOfLast, Types
            <4> QED
                BY <3>1, <4>4
        <3> QED
            BY <2>1, <2>2, <3>1, <3>2
    <2> QED
        BY <1>6, <2>3, <2>4
<1>8. \A j \in Key \ {k} : status'[j] = status[j] /\ stable'[j] = stable[j]
    BY <1>1, <1>2 DEF TypeOK
<1>9. LogGrows /\ \A t \in Txn, j \in Key : Writing(t, j)' = Writing(t, j) /\ Pending(t, j)' = Pending(t, j)
    BY <1>1 DEF LogGrows, Writing, Pending
<1>10. ASSUME NEW j \in Key
       PROVE  NewestRow(j)' /\ RowState(j)'
    <2>1. NewestRow(j)'
        BY <1>1, <1>9, NewestKeeps
    <2>2. CASE j = k
        <3>1. Captured(k)'
            BY <1>1, <1>7 DEF Captured
        <3> QED
            BY <1>1, <1>3, <2>1, <2>2, <3>1 DEF RowState
    <2>3. CASE j # k
        <3>1. RowState(j)
            BY DEF DataInv
        <3>2. Replay(Cut, j)' = Replay(Cut, j) /\ Version(j)' = Version(j)
            BY <1>1 DEF Replay, RowFrom, Cut, Version
        <3>3. /\ Captured(j) => Captured(j)'
              /\ Kept(j) => Kept(j)'
            BY <1>1, <1>8, <2>3, <3>2 DEF Captured, Kept
        <3>4. Untouched(j) => Untouched(j)'
            BY <1>1, <1>8, <1>9, <2>3, <3>2 DEF Untouched
        <3> QED
            BY <1>1, <1>3, <2>1, <2>3, <3>1, <3>3, <3>4 DEF RowState
    <2> QED
        BY <2>2, <2>3
<1>11. \A t \in Txn : Session(t)'
    <2> TAKE t \in Txn
    <2>1. Session(t)
        BY DEF DataInv
    <2>2. InCommit(t)' = InCommit(t)
        BY <1>1 DEF InCommit
    <2>3. \A j \in Key : Writing(t, j)' => Applicable(ops[t][j], main[j])'
        BY <1>1, <1>9, <2>1 DEF Session, Applicable
    <2> QED
        BY <1>1, <2>1, <2>2, <2>3 DEF Session
<1>12. /\ DOMAIN dirs' = DOMAIN dirs /\ id \in DOMAIN dirs
       /\ dirs'[id].end = dirs[id].end /\ dirs'[id].image[k] = Replay(lsn, k)
       /\ \A j \in Key \ {k} : dirs'[id].image[j] = dirs[id].image[j]
       /\ \A i \in DOMAIN dirs \ {id} : dirs'[i] = dirs[i]
       /\ \A i \in DOMAIN dirs' : dirs'[i] \in [image : [Key -> Nat], end : BOOLEAN]
    <2>1. id \in DOMAIN dirs /\ dirs[id] \in [image : [Key -> Nat], end : BOOLEAN]
        BY <1>1, <1>2 DEF Files, TypeOK
    <2>2. RowOutcome(k).write \in Nat
        BY <1>5 DEF RowOutcome
    <2>3. PICK v \in Nat : v = RowOutcome(k).write
        BY <2>2
    <2>4. dirs' = [dirs EXCEPT ![id].image[k] = v]
        BY <1>1, <2>3
    <2> QED
        BY <1>2, <1>7, <2>1, <2>3, <2>4 DEF TypeOK
<1>13. \A j \in Key : Replay(lsn, j)' = Replay(lsn, j) /\ Replay(ctl.lsn, j)' = Replay(ctl.lsn, j)
    BY <1>1, ReplayStays
<1>14. Files'
    <2>1. \A j \in Key \ todo' : dirs'[id].image[j] = Replay(lsn, j)'
        BY <1>1, <1>2, <1>12, <1>13 DEF Files
    <2>2. id \in Nat /\ ctl.id \in Nat /\ ctl.id < id
        BY <1>1, <1>2 DEF Files, TypeOK
    <2>3. ctl.id # 0 => /\ ctl.id \in DOMAIN dirs' /\ dirs'[ctl.id].end
                        /\ \A j \in Key : dirs'[ctl.id].image[j] = Replay(ctl.lsn, j)'
        BY <1>2, <1>12, <1>13, <2>2 DEF Files
    <2> QED
        BY <1>1, <1>2, <1>12, <2>1, <2>3 DEF Files
<1>15. Orderly'
    BY <1>1, <1>2, <1>3, <1>7 DEF Orderly, Faultless
<1>16. DataAfter(lsn)' /\ DataAfter(ctl.lsn)'
    BY <1>1 DEF DataInv, DataAfter
<1>17. TypeOK'
    <2>1. stable' \in [Key -> Nat] /\ status' \in [Key -> BOOLEAN]
        BY <1>1, <1>2 DEF TypeOK
    <2>2. errorSet' \in BOOLEAN /\ todo' \subseteq Key
        BY <1>1, <1>2, <1>7 DEF TypeOK
    <2> QED
        BY <1>1, <1>2, <1>12, <2>1, <2>2 DEF TypeOK
<1> QED
    BY <1>1, <1>10, <1>11, <1>14, <1>15, <1>16, <1>17 DEF DataInv

\* The workers are through: every row is captured.
LEMMA DataEndCapture ==
    ASSUME DataInv, EndCapture, PhaseInv'
    PROVE  DataInv'
<1>1. /\ cp = "capturing" /\ todo = {} /\ PrevDone /\ MoveToNextPhase /\ cp' = "end"
      /\ phase = "CAPTURE" /\ Beyond
      /\ UNCHANGED <<recLock, walHeld, todo, errorSet, lsn, id, dirs, ctl, pc, left>>
    BY DEF EndCapture, AfterCapture, DataInv, Orderly, PhaseInv, PhaseOfStep, Beyond, rowVars, txnVars, diskVars
<1>2. phase' = "COMPLETE"
    BY <1>1, MoveIs DEF DataInv
<1>3. avail' = avail /\ avail' \in BOOLEAN /\ redoLock' = redoLock
    <2>1. avail' = avail /\ avail' \in BOOLEAN /\ redoLock' = (redoLock \/ phase' = "CAPTURE")
        BY <1>1, <1>2, AvailMoves
    <2>2. redoLock \in BOOLEAN /\ phase' # "CAPTURE"
        BY <1>2 DEF DataInv, TypeOK
    <2> QED
        BY <2>1, <2>2
<1>4. Files /\ TypeOK /\ Orderly /\ \A t \in Txn : Session(t)
    BY DEF DataInv
<1>5. \A t \in Txn : InCommit(t) => tphase[t] = "CAPTURE"
    BY <1>1, PrevDoneMeans DEF DataInv
<1>6. /\ \A t \in Txn : Session(t)'
      /\ \A t \in Txn, k \in Key : Writing(t, k)' = Writing(t, k) /\ Pending(t, k)' = Pending(t, k)
    <2>1. \A t \in Txn : pc[t] = "prepared" => rec[t] > lsn' /\ rec[t] > ctl'.lsn
        BY <1>1, <1>4 DEF Session
    <2> QED
        BY <1>1, <1>5, <2>1, SessionsStay
<1>7. ASSUME NEW k \in Key
      PROVE  RowState(k)'
    <2>1. Captured(k)
        BY <1>1 DEF DataInv, RowState
    <2>2. Captured(k)'
        BY <1>1, <1>3, <2>1 DEF Captured, Beyond
    <2> QED
        BY <1>2, <2>2 DEF RowState
<1>8. DataAfter(lsn)' /\ DataAfter(ctl.lsn)'
    BY <1>1 DEF DataInv, DataAfter, Beyond
<1>9. \A k \in Key : Replay(lsn, k)' = Replay(lsn, k) /\ Replay(ctl.lsn, k)' = Replay(ctl.lsn, k)
    BY <1>1, ReplayStays DEF Beyond
<1>10. Files'
    BY <1>1, <1>4, <1>9 DEF Files
<1>11. Orderly'
    BY <1>1, <1>3, <1>4 DEF Orderly, Faultless
<1> QED
    BY <1>1, <1>3, <1>4, <1>6, <1>7, <1>8, <1>10, <1>11, CheckpointStep DEF TypeOK

\* The meaning of the mark flips: a captured row is one that is not captured yet.
LEMMA DataEnterRest ==
    ASSUME DataInv, EnterRest, PhaseInv'
    PROVE  DataInv'
<1>1. /\ cp = "completed" /\ PrevDone /\ MoveToNextPhase /\ cp' = "idle" /\ todo' = {}
      /\ phase = "COMPLETE" /\ Beyond
      /\ UNCHANGED <<recLock, walHeld, errorSet, lsn, id, dirs, ctl, pc, left>>
    BY DEF EnterRest, DataInv, Orderly, PhaseInv, PhaseOfStep, Beyond, rowVars, txnVars, diskVars
<1>2. phase' = "REST"
    BY <1>1, MoveIs DEF DataInv
<1>3. avail' = ~avail /\ avail' \in BOOLEAN /\ redoLock' = redoLock /\ avail \in BOOLEAN
    <2>1. avail' = ~avail /\ avail' \in BOOLEAN /\ redoLock' = (redoLock \/ phase' = "CAPTURE")
        BY <1>1, <1>2, AvailMoves
    <2>2. redoLock \in BOOLEAN /\ phase' # "CAPTURE" /\ avail \in BOOLEAN
        BY <1>2 DEF DataInv, TypeOK
    <2> QED
        BY <2>1, <2>2
<1>4. Files /\ TypeOK /\ Orderly /\ \A t \in Txn : Session(t)
    BY DEF DataInv
<1>5. /\ \A t \in Txn : Session(t)'
      /\ \A t \in Txn, k \in Key : Writing(t, k)' = Writing(t, k) /\ Pending(t, k)' = Pending(t, k)
    <2>1. \A t \in Txn : pc[t] = "prepared" => rec[t] > lsn' /\ rec[t] > ctl'.lsn
        BY <1>1, <1>4 DEF Session
    <2>2. ASSUME NEW t \in Txn, InCommit(t), tphase[t] = "COMPLETE"
          PROVE  nabit[t] = IF phase' = "COMPLETE" THEN ~avail' ELSE avail'
        <3>1. nabit[t] = ~avail
            BY <1>1, <1>4, <2>2 DEF Session
        <3> QED
            BY <1>2, <1>3, <3>1
    <2> QED
        BY <1>1, <2>1, <2>2, SessionsStay
<1>6. ASSUME NEW k \in Key
      PROVE  RowState(k)'
    <2>1. Captured(k)
        BY <1>1 DEF DataInv, RowState, Orderly
    <2>2. avail = ~avail'
        BY <1>3
    <2>3. Reset(k)'
        BY <1>1, <2>1, <2>2 DEF Captured, Reset, Beyond
    <2> QED
        BY <1>2, <2>3 DEF RowState
<1>7. DataAfter(lsn)' /\ DataAfter(ctl.lsn)'
    BY <1>1 DEF DataInv, DataAfter, Beyond
<1>8. \A k \in Key : Replay(lsn, k)' = Replay(lsn, k) /\ Replay(ctl.lsn, k)' = Replay(ctl.lsn, k)
    BY <1>1, ReplayStays DEF Beyond
<1>9. Files'
    BY <1>1, <1>4, <1>8 DEF Files
<1>10. Orderly'
    BY <1>1, <1>2, <1>3, <1>4 DEF Orderly, Faultless
<1> QED
    BY <1>1, <1>3, <1>4, <1>5, <1>6, <1>7, <1>9, <1>10, CheckpointStep DEF TypeOK

\* A session that ends the last commit of REST moves on to RESOLVE.
LEMMA DataCompletePhase ==
    ASSUME DataInv, NEW t \in Txn, CompletePhase(t), PhaseInv'
    PROVE  DataInv'
<1>1. /\ pc[t] = "move" /\ pc' = [pc EXCEPT ![t] = "release"] /\ Beyond
      /\ UNCHANGED <<recLock, walHeld, cp, todo, errorSet, lsn, id, dirs, ctl, left>>
    BY DEF CompletePhase, Go, Beyond, cpVars, diskVars, rowVars, txnVars
<1>2. \A u \in Txn : pc'[u] = pc[u] \/ (pc[u] = "move" /\ pc'[u] = "release")
    BY <1>1, Types
<1>3. Files /\ TypeOK /\ Orderly /\ \A u \in Txn : Session(u)
    BY DEF DataInv
<1>4. /\ avail' = avail /\ redoLock' = redoLock
      /\ \/ UNCHANGED phase
         \/ phase = "PREPARE" /\ phase' = "RESOLVE"
    <2>1. CASE seen[t] = phase
        <3>1. phase = "PREPARE" /\ MoveToNextPhase
            BY <1>1, <2>1 DEF CompletePhase, DataInv, PhaseInv, Sleeper
        <3>2. phase' = "RESOLVE"
            BY <3>1, MoveIs DEF DataInv
        <3>3. avail' = avail /\ redoLock' = (redoLock \/ phase' = "CAPTURE")
            BY <3>1, <3>2, AvailMoves
        <3>4. redoLock \in BOOLEAN /\ phase' # "CAPTURE"
            BY <1>3, <3>2 DEF TypeOK
        <3> QED
            BY <3>1, <3>2, <3>3, <3>4
    <2>2. CASE seen[t] # phase
        BY <2>2 DEF CompletePhase, mgrVars
    <2> QED
        BY <2>1, <2>2
<1>5. /\ \A u \in Txn : Session(u)'
      /\ \A u \in Txn, k \in Key : Writing(u, k)' = Writing(u, k) /\ Pending(u, k)' = Pending(u, k)
    <2>1. \A u \in Txn : pc[u] = "prepared" => rec[u] > lsn' /\ rec[u] > ctl'.lsn
        BY <1>1, <1>3 DEF Session
    <2>2. \A u \in Txn : InCommit(u) /\ tphase[u] = "COMPLETE" =>
                            nabit[u] = IF phase' = "COMPLETE" THEN ~avail' ELSE avail'
        BY <1>3, <1>4 DEF Session
    <2>3. \A u \in Txn : pc[u] \in {"prepared", "logged"} => cp' # "snapshot"
        BY <1>1, <1>3 DEF Session
    <2> QED
        BY <1>1, <1>2, <2>1, <2>2, <2>3, SessionsStay
<1>6. ASSUME NEW k \in Key
      PROVE  RowState(k)'
    <2>1. CASE UNCHANGED phase
        <3>1. Cut' = Cut
            BY <1>1 DEF Cut, Beyond
        <3> QED
            BY <1>1, <1>4, <1>5, <2>1, <3>1, RowStays
    <2>2. CASE phase = "PREPARE" /\ phase' = "RESOLVE"
        BY <1>1, <1>4, <2>2, ResetStays
    <2> QED
        BY <1>4, <2>1, <2>2
<1>7. DataAfter(lsn)' /\ DataAfter(ctl.lsn)'
    BY <1>1 DEF DataInv, DataAfter, Beyond
<1>8. \A k \in Key : Replay(lsn, k)' = Replay(lsn, k) /\ Replay(ctl.lsn, k)' = Replay(ctl.lsn, k)
    BY <1>1, ReplayStays DEF Beyond
<1>9. Files'
    BY <1>1, <1>3, <1>8 DEF Files
<1>10. Orderly'
    BY <1>1, <1>3, <1>4 DEF Orderly, Faultless
<1> QED
    BY <1>1, <1>3, <1>4, <1>5, <1>6, <1>7, <1>9, <1>10, CheckpointStep DEF TypeOK

-----------------------------------------------------------------------------
(* The invariant. *)

\* The rows of one earlier load, no checkpoint yet.
LEMMA DataInit ==
    ASSUME Faultless, Init
    PROVE  DataInv
<1>1. PICK L \in SUBSET Key :
         /\ log = IF L = {} THEN <<>>
                  ELSE <<[kind |-> "commit", ops |-> [k \in L |-> "INS"], data |-> 1]>>
         /\ main = [k \in Key |-> IF k \in L THEN [pos |-> 1, del |-> FALSE] ELSE Absent]
    BY DEF Init
<1>2. /\ phase = "REST" /\ cntBit = 0 /\ avail = TRUE
      /\ counters = [b \in 0..1 |-> 0]
      /\ redoLock = FALSE /\ recLock = FALSE /\ walHeld = FALSE
      /\ cp = "idle" /\ todo = {} /\ errorSet = FALSE /\ lsn = 0 /\ id = 0
      /\ dirs = [i \in {} |-> 0]
      /\ ctl = [id |-> 0, lsn |-> 0]
      /\ status = [k \in Key |-> FALSE]
      /\ stable = [k \in Key |-> 0]
      /\ preAlloc = [k \in Key |-> FALSE]
      /\ owner = [k \in Key |-> NoTxn]
      /\ pc = [t \in Txn |-> "idle"]
      /\ tphase = [t \in Txn |-> "NONE"]
      /\ nabit = [t \in Txn |-> FALSE]
      /\ ops = [t \in Txn |-> NoWrites]
      /\ rec = [t \in Txn |-> 0]
      /\ left = [commits |-> MaxCommits, checkpoints |-> MaxCheckpoints,
                 aborts |-> MaxAborts, failures |-> MaxFailures]
    BY DEF Init
<1>3. PhaseInv
    BY PhaseInit
<1> DEFINE r == [kind |-> "commit", ops |-> [k \in L |-> "INS"], data |-> 1]
<1>4. r \in Record /\ r.kind = "commit" /\ DOMAIN r.ops = L /\ r.data = 1
      /\ \A k \in L : r.ops[k] = "INS"
    <2>1. [k \in L |-> "INS"] \in [L -> OpKind]
        BY DEF OpKind
    <2>2. [k \in L |-> "INS"] \in Writes
        BY <2>1 DEF Writes
    <2> QED
        BY <2>2 DEF Record
<1>5. /\ L = {} => log = <<>> /\ Len(log) = 0
      /\ L # {} => log = <<r>> /\ Len(log) = 1 /\ log[1] = r
    BY <1>1
<1> HIDE DEF r
<1>6. log \in Seq(Record)
    <2>1. <<>> \in Seq(Record)
        OBVIOUS
    <2>2. <<r>> \in Seq(Record)
        BY <1>4
    <2> QED
        BY <1>5, <2>1, <2>2
<1>7. TypeOK
    <2>1. main \in [Key -> RowVersion]
        BY <1>1 DEF Absent, RowVersion
    <2>2. \A i \in DOMAIN log : log[i] \in Record
        BY <1>6
    <2>3. PhaseTypes
        BY <1>3 DEF PhaseInv
    <2>4. ops \in [Txn -> Writes]
        BY <1>2, WritesAre
    <2> QED
        BY <1>2, <2>1, <2>2, <2>3, <2>4 DEF TypeOK, PhaseTypes
<1>8. Orderly
    BY <1>2, CheckpointAssumption DEF Orderly, Faultless
<1>9. \A t \in Txn : Session(t)
    BY <1>2, WritesAre DEF Session, Writing, InCommit
<1>10. ASSUME NEW k \in Key
       PROVE  NewestRow(k)
    <2>1. \A t \in Txn : ~Pending(t, k)
        BY <1>2 DEF Pending
    <2>2. CASE k \in L
        <3>1. Len(log) = 1 /\ log[1] = r /\ main[k] = [pos |-> 1, del |-> FALSE]
            BY <1>1, <1>5, <2>2
        <3>2. LastAt(Len(log), k, 1)
            BY <1>4, <2>2, <3>1 DEF LastAt, Touches
        <3>3. main[k].pos = 1 /\ main[k].del = FALSE /\ log[1].ops[k] = "INS"
            BY <1>4, <2>2, <3>1
        <3>4. LastAt(Len(log), k, main[k].pos)
            BY <3>2, <3>3
        <3>5. main[k].pos # 0 /\ main[k].del = (log[main[k].pos].ops[k] = "DEL")
            <4>1. main[k].pos # 0 /\ log[main[k].pos].ops[k] # "DEL"
                BY <3>3
            <4> QED
                BY <3>3, <4>1
        <3> QED
            BY <2>1, <3>4, <3>5 DEF NewestRow
    <2>3. CASE k \notin L
        <3>1. main[k].pos = 0 /\ main[k].del
            BY <1>1, <2>3 DEF Absent
        <3>2. \A i \in 1..Len(log) : ~Touches(i, k)
            BY <1>4, <1>5, <2>3 DEF Touches
        <3> QED
            BY <2>1, <3>1, <3>2 DEF NewestRow, LastAt
    <2> QED
        BY <2>2, <2>3
<1>11. \A k \in Key : RowState(k)
    BY <1>2 DEF RowState, Reset
<1>12. DataAfter(lsn) /\ DataAfter(ctl.lsn)
    BY <1>2, <1>4, <1>5 DEF DataAfter
<1>13. Files
    BY <1>2 DEF Files
<1> QED
    BY <1>3, <1>6, <1>7, <1>8, <1>9, <1>10, <1>11, <1>12, <1>13 DEF DataInv

\* Without aborts and failures those actions never happen.
LEMMA NoFault ==
    ASSUME DataInv
    PROVE  /\ ~Abort /\ ~AbortToComplete /\ ~AbortToRest
           /\ \A t \in Txn : ~Fail(t)
BY DEF DataInv, Orderly, Abort, AbortToComplete, AbortToRest, Fail, ReserveGcMemoryFails,
       RollbackValidated, PrepareFails, Spend

\* Every step, and every stutter, keeps the invariant.
LEMMA DataNext ==
    ASSUME DataInv, [Next /\ Prompt]_vars
    PROVE  DataInv'
<1>1. PhaseInv'
    BY PhaseStep DEF DataInv
<1>2. ASSUME NEW t \in Txn, BeginCommit(t) \/ Advance(t)
      PROVE  DataInv'
    BY <1>1, <1>2, DataBegin, DataEnd, DataValidate, DataValidateFails, DataLogs, DataRollback,
       DataWrite, DataRelease, DataRedoRollback, DataCompletePhase DEF Advance
<1>3. ASSUME CreateSnapShot \/ Checkpointer
      PROVE  DataInv'
    BY <1>1, <1>3, NoFault, DataCreateEndFile, DataControl, DataRemove, DataBeginCheckpoint,
       DataSnapshotReady, DataCreateSnapShot, DataEnterCapture, DataCheckpoint, DataEndCapture,
       DataEnterRest DEF Checkpointer
<1>4. CASE UNCHANGED vars
    <2>1. /\ Beyond /\ UNCHANGED <<phase, cntBit, avail, redoLock, recLock, walHeld, cp, todo>>
          /\ UNCHANGED <<errorSet, lsn, id, dirs, ctl, pc, left>>
        BY <1>4 DEF vars, Beyond, mgrVars, cpVars, diskVars, rowVars, txnVars
    <2>2. \A t \in Txn : Session(t)
        BY DEF DataInv
    <2>3. /\ \A t \in Txn : Session(t)'
          /\ \A t \in Txn, k \in Key : Writing(t, k)' = Writing(t, k) /\ Pending(t, k)' = Pending(t, k)
        BY <2>1, <2>2, SessionsStay DEF Session
    <2>4. Cut' = Cut
        BY <2>1 DEF Cut, Beyond
    <2>5. \A k \in Key : RowState(k)'
        BY <2>1, <2>3, <2>4, RowStays
    <2>6. \A k \in Key : Replay(lsn, k)' = Replay(lsn, k) /\ Replay(ctl.lsn, k)' = Replay(ctl.lsn, k)
        BY <2>1, ReplayStays DEF Beyond
    <2>7. Files' /\ Orderly' /\ DataAfter(lsn)' /\ DataAfter(ctl.lsn)'
        BY <2>1, <2>6 DEF DataInv, Files, Orderly, Faultless, DataAfter, Beyond
    <2>8. TypeOK
        BY DEF DataInv
    <2> QED
        BY <1>1, <2>1, <2>3, <2>5, <2>7, <2>8, CheckpointStep DEF TypeOK
<1> QED
    BY <1>2, <1>3, <1>4, NoFault DEF Next

\* The whole log, from the row before the records of commits that are yet to be applied.
LEMMA LastExists ==
    ASSUME DataInv, NEW k \in Key
    PROVE  \E p \in 0..Len(log) : LastAt(Len(log), k, p)
<1>1. NewestRow(k)
    BY DEF DataInv
<1>2. CASE \E t \in Txn : Pending(t, k)
    <2>1. PICK t \in Txn : Pending(t, k)
        BY <1>2
    <2>2. rec[t] \in 1..Len(log) /\ LastAt(Len(log), k, rec[t])
        BY <1>1, <2>1 DEF DataInv, Session, NewestRow, Pending
    <2> QED
        BY <2>2
<1>3. CASE \A t \in Txn : ~Pending(t, k)
    <2>1. LastAt(Len(log), k, main[k].pos)
        BY <1>1, <1>3 DEF NewestRow
    <2>2. main[k].pos \in 0..Len(log)
        BY <2>1, Types DEF LastAt
    <2> QED
        BY <2>1, <2>2
<1> QED
    BY <1>2, <1>3

\* The files and the records after the redo point give what the whole log gives.
LEMMA RecoveredIsReplay ==
    ASSUME DataInv
    PROVE  Recoverable
<1>1. Files /\ DataAfter(ctl.lsn) /\ log \in Seq(Record)
    BY DEF DataInv
<1>2. CheckpointValid
    BY <1>1 DEF Files, CheckpointValid
<1>3. ASSUME NEW k \in Key
      PROVE  Recovered(k) = Replay(Len(log), k)
    <2> DEFINE base == IF ctl.id = 0 THEN 0 ELSE dirs[ctl.id].image[k]
               after == {i \in {j \in 1..Len(log) : j > ctl.lsn /\ log[j].data > ctl.lsn} :
                            log[i].kind = "commit" /\ k \in DOMAIN log[i].ops}
    <2>1. base = Replay(ctl.lsn, k)
        <3>1. CASE ctl.id = 0
            <4>1. ctl.lsn = 0
                BY <1>1, <3>1 DEF Files
            <4>2. LastAt(0, k, 0)
                BY DEF LastAt
            <4>3. Replay(0, k) = 0
                BY <4>2, ReplayOfLast
            <4> QED
                BY <3>1, <4>1, <4>3
        <3>2. CASE ctl.id # 0
            BY <1>1, <3>2 DEF Files
        <3> QED
            BY <3>1, <3>2
    <2>2. Recovered(k) = IF after = {} THEN base
                         ELSE IF log[Max(after)].ops[k] = "DEL" THEN 0 ELSE Max(after)
        BY DEF Recovered, RowFrom
    <2>3. \A i \in 1..Len(log) : i \in after <=> i > ctl.lsn /\ Touches(i, k)
        BY <1>1, Types DEF DataAfter, Touches
    <2>4. PICK p \in 0..Len(log) : LastAt(Len(log), k, p)
        BY LastExists
    <2>5. Replay(Len(log), k) = IF p = 0 THEN 0 ELSE IF log[p].ops[k] = "DEL" THEN 0 ELSE p
        BY <2>4, ReplayOfLast, Types
    <2>6. CASE p <= ctl.lsn
        <3>1. after = {}
            BY <2>3, <2>4, <2>6, Types DEF LastAt
        <3>2. LastAt(ctl.lsn, k, p)
            BY <2>4, <2>6, Types DEF LastAt
        <3>3. Replay(ctl.lsn, k) = Replay(Len(log), k)
            BY <2>5, <3>2, ReplayOfLast, Types
        <3> HIDE DEF base, after
        <3> QED
            BY <2>1, <2>2, <3>1, <3>3
    <2>7. CASE p > ctl.lsn
        <3>1. p \in 1..Len(log) /\ Touches(p, k)
            BY <2>4, <2>7, Types DEF LastAt
        <3>2. p \in after /\ \A i \in after : i <= p
            BY <2>3, <2>4, <2>7, <3>1 DEF LastAt
        <3>3. after \subseteq 1..Len(log)
            OBVIOUS
        <3> HIDE DEF base, after
        <3>4. \A x \in after : (\A y \in after : x >= y) <=> x = p
            BY <3>2, <3>3, Types
        <3>5. Max(after) = p
            BY <3>2, <3>4 DEF Max
        <3> QED
            BY <2>2, <2>5, <3>1, <3>2, <3>5
    <2> QED
        BY <2>4, <2>6, <2>7, Types
<1> QED
    BY <1>2, <1>3 DEF Recoverable

\* The invariant gives each of the properties the runs check.
LEMMA DataInvImplies ==
    DataInv => TypeOK /\ CheckpointIsSnapshot /\ Recoverable /\ RowsReset
<1> SUFFICES ASSUME DataInv
             PROVE  TypeOK /\ CheckpointIsSnapshot /\ Recoverable /\ RowsReset
    OBVIOUS
<1>1. Orderly /\ PhaseOfStep /\ Files
    BY DEF DataInv, PhaseInv
<1>2. TypeOK /\ Recoverable
    BY RecoveredIsReplay DEF DataInv
<1>3. CheckpointIsSnapshot
    <2>1. cp \in {"end", "control", "remove"} => todo = {}
        BY <1>1 DEF Orderly, PhaseOfStep
    <2> QED
        BY <1>1, <2>1 DEF CheckpointIsSnapshot, Files
<1>4. RowsReset
    BY DEF DataInv, RowState, Reset, RowsReset
<1> QED
    BY <1>2, <1>3, <1>4

-----------------------------------------------------------------------------
\* The invariant holds throughout every faultless behaviour.
LEMMA DataInvariant == Faultless /\ PromptSpec => []DataInv
<1>1. Faultless /\ Init => DataInv
    BY DataInit
<1>2. DataInv /\ [Next /\ Prompt]_vars => DataInv'
    BY DataNext
<1> QED
    BY <1>1, <1>2, PTL DEF PromptSpec

\* Every variable keeps its type; in particular no counter of CheckpointManager wraps.
THEOREM CheckpointTypes == Faultless /\ PromptSpec => []TypeOK
BY DataInvariant, DataInvImplies, PTL

\* Although commits go on while the workers run, the finished files hold exactly the rows
\* that were committed at the redo point (CheckpointWorkerPool::Checkpoint, ApplyWrite and
\* PreAllocStableRow against the phases).
THEOREM ImageIsSnapshot == Faultless /\ PromptSpec => []CheckpointIsSnapshot
BY DataInvariant, DataInvImplies, PTL

\* A crash in any state loses nothing: the control file names a complete checkpoint, and it
\* and the log after its redo point give the committed rows, prepared transactions included
\* (CompleteCheckpoint against CheckpointRecovery and ApplyRedoLog).
THEOREM CrashLosesNothing == Faultless /\ PromptSpec => []Recoverable
BY DataInvariant, DataInvImplies, PTL

\* Between checkpoints no row has a copy and every row is marked as not captured.
THEOREM RowsAreReset == Faultless /\ PromptSpec => []RowsReset
BY DataInvariant, DataInvImplies, PTL

=============================================================================
