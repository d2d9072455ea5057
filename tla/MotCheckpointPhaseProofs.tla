---------------------- MODULE MotCheckpointPhaseProofs ----------------------
(***************************************************************************)
(* The phases of the MOT checkpoint, for any number of sessions, rows,     *)
(* commits and checkpoints, with aborted checkpoints and failed commits.   *)
(*                                                                         *)
(* PhaseInv is inductive as long as no session is held up in EndCommit,    *)
(* between its counter and the write lock, until the checkpoint is over    *)
(* (Prompt; the README shows what happens without it).  RedoPoint is then  *)
(* inductive too.  The argument: MoveToNextPhase runs                      *)
(* only when the other counter is zero, so every commit in progress began  *)
(* in the phase that is left; the counter it counts in becomes the other   *)
(* one.  For the checkpointer the guard says so; for a session that leaves *)
(* PREPARE it is what Sleepers remembers between its test and its move.    *)
(***************************************************************************)
EXTENDS MotCheckpoint, FiniteSetTheorems, TLAPS

Current == {t \in Txn : InCommit(t) /\ tphase[t] = phase}
Previous == {t \in Txn : InCommit(t) /\ tphase[t] # phase}

PhaseTypes ==
    /\ phase \in Phases /\ cntBit \in 0..1
    /\ counters \in [0..1 -> Nat]
    /\ cp \in CP
    /\ pc \in [Txn -> PC]
    /\ tphase \in [Txn -> Phases \cup {"NONE"}]
    /\ seen \in [Txn -> Phases \cup {"NONE"}]

\* The phase a step of the checkpointer runs in.
PhaseOfStep ==
    /\ cp \in {"idle", "panic"} => phase = "REST"
    /\ cp = "preparing" => phase \in {"PREPARE", "RESOLVE"}
    /\ cp \in {"snapshot", "ready", "capturing", "aborting"} => phase = "CAPTURE"
    /\ cp \in {"end", "control", "remove", "completed", "abortRest"} => phase = "COMPLETE"

\* What a session in EndCommit remembers is not older than this checkpoint, and one that
\* is about to leave PREPARE finds the commits of REST ended, or the phase left.
Sleeper(t) ==
    /\ pc[t] = "test" /\ phase = "REST" => seen[t] = "REST"
    /\ pc[t] = "test" /\ phase = "PREPARE" => seen[t] \in {"REST", "PREPARE"}
    /\ pc[t] = "move" => /\ seen[t] \in {"REST", "PREPARE"} /\ phase # "REST"
                         /\ phase = "PREPARE" => PrevDone

\* No session is inside EndCommit between its counter and the write lock.
NoSleeper == \A t \in Txn : pc[t] \notin {"test", "move"}

NoneBeginsInResolve == \A t \in Txn : InCommit(t) => tphase[t] # "RESOLVE"

PhaseInv ==
    /\ PhaseTypes
    /\ CountersMatch
    /\ CutOff
    /\ NoneBeginsInResolve
    /\ PhaseOfStep
    /\ \A t \in Txn : Sleeper(t)

-----------------------------------------------------------------------------
\* The cycle of the phases.
LEMMA NextIs ==
    /\ NextPhase("REST") = "PREPARE" /\ NextPhase("PREPARE") = "RESOLVE"
    /\ NextPhase("RESOLVE") = "CAPTURE" /\ NextPhase("CAPTURE") = "COMPLETE"
    /\ NextPhase("COMPLETE") = "REST"
BY DEF NextPhase

\* The cycle of the phases, read backwards.
LEMMA PrevIs ==
    /\ PrevPhase("PREPARE") = "REST" /\ PrevPhase("RESOLVE") = "PREPARE"
    /\ PrevPhase("CAPTURE") = "RESOLVE" /\ PrevPhase("COMPLETE") = "CAPTURE"
    /\ PrevPhase("REST") = "COMPLETE"
<1>1. ASSUME NEW p \in Phases, NEW q \in Phases, NextPhase(q) = p
      PROVE  PrevPhase(p) = q
    <2>1. PrevPhase(p) \in Phases /\ NextPhase(PrevPhase(p)) = p
        BY <1>1 DEF PrevPhase
    <2> QED
        BY NextIs, <1>1, <2>1 DEF Phases
<1> QED
    BY NextIs, <1>1 DEF Phases

\* The two sets the counters stand for.
LEMMA CommitSets ==
    /\ IsFiniteSet(Current) /\ Cardinality(Current) \in Nat
    /\ IsFiniteSet(Previous) /\ Cardinality(Previous) \in Nat
<1>1. Current \in SUBSET Txn /\ Previous \in SUBSET Txn
    BY DEF Current, Previous
<1> QED
    BY <1>1, CheckpointAssumption, FS_Subset, FS_CardinalityType

\* CountersMatch, said with the two sets the counters count.
LEMMA CountersAgree ==
    CountersMatch <=> /\ counters[cntBit] = Cardinality(Current)
                      /\ counters[1 - cntBit] = Cardinality(Previous)
BY DEF CountersMatch, Current, Previous

\* The other counter is zero only when every commit in progress began in this phase.
LEMMA PrevDoneMeans ==
    ASSUME PhaseInv
    PROVE  PrevDone <=> \A t \in Txn : InCommit(t) => tphase[t] = phase
<1>1. counters[1 - cntBit] = Cardinality(Previous)
    BY CountersAgree DEF PhaseInv
<1>2. PrevDone <=> Previous = {}
    BY <1>1, CommitSets, FS_EmptySet DEF PrevDone
<1> QED
    BY <1>2 DEF Previous

\* The counter of this phase is zero only when no commit in progress began in it.
LEMMA CurrentDoneMeans ==
    ASSUME PhaseInv, counters[cntBit] = 0
    PROVE  \A t \in Txn : InCommit(t) => tphase[t] # phase
<1>1. counters[cntBit] = Cardinality(Current)
    BY CountersAgree DEF PhaseInv
<1>2. Current = {}
    BY <1>1, CommitSets, FS_EmptySet
<1> QED
    BY <1>2 DEF Current

-----------------------------------------------------------------------------
(* The steps, sorted by what they do to the phase and the counters. *)

\* The checkpointer moves on without a change of phase.
LEMMA CheckpointerStays ==
    ASSUME PhaseInv, UNCHANGED <<phase, cntBit, counters, pc, tphase, seen>>,
           cp' \in CP, PhaseOfStep'
    PROVE  PhaseInv'
<1>1. PhaseTypes'
    BY DEF PhaseInv, PhaseTypes
<1>2. CountersMatch' /\ CutOff' /\ NoneBeginsInResolve'
    BY DEF PhaseInv, CountersMatch, CutOff, NoneBeginsInResolve, InCommit
<1>3. \A t \in Txn : Sleeper(t)'
    BY DEF PhaseInv, Sleeper, PrevDone
<1> QED
    BY <1>1, <1>2, <1>3 DEF PhaseInv

\* A session moves on and stays inside, or outside, the part that is counted.
LEMMA SessionStays ==
    ASSUME PhaseInv, NEW t \in Txn, NEW to \in PC,
           UNCHANGED <<phase, cntBit, counters, cp>>,
           pc' = [pc EXCEPT ![t] = to],
           tphase' = tphase \/ (tphase' = [tphase EXCEPT ![t] = "NONE"] /\ ~InCommit(t)),
           seen' = seen \/ seen' = [seen EXCEPT ![t] = "NONE"],
           InCommit(t)' = InCommit(t),
           to # "test",
           to = "move" => /\ seen' = seen /\ seen[t] \in {"REST", "PREPARE"}
                          /\ PrevDone /\ phase = "PREPARE"
    PROVE  PhaseInv'
<1>1. PhaseTypes'
    BY DEF PhaseInv, PhaseTypes
<1>2. /\ pc'[t] = to
      /\ \A u \in Txn \ {t} : pc'[u] = pc[u] /\ tphase'[u] = tphase[u] /\ seen'[u] = seen[u]
    BY DEF PhaseInv, PhaseTypes
<1>3. \A u \in Txn : InCommit(u)' = InCommit(u) /\ (InCommit(u) => tphase'[u] = tphase[u])
    BY <1>2 DEF InCommit, PhaseInv, PhaseTypes
<1>4. Current' = Current /\ Previous' = Previous
    BY <1>3 DEF Current, Previous
<1>5. CountersMatch'
    <2>1. CountersMatch
        BY DEF PhaseInv
    <2>2. counters'[cntBit'] = Cardinality(Current') /\ counters'[1 - cntBit'] = Cardinality(Previous')
        BY <1>4, <2>1, CountersAgree
    <2> QED
        BY <2>2 DEF CountersMatch, Current, Previous
<1>6. CutOff' /\ NoneBeginsInResolve'
    BY <1>3 DEF PhaseInv, CutOff, NoneBeginsInResolve
<1>7. PhaseOfStep'
    BY DEF PhaseInv, PhaseOfStep
<1>8. \A u \in Txn : Sleeper(u)'
    BY <1>2 DEF PhaseInv, Sleeper, PrevDone
<1> QED
    BY <1>1, <1>5, <1>6, <1>7, <1>8 DEF PhaseInv

\* MoveToNextPhase in the cases that occur: from REST either to PREPARE or, when no
\* commit of REST is left, straight to RESOLVE.
LEMMA MoveIs ==
    ASSUME PhaseInv, MoveToNextPhase
    PROVE  /\ \/ phase = "REST" /\ phase' = "PREPARE" /\ cntBit' = 1 - cntBit
              \/ /\ phase = "REST" /\ phase' = "RESOLVE" /\ cntBit' = cntBit
                 /\ counters[cntBit] = 0
              \/ phase = "PREPARE" /\ phase' = "RESOLVE" /\ cntBit' = 1 - cntBit
              \/ phase = "RESOLVE" /\ phase' = "CAPTURE" /\ cntBit' = 1 - cntBit
              \/ phase = "CAPTURE" /\ phase' = "COMPLETE" /\ cntBit' = 1 - cntBit
              \/ phase = "COMPLETE" /\ phase' = "REST" /\ cntBit' = 1 - cntBit
           /\ avail' = (avail # (phase' = "REST"))
           /\ redoLock' = (redoLock \/ phase' = "CAPTURE")
<1>1. phase \in Phases
    BY DEF PhaseInv, PhaseTypes
<1> DEFINE next == NextPhase(phase)
           auto == next = "PREPARE" /\ counters[cntBit] = 0
<1>2. /\ phase' = IF auto THEN "RESOLVE" ELSE next
      /\ cntBit' = IF auto THEN cntBit ELSE 1 - cntBit
      /\ avail' = (avail # (next = "REST"))
      /\ redoLock' = (redoLock \/ next = "CAPTURE")
    BY DEF MoveToNextPhase
<1>3. \/ phase = "REST" /\ next = "PREPARE"
      \/ phase = "PREPARE" /\ next = "RESOLVE"
      \/ phase = "RESOLVE" /\ next = "CAPTURE"
      \/ phase = "CAPTURE" /\ next = "COMPLETE"
      \/ phase = "COMPLETE" /\ next = "REST"
    BY <1>1, NextIs DEF Phases
<1> HIDE DEF next
<1>4. (phase' = "REST") = (next = "REST") /\ (phase' = "CAPTURE") = (next = "CAPTURE")
    BY <1>2, <1>3
<1> QED
    BY <1>2, <1>3, <1>4

\* The next phase begins when every commit in progress began in this one.
LEMMA PhaseMoves ==
    ASSUME PhaseInv, MoveToNextPhase, PrevDone,
           UNCHANGED <<counters, tphase, seen>>,
           cp' \in CP, PhaseOfStep', pc' \in [Txn -> PC],
           \A u \in Txn : InCommit(u)' = InCommit(u),
           \A u \in Txn : Sleeper(u)'
    PROVE  PhaseInv'
<1>1. PhaseTypes'
    BY MoveIs DEF PhaseInv, PhaseTypes, Phases
<1>2. \A u \in Txn : InCommit(u) => tphase[u] = phase
    BY PrevDoneMeans
<1>3. \A u \in Txn : InCommit(u) => phase # "RESOLVE"
    BY <1>2 DEF PhaseInv, NoneBeginsInResolve
<1>4. CutOff'
    <2> SUFFICES ASSUME NEW u \in Txn, InCommit(u)'
                 PROVE  tphase'[u] \in {phase', PrevPhase(phase')}
        BY Zenon DEF CutOff
    <2>1. InCommit(u) /\ tphase'[u] = phase
        BY <1>2
    <2>2. counters[cntBit] # 0
        BY <1>2, <2>1, CurrentDoneMeans
    <2> QED
        BY <2>1, <2>2, MoveIs, PrevIs
<1>5. NoneBeginsInResolve'
    BY <1>2, <1>3 DEF NoneBeginsInResolve
<1>6. CountersMatch'
    <2>1. /\ counters[cntBit] = Cardinality(Current)
          /\ counters[1 - cntBit] = Cardinality(Previous)
        BY CountersAgree DEF PhaseInv
    <2>2. phase' # phase
        BY MoveIs
    <2>3. Current' = {} /\ Previous' = Current
        BY <1>2, <2>2 DEF Current, Previous
    <2>4. Previous = {}
        BY <1>2 DEF Previous
    <2>5. Cardinality({}) = 0
        BY FS_EmptySet
    <2>6. cntBit \in 0..1
        BY DEF PhaseInv, PhaseTypes
    <2>7. CASE cntBit' = 1 - cntBit
        <3>1. cntBit' = 1 - cntBit /\ 1 - cntBit' = cntBit
            BY <2>6, <2>7
        <3> QED
            BY <2>1, <2>3, <2>4, <2>5, <3>1 DEF CountersMatch, Current, Previous
    <2>8. CASE cntBit' = cntBit /\ counters[cntBit] = 0
        <3>1. Current = {}
            BY <2>8, CurrentDoneMeans DEF Current
        <3> QED
            BY <2>1, <2>3, <2>4, <2>5, <2>8, <3>1 DEF CountersMatch, Current, Previous
    <2> QED
        BY <2>7, <2>8, MoveIs
<1> QED
    BY <1>1, <1>4, <1>5, <1>6 DEF PhaseInv

\* The checkpointer changes the phase.
LEMMA CheckpointerMoves ==
    ASSUME PhaseInv, MoveToNextPhase, PrevDone,
           UNCHANGED <<counters, pc, tphase, seen>>,
           cp' \in CP, PhaseOfStep',
           phase = "COMPLETE" => NoSleeper
    PROVE  PhaseInv'
<1>1. pc' \in [Txn -> PC] /\ \A u \in Txn : InCommit(u)' = InCommit(u)
    BY DEF PhaseInv, PhaseTypes, InCommit
<1>2. ASSUME NEW u \in Txn
      PROVE  Sleeper(u)'
    <2>1. phase = "COMPLETE" => pc[u] \notin {"test", "move"}
        BY DEF NoSleeper
    <2>2. Sleeper(u)
        BY DEF PhaseInv
    <2>3. phase = "PREPARE" => phase' = "RESOLVE"
        BY MoveIs
    <2> QED
        BY MoveIs, <2>1, <2>2, <2>3 DEF Sleeper
<1> QED
    BY <1>1, <1>2, PhaseMoves

\* BeginCommit counts the session with the commits of this phase.
LEMMA PhaseBegin ==
    ASSUME PhaseInv, NEW t \in Txn, BeginCommit(t)
    PROVE  PhaseInv'
<1> USE DEF PhaseInv, PhaseTypes
<1>1. /\ UNCHANGED <<phase, cntBit, cp, seen>>
      /\ tphase' = [tphase EXCEPT ![t] = phase]
      /\ counters' = [counters EXCEPT ![cntBit] = @ + 1]
      /\ pc' = [pc EXCEPT ![t] = "validate"]
      /\ pc[t] = "idle" /\ phase # "RESOLVE"
    BY DEF BeginCommit, Go, mgrVars, cpVars
<1>2. PhaseTypes'
    BY <1>1 DEF PC
<1>3. /\ ~InCommit(t) /\ InCommit(t)' /\ tphase'[t] = phase
      /\ \A u \in Txn \ {t} : InCommit(u)' = InCommit(u) /\ tphase'[u] = tphase[u]
    BY <1>1 DEF InCommit
<1>4. Current' = Current \cup {t} /\ Previous' = Previous /\ t \notin Current
    BY <1>1, <1>3 DEF Current, Previous
<1>5. CountersMatch'
    <2>1. /\ counters[cntBit] = Cardinality(Current)
          /\ counters[1 - cntBit] = Cardinality(Previous)
        BY CountersAgree
    <2>2. Cardinality(Current') = Cardinality(Current) + 1
        BY <1>4, CommitSets, FS_AddElement
    <2>3. counters'[cntBit'] = counters[cntBit] + 1 /\ counters'[1 - cntBit'] = counters[1 - cntBit]
        BY <1>1
    <2> QED
        BY <1>4, <2>1, <2>2, <2>3 DEF CountersMatch, Current, Previous
<1>6. CutOff' /\ NoneBeginsInResolve'
    BY <1>1, <1>3 DEF CutOff, NoneBeginsInResolve
<1>7. PhaseOfStep'
    BY <1>1 DEF PhaseOfStep
<1>8. ASSUME NEW u \in Txn
      PROVE  Sleeper(u)'
    <2>1. Sleeper(u)
        OBVIOUS
    <2>2. PrevDone' = PrevDone
        BY <1>1 DEF PrevDone
    <2> QED
        BY <1>1, <2>1, <2>2 DEF Sleeper
<1> QED
    BY <1>2, <1>5, <1>6, <1>7, <1>8

\* EndCommit finds its counter above zero and counts the session out.
LEMMA PhaseEnd ==
    ASSUME PhaseInv, NEW t \in Txn, EndCommit(t)
    PROVE  PhaseInv'
<1> USE DEF PhaseInv, PhaseTypes
<1>1. /\ UNCHANGED <<phase, cntBit, cp, tphase>>
      /\ seen' = [seen EXCEPT ![t] = phase]
      /\ counters' = [counters EXCEPT ![CommitCounter(t)] = @ - 1]
      /\ pc' = [pc EXCEPT ![t] = "test"]
      /\ pc[t] = "applied"
    BY DEF EndCommit, Go, mgrVars, cpVars
<1>2. /\ InCommit(t) /\ ~InCommit(t)'
      /\ \A u \in Txn \ {t} : InCommit(u)' = InCommit(u)
    BY <1>1 DEF InCommit
<1>3. Current' = Current \ {t} /\ Previous' = Previous \ {t}
    BY <1>1, <1>2 DEF Current, Previous
<1>4. /\ counters[cntBit] = Cardinality(Current)
      /\ counters[1 - cntBit] = Cardinality(Previous)
    BY CountersAgree
<1>5. /\ counters' \in [0..1 -> Nat]
      /\ counters'[cntBit] = Cardinality(Current')
      /\ counters'[1 - cntBit] = Cardinality(Previous')
    <2>1. CASE tphase[t] = phase
        <3>1. t \in Current /\ t \notin Previous
            BY <1>2, <2>1 DEF Current, Previous
        <3>2. Cardinality(Current') = Cardinality(Current) - 1 /\ Previous' = Previous
            <4>1. IsFiniteSet(Current) /\ Cardinality(Current \ {t}) = Cardinality(Current) - 1
                BY <3>1, CommitSets, FS_RemoveElement
            <4>2. Previous' = Previous
                BY <1>3, <3>1
            <4> QED
                BY <1>3, <4>1, <4>2
        <3>3. Cardinality(Current) # 0
            BY <3>1, CommitSets, FS_EmptySet
        <3>4. counters' = [counters EXCEPT ![cntBit] = @ - 1]
            BY <1>1, <2>1 DEF CommitCounter
        <3> QED
            BY <1>4, <3>2, <3>3, <3>4, CommitSets
    <2>2. CASE tphase[t] # phase
        <3>1. t \in Previous /\ t \notin Current
            BY <1>2, <2>2 DEF Current, Previous
        <3>2. Cardinality(Previous') = Cardinality(Previous) - 1 /\ Current' = Current
            <4>1. IsFiniteSet(Previous) /\ Cardinality(Previous \ {t}) = Cardinality(Previous) - 1
                BY <3>1, CommitSets, FS_RemoveElement
            <4>2. Current' = Current
                BY <1>3, <3>1
            <4> QED
                BY <1>3, <4>1, <4>2
        <3>3. Cardinality(Previous) # 0
            BY <3>1, CommitSets, FS_EmptySet
        <3>4. counters' = [counters EXCEPT ![1 - cntBit] = @ - 1]
            BY <1>1, <2>2 DEF CommitCounter
        <3> QED
            BY <1>4, <3>2, <3>3, <3>4, CommitSets
    <2> QED
        BY <2>1, <2>2
<1>6. PhaseTypes'
    BY <1>1, <1>5 DEF PC
<1>7. CountersMatch'
    BY <1>1, <1>5 DEF CountersMatch, Current, Previous
<1>8. CutOff' /\ NoneBeginsInResolve'
    BY <1>1, <1>2 DEF CutOff, NoneBeginsInResolve
<1>9. PhaseOfStep'
    BY <1>1 DEF PhaseOfStep
<1>10. ASSUME NEW u \in Txn
       PROVE  Sleeper(u)'
    <2>1. Sleeper(u)
        OBVIOUS
    <2>2. PrevDone => PrevDone'
        <3>1. PrevDone => Previous = {}
            BY <1>4, CommitSets, FS_EmptySet DEF PrevDone
        <3>2. PrevDone => Previous' = {}
            BY <1>3, <3>1
        <3> QED
            BY <1>1, <1>5, <3>2, FS_EmptySet DEF PrevDone
    <2>3. CASE u = t
        BY <1>1, <2>3 DEF Sleeper
    <2>4. CASE u # t
        BY <1>1, <2>1, <2>2, <2>4 DEF Sleeper
    <2> QED
        BY <2>3, <2>4
<1> QED
    BY <1>6, <1>7, <1>8, <1>9, <1>10

\* A session that tested the phase before finds the commits of REST ended and moves on
\* to RESOLVE, or finds PREPARE left.
LEMMA PhaseComplete ==
    ASSUME PhaseInv, NEW t \in Txn, CompletePhase(t)
    PROVE  PhaseInv'
<1> USE DEF PhaseInv, PhaseTypes
<1>1. /\ UNCHANGED <<counters, cp, tphase, seen>>
      /\ pc' = [pc EXCEPT ![t] = "release"] /\ pc[t] = "move"
    BY DEF CompletePhase, Go, cpVars, txnVars
<1>2. \A u \in Txn : InCommit(u)' = InCommit(u)
    BY <1>1 DEF InCommit
<1>3. \A u \in Txn : Sleeper(u)
    OBVIOUS
<1>4. CASE seen[t] = phase
    <2>1. phase = "PREPARE" /\ PrevDone
        BY <1>1, <1>3, <1>4 DEF Sleeper
    <2>2. MoveToNextPhase
        BY <1>4 DEF CompletePhase
    <2>3. phase' = "RESOLVE"
        BY <2>1, <2>2, MoveIs
    <2>4. PhaseOfStep'
        BY <1>1, <2>1, <2>3 DEF PhaseOfStep
    <2>5. \A u \in Txn : Sleeper(u)'
        BY <1>1, <1>3, <2>3 DEF Sleeper
    <2>6. pc' \in [Txn -> PC]
        BY <1>1 DEF PC
    <2> QED
        BY <1>1, <1>2, <2>1, <2>2, <2>4, <2>5, <2>6, PhaseMoves
<1>5. CASE seen[t] # phase
    <2>1. UNCHANGED <<phase, cntBit>>
        BY <1>5 DEF CompletePhase, mgrVars
    <2> QED
        BY <1>1, <1>2, <2>1, SessionStays DEF PC
<1> QED
    BY <1>4, <1>5

-----------------------------------------------------------------------------
\* The rows of one earlier load, no commit in progress.
LEMMA PhaseInit ==
    ASSUME Init
    PROVE  PhaseInv
<1>1. PhaseTypes
    BY DEF Init, PhaseTypes, Phases, PC, CP
<1>2. \A t \in Txn : ~InCommit(t)
    BY DEF Init, InCommit
<1>3. Current = {} /\ Previous = {}
    BY <1>2 DEF Current, Previous
<1>4. CountersMatch
    <2>1. counters[cntBit] = 0 /\ counters[1 - cntBit] = 0
        BY DEF Init
    <2> QED
        BY <1>3, <2>1, FS_EmptySet, CountersAgree
<1>5. CutOff /\ NoneBeginsInResolve
    BY <1>2 DEF CutOff, NoneBeginsInResolve
<1>6. PhaseOfStep /\ \A t \in Txn : Sleeper(t)
    BY DEF Init, PhaseOfStep, Sleeper
<1> QED
    BY <1>1, <1>4, <1>5, <1>6 DEF PhaseInv

\* Between BeginCommit and EndCommit a session leaves phase and counters alone.
LEMMA CommitGoesOn ==
    ASSUME PhaseInv, NEW t \in Txn,
           NEW to \in {"validated", "prepared", "logged", "applied"},
           InCommit(t), pc' = [pc EXCEPT ![t] = to],
           UNCHANGED <<phase, cntBit, counters, cp, tphase, seen>>
    PROVE  PhaseInv'
<1>1. pc'[t] = to /\ to \in PC
    BY DEF PhaseInv, PhaseTypes, PC
<1>2. InCommit(t)' = InCommit(t)
    BY <1>1 DEF InCommit
<1> QED
    BY <1>1, <1>2, SessionStays

\* A session's step.
LEMMA PhaseSession ==
    ASSUME PhaseInv, NEW t \in Txn, BeginCommit(t) \/ Advance(t) \/ Fail(t)
    PROVE  PhaseInv'
<1> USE DEF Go, mgrVars, cpVars, txnVars
<1> DEFINE Inside(from, to) ==
              /\ pc[t] = from /\ pc' = [pc EXCEPT ![t] = to]
              /\ UNCHANGED <<phase, cntBit, counters, cp, tphase, seen>>
<1>1. CASE ValidateOcc(t)
    <2>1. Inside("validate", "validated")
        BY <1>1 DEF ValidateOcc
    <2> QED
        BY <2>1, CommitGoesOn DEF InCommit
<1>2. CASE ValidateOccFails(t)
    <2>1. Inside("validate", "applied")
        BY <1>2 DEF ValidateOccFails
    <2> QED
        BY <2>1, CommitGoesOn DEF InCommit
<1>3. CASE RedoCommit(t)
    <2>1. Inside("validated", "logged")
        BY <1>3 DEF RedoCommit, WriteToLog
    <2> QED
        BY <2>1, CommitGoesOn DEF InCommit
<1>4. CASE Prepare(t)
    <2>1. Inside("validated", "prepared")
        BY <1>4 DEF Prepare, WriteToLog
    <2> QED
        BY <2>1, CommitGoesOn DEF InCommit
<1>5. CASE CommitPrepared(t)
    <2>1. Inside("prepared", "logged")
        BY <1>5 DEF CommitPrepared, WriteToLog
    <2> QED
        BY <2>1, CommitGoesOn DEF InCommit
<1>6. CASE RollbackPrepared(t)
    <2>1. Inside("prepared", "applied")
        BY <1>6 DEF RollbackPrepared
    <2> QED
        BY <2>1, CommitGoesOn DEF InCommit
<1>7. CASE WriteChanges(t)
    <2>1. Inside("logged", "applied")
        BY <1>7 DEF WriteChanges
    <2> QED
        BY <2>1, CommitGoesOn DEF InCommit
<1>8. CASE ReserveGcMemoryFails(t)
    <2>1. Inside("validate", "applied")
        BY <1>8 DEF ReserveGcMemoryFails
    <2> QED
        BY <2>1, CommitGoesOn DEF InCommit
<1>9. CASE RollbackValidated(t)
    <2>1. Inside("validated", "applied")
        BY <1>9 DEF RollbackValidated
    <2> QED
        BY <2>1, CommitGoesOn DEF InCommit
<1>10. CASE PrepareFails(t)
    <2>1. Inside("validated", "applied")
        BY <1>10 DEF PrepareFails
    <2> QED
        BY <2>1, CommitGoesOn DEF InCommit
<1> DEFINE Outside(from, to) ==
              /\ pc[t] = from /\ pc' = [pc EXCEPT ![t] = to]
              /\ UNCHANGED <<phase, cntBit, counters, cp>>
<1>11. pc \in [Txn -> PC]
    BY DEF PhaseInv, PhaseTypes
<1>12. CASE TestPhase(t)
    <2>1. LeavePrepare => PrevDone /\ phase = "PREPARE" /\ seen[t] \in {"REST", "PREPARE"}
        BY <1>12 DEF LeavePrepare, PhaseInv, Sleeper, TestPhase
    <2>2. CASE LeavePrepare
        <3>1. Outside("test", "move") /\ UNCHANGED <<tphase, seen>>
            BY <1>12, <2>2 DEF TestPhase
        <3>2. InCommit(t)' = InCommit(t) /\ "move" \in PC
            BY <1>11, <3>1 DEF InCommit, PC
        <3> QED
            BY <2>1, <2>2, <3>1, <3>2, SessionStays
    <2>3. CASE ~LeavePrepare
        <3>1. Outside("test", "release") /\ UNCHANGED <<tphase, seen>>
            BY <1>12, <2>3 DEF TestPhase
        <3>2. InCommit(t)' = InCommit(t) /\ "release" \in PC
            BY <1>11, <3>1 DEF InCommit, PC
        <3> QED
            BY <3>1, <3>2, SessionStays
    <2> QED
        BY <2>2, <2>3
<1>13. CASE EndTransaction(t)
    <2>1. PICK to \in {"rollback", "idle"} : Outside("release", to)
        BY <1>13 DEF EndTransaction
    <2>2. InCommit(t)' = InCommit(t) /\ ~InCommit(t) /\ to \in PC
        BY <1>11, <2>1 DEF InCommit, PC
    <2>3. /\ tphase' = [tphase EXCEPT ![t] = "NONE"]
          /\ seen' = [seen EXCEPT ![t] = "NONE"]
        BY <1>13 DEF EndTransaction
    <2> QED
        BY <2>1, <2>2, <2>3, SessionStays
<1>14. CASE RedoRollback(t)
    <2>1. Outside("rollback", "idle") /\ UNCHANGED <<tphase, seen>>
        BY <1>14 DEF RedoRollback
    <2>2. InCommit(t)' = InCommit(t) /\ "idle" \in PC
        BY <1>11, <2>1 DEF InCommit, PC
    <2> QED
        BY <2>1, <2>2, SessionStays
<1> QED
    BY <1>1, <1>2, <1>3, <1>4, <1>5, <1>6, <1>7, <1>8, <1>9, <1>10, <1>12,
       <1>13, <1>14, PhaseBegin, PhaseEnd, PhaseComplete DEF Advance, Fail

\* A step of the checkpointer.
LEMMA PhaseCheckpointer ==
    ASSUME PhaseInv, CreateSnapShot \/ Checkpointer \/ Abort, Prompt
    PROVE  PhaseInv'
<1> USE DEF mgrVars, cpVars, txnVars, CP
<1>1. PhaseOfStep /\ cp \in CP
    BY DEF PhaseInv, PhaseTypes
<1>2. CASE CreateSnapShot
    <2>1. phase = "REST" /\ cp = "idle"
        BY <1>1, <1>2 DEF CreateSnapShot, PhaseOfStep
    <2>2. /\ PrevDone /\ MoveToNextPhase /\ cp' = "preparing"
          /\ UNCHANGED <<counters, pc, tphase, seen>>
        BY <1>2, <2>1 DEF CreateSnapShot
    <2>3. phase' \in {"PREPARE", "RESOLVE"}
        BY <2>1, <2>2, MoveIs
    <2> QED
        BY <2>1, <2>2, <2>3, CheckpointerMoves DEF PhaseOfStep
<1>3. CASE EnterCapture
    <2>1. /\ PrevDone /\ MoveToNextPhase /\ cp' = "snapshot" /\ phase = "RESOLVE"
          /\ UNCHANGED <<counters, pc, tphase, seen>>
        BY <1>3 DEF EnterCapture, CutOffReached
    <2>2. phase' = "CAPTURE"
        BY <2>1, MoveIs
    <2> QED
        BY <2>1, <2>2, CheckpointerMoves DEF PhaseOfStep
<1>4. CASE SnapshotReady
    BY <1>1, <1>4, CheckpointerStays DEF SnapshotReady, PhaseOfStep
<1>5. CASE BeginCheckpoint
    BY <1>1, <1>5, CheckpointerStays DEF BeginCheckpoint, PhaseOfStep
<1>6. CASE \E k \in Key : Checkpoint(k)
    BY <1>1, <1>6, CheckpointerStays DEF Checkpoint, PhaseOfStep
<1>7. CASE EndCapture
    <2>1. /\ PrevDone /\ MoveToNextPhase /\ cp' \in {"completed", "end"} /\ phase = "CAPTURE"
          /\ UNCHANGED <<counters, pc, tphase, seen>>
        BY <1>1, <1>7 DEF EndCapture, AfterCapture, PhaseOfStep
    <2>2. phase' = "COMPLETE"
        BY <2>1, MoveIs
    <2> QED
        BY <2>1, <2>2, CheckpointerMoves DEF PhaseOfStep
<1>8. CASE CreateEndFile
    BY <1>1, <1>8, CheckpointerStays DEF CreateEndFile, PhaseOfStep
<1>9. CASE UpdateControlFile
    BY <1>1, <1>9, CheckpointerStays DEF UpdateControlFile, PhaseOfStep
<1>10. CASE RemoveOldCheckpoints
    BY <1>1, <1>10, CheckpointerStays DEF RemoveOldCheckpoints, PhaseOfStep
<1>11. CASE EnterRest
    <2>1. /\ PrevDone /\ MoveToNextPhase /\ cp' \in {"idle", "panic"}
          /\ phase = "COMPLETE" /\ UNCHANGED <<counters, pc, tphase, seen>>
        BY <1>1, <1>11 DEF EnterRest, PhaseOfStep
    <2>2. phase' = "REST"
        BY <2>1, MoveIs
    <2>3. NoSleeper
        BY <2>1, <2>2 DEF Prompt, NoSleeper
    <2> QED
        BY <2>1, <2>2, <2>3, CheckpointerMoves DEF PhaseOfStep
<1>12. CASE AbortToComplete
    <2>1. /\ PrevDone /\ MoveToNextPhase /\ cp' = "abortRest" /\ phase = "CAPTURE"
          /\ UNCHANGED <<counters, pc, tphase, seen>>
        BY <1>1, <1>12 DEF AbortToComplete, PhaseOfStep
    <2>2. phase' = "COMPLETE"
        BY <2>1, MoveIs
    <2> QED
        BY <2>1, <2>2, CheckpointerMoves DEF PhaseOfStep
<1>13. CASE AbortToRest
    <2>1. /\ PrevDone /\ MoveToNextPhase /\ cp' = "idle"
          /\ phase = "COMPLETE" /\ UNCHANGED <<counters, pc, tphase, seen>>
        BY <1>1, <1>13 DEF AbortToRest, PhaseOfStep
    <2>2. phase' = "REST"
        BY <2>1, MoveIs
    <2>3. NoSleeper
        BY <2>1, <2>2 DEF Prompt, NoSleeper
    <2> QED
        BY <2>1, <2>2, <2>3, CheckpointerMoves DEF PhaseOfStep
<1>14. CASE Abort
    BY <1>1, <1>14, CheckpointerStays DEF Abort, PhaseOfStep
<1> QED
    BY <1>2, <1>3, <1>4, <1>5, <1>6, <1>7, <1>8, <1>9, <1>10, <1>11, <1>12, <1>13, <1>14
       DEF Checkpointer

\* A step of anyone, or none.
LEMMA PhaseStep ==
    ASSUME PhaseInv, [Next /\ Prompt]_vars
    PROVE  PhaseInv'
<1>1. CASE Next /\ Prompt
    BY <1>1, PhaseSession, PhaseCheckpointer DEF Next
<1>2. CASE UNCHANGED vars
    <2>1. UNCHANGED <<phase, cntBit, counters, pc, tphase, seen, cp>>
        BY <1>2 DEF vars, mgrVars, cpVars, txnVars
    <2>2. PhaseOfStep'
        BY <2>1 DEF PhaseInv, PhaseOfStep
    <2> QED
        BY <2>1, <2>2, CheckpointerStays DEF PhaseInv, PhaseTypes
<1> QED
    BY <1>1, <1>2

-----------------------------------------------------------------------------
(* The redo point. *)

RedoPoint == redoLock \in BOOLEAN /\ RedoPointBetweenCommits

\* What MoveToNextPhase does to the redo lock.
LEMMA RedoLockMoves ==
    ASSUME PhaseInv, RedoPoint, MoveToNextPhase
    PROVE  /\ phase = "RESOLVE" => redoLock' = TRUE
           /\ phase # "RESOLVE" => redoLock' = redoLock
<1>1. redoLock' = (redoLock \/ NextPhase(phase) = "CAPTURE") /\ phase \in Phases
    BY DEF MoveToNextPhase, PhaseInv, PhaseTypes
<1>2. phase # "RESOLVE" => NextPhase(phase) # "CAPTURE"
    BY <1>1, NextIs DEF Phases
<1> QED
    BY <1>1, <1>2, NextIs DEF RedoPoint

\* A session's step: it writes to the log only while the redo lock is free, and the only
\* phase it leaves is PREPARE.
LEMMA RedoSession ==
    ASSUME PhaseInv, RedoPoint, NEW t \in Txn, BeginCommit(t) \/ Advance(t) \/ Fail(t)
    PROVE  RedoPoint'
<1> USE DEF Go, mgrVars, cpVars
<1>1. pc \in [Txn -> PC]
    BY DEF PhaseInv, PhaseTypes
<1>2. ASSUME NEW to, pc' = [pc EXCEPT ![t] = to], UNCHANGED <<redoLock, cp>>,
             to \in {"prepared", "logged"} => ~redoLock
      PROVE  RedoPoint'
    BY <1>1, <1>2 DEF RedoPoint, RedoPointBetweenCommits
<1>3. CASE RedoCommit(t) \/ Prepare(t) \/ CommitPrepared(t)
    BY <1>2, <1>3 DEF RedoCommit, Prepare, CommitPrepared, WriteToLog, LogOpen
<1>4. CASE ValidateOcc(t) \/ ValidateOccFails(t) \/ RollbackPrepared(t) \/ WriteChanges(t)
    BY <1>2, <1>4 DEF ValidateOcc, ValidateOccFails, RollbackPrepared, WriteChanges
<1>5. CASE BeginCommit(t) \/ EndCommit(t) \/ TestPhase(t)
    BY <1>2, <1>5 DEF BeginCommit, EndCommit, TestPhase
<1>6. CASE EndTransaction(t) \/ RedoRollback(t)
    BY <1>2, <1>6 DEF EndTransaction, RedoRollback
<1>7. CASE Fail(t)
    BY <1>2, <1>7 DEF Fail, ReserveGcMemoryFails, RollbackValidated, PrepareFails
<1>8. CASE CompletePhase(t)
    <2>1. seen[t] = phase => phase = "PREPARE"
        BY <1>8 DEF PhaseInv, Sleeper, CompletePhase
    <2>2. redoLock' = redoLock
        BY <1>8, <2>1, RedoLockMoves DEF CompletePhase
    <2> QED
        BY <1>2, <1>8, <2>2 DEF CompletePhase
<1> QED
    BY <1>3, <1>4, <1>5, <1>6, <1>7, <1>8 DEF Advance

\* A step of the checkpointer: the lock is taken when no commit is in progress.
LEMMA RedoCheckpointer ==
    ASSUME PhaseInv, RedoPoint, CreateSnapShot \/ Checkpointer \/ Abort
    PROVE  RedoPoint'
<1> USE DEF mgrVars
<1>1. PhaseOfStep /\ phase \in Phases
    BY DEF PhaseInv, PhaseTypes
<1>2. ASSUME pc' = pc, cp # "snapshot", cp' # "snapshot", redoLock' = redoLock
      PROVE  RedoPoint'
    BY <1>2 DEF RedoPoint, RedoPointBetweenCommits
<1>3. CASE CreateSnapShot
    <2>1. phase = "REST" /\ cp = "idle"
        BY <1>1, <1>3 DEF CreateSnapShot, PhaseOfStep
    <2>2. MoveToNextPhase /\ cp' = "preparing" /\ pc' = pc
        BY <1>3, <2>1 DEF CreateSnapShot
    <2> QED
        BY <1>2, <2>1, <2>2, RedoLockMoves
<1>4. CASE EnterCapture
    <2>1. phase = "RESOLVE" /\ PrevDone /\ MoveToNextPhase /\ cp' = "snapshot" /\ pc' = pc
        BY <1>4 DEF EnterCapture, CutOffReached
    <2>2. \A t \in Txn : ~InCommit(t)
        BY <2>1, PrevDoneMeans DEF PhaseInv, NoneBeginsInResolve
    <2>3. \A t \in Txn : pc[t] \notin {"prepared", "logged"}
        BY <2>2 DEF InCommit
    <2> QED
        BY <2>1, <2>3, RedoLockMoves DEF RedoPoint, RedoPointBetweenCommits
<1>5. CASE SnapshotReady
    BY <1>1, <1>5 DEF SnapshotReady, ReleaseSnapshot, PhaseOfStep, RedoPoint,
                      RedoPointBetweenCommits
<1>6. CASE Abort
    BY <1>1, <1>6 DEF Abort, PhaseOfStep, RedoPoint, RedoPointBetweenCommits
<1>7. CASE EndCapture \/ AbortToComplete \/ EnterRest \/ AbortToRest
    <2>1. MoveToNextPhase /\ phase # "RESOLVE" /\ pc' = pc /\ cp # "snapshot" /\ cp' # "snapshot"
        BY <1>1, <1>7 DEF EndCapture, AfterCapture, AbortToComplete, EnterRest, AbortToRest, PhaseOfStep
    <2> QED
        BY <1>2, <2>1, RedoLockMoves
<1>8. CASE BeginCheckpoint \/ CreateEndFile \/ UpdateControlFile \/ RemoveOldCheckpoints
    BY <1>2, <1>8 DEF BeginCheckpoint, CreateEndFile, UpdateControlFile, RemoveOldCheckpoints
<1>9. CASE \E k \in Key : Checkpoint(k)
    BY <1>2, <1>9 DEF Checkpoint
<1> QED
    BY <1>3, <1>4, <1>5, <1>6, <1>7, <1>8, <1>9 DEF Checkpointer

\* A step of anyone, or none.
LEMMA RedoStep ==
    ASSUME PhaseInv, RedoPoint, [Next /\ Prompt]_vars
    PROVE  RedoPoint'
<1>1. CASE Next
    BY <1>1, RedoSession, RedoCheckpointer DEF Next
<1>2. CASE UNCHANGED vars
    BY <1>2 DEF vars, mgrVars, cpVars, RedoPoint, RedoPointBetweenCommits
<1> QED
    BY <1>1, <1>2

-----------------------------------------------------------------------------
\* PhaseInv and RedoPoint are invariants.
LEMMA PhaseInvariant == PromptSpec => [](PhaseInv /\ RedoPoint)
<1>1. Init => PhaseInv /\ RedoPoint
    BY PhaseInit DEF Init, RedoPoint, RedoPointBetweenCommits
<1>2. PhaseInv /\ RedoPoint /\ [Next /\ Prompt]_vars => (PhaseInv /\ RedoPoint)'
    BY PhaseStep, RedoStep
<1> QED
    BY <1>1, <1>2, PTL DEF PromptSpec

\* What the invariants say of a state, in the words of the runs.
LEMMA PhaseInvImplies == PhaseInv /\ RedoPoint => CountersMatch /\ CutOff /\ PhaseSafety
BY DEF PhaseInv, RedoPoint, PhaseSafety

\* The zigzag counters of CheckpointManager are exact, and so never go below zero:
\* BeginCommit and EndCommit of any number of sessions against MoveToNextPhase.
THEOREM CountersAreExact == PromptSpec => []CountersMatch
BY PhaseInvariant, PhaseInvImplies, PTL

\* No commit outlives the phase after its own.
THEOREM CutOffHolds == PromptSpec => []CutOff
BY PhaseInvariant, PhaseInvImplies, PTL

\* Counters exact, cut-off kept and the redo point between commits, with checkpoints
\* aborted and commits failing half-way as often as the bounds allow.
THEOREM PhasesAreSafe == PromptSpec => []PhaseSafety
BY PhaseInvariant, PhaseInvImplies, PTL

=============================================================================
