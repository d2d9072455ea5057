------------------------ MODULE DirtyPageQueueProofs ------------------------
(***************************************************************************)
(* Proofs about DirtyPageQueue: the ring keeps its order and every dirty   *)
(* buffer is in it (QueueInv); the redo point a checkpoint takes from the  *)
(* queue is not after a change that is not on disk (CkptInv).              *)
(***************************************************************************)
EXTENDS DirtyPageQueue, FiniteSetTheorems, WellFoundedInduction, TLAPS

-----------------------------------------------------------------------------
(* The ring. *)

Positions == head..tail - 1

\* The index of a position.
Index(n) == n % Size

Pending(p) == pend[p] # NoPend

\* The slot at position n belongs to page p: it holds p, or p is being put there.
In(p, n) == At(n).buf = p \/ (Pending(p) /\ pend[p].at = n)

\* The recovery LSN of a page in the queue.
Lsn(p) == IF Pending(p) THEN pend[p].lsn ELSE recLsn[p]

RingTypes ==
    /\ head \in Nat /\ tail \in Nat /\ head <= tail /\ tail + 2 <= head + Size
    /\ slot \in [0..Size - 1 -> [buf : Pages \cup {None}, valid : BOOLEAN]]
    /\ reclsn \in Nat \ {0} /\ recLsn \in [Pages -> Nat] /\ loc \in [Pages -> -1..Size - 1]
    /\ pend \in [Pages -> [by : Backends \cup {"none", "hint", "flush"}, at : Nat, lsn : Nat]]

\* Slots that belong to no position are empty; a page is in a filled slot only.
SlotInv ==
    /\ \A i \in 0..Size - 1 : (\A n \in Positions : Index(n) # i) => slot[i] = Empty
    /\ \A n \in Positions : At(n).buf # None => At(n).valid /\ loc[At(n).buf] = Index(n)

\* Where a page is.
PageInv(p) ==
    /\ recLsn[p] = 0 <=> loc[p] = -1
    /\ recLsn[p] <= reclsn
    /\ loc[p] # -1 => \E n \in Positions : loc[p] = Index(n) /\ At(n) = [buf |-> p, valid |-> TRUE]
    /\ Pending(p) => /\ loc[p] = -1 /\ pend[p].at \in Positions
                     /\ ~At(pend[p].at).valid /\ pend[p].lsn \in 1..reclsn
                     /\ pend[p].by # "none"

RingInv ==
    /\ RingTypes
    /\ SlotInv
    /\ \A p \in Pages : PageInv(p)
    /\ \A p, q \in Pages : Pending(p) /\ Pending(q) /\ pend[p].at = pend[q].at => p = q

\* Recovery LSNs rise along the queue, slots that are taken and not filled included.
OrderInv ==
    \A p, q \in Pages : \A m, n \in Positions :
        In(p, m) /\ In(q, n) /\ m < n => Lsn(p) <= Lsn(q)

\* Packing: what it has moved or passed is empty up to the slot it fills next.
PruneInv ==
    /\ pr \in [seen : SUBSET Nat, last : Nat]
    /\ pr.seen = {} => pr = NoPrune
    /\ pr.seen # {} =>
          /\ pr.last \in Positions /\ pr.seen \subseteq head..pr.last - 1
          /\ \A n \in head..pr.last : At(n).valid /\ (n \notin pr.seen => At(n).buf = None)

-----------------------------------------------------------------------------
(* Locks. *)

UserTypes ==
    /\ wal \in Nat /\ dirty \subseteq Pages /\ just \subseteq dirty
    /\ lock \in [Pages -> Backends \cup {None}] /\ io \in [Pages -> {"none", "io", "repush"}]
    /\ pc \in [Backends -> {"idle", "lock", "fill", "update"}]
    /\ want \in [Backends -> SUBSET Pages] /\ start \in [Backends -> Nat]

HeaderInv(p) ==
    /\ lock[p] # None => io[p] = "none" /\ (Pending(p) => pend[p].by = lock[p])
    /\ pend[p].by \in Backends => lock[p] = pend[p].by /\ pc[pend[p].by] = "fill"
    /\ pend[p].by = "flush" => io[p] = "repush"
    /\ io[p] = "repush" => loc[p] = -1 /\ (Pending(p) => pend[p].by = "flush")
    /\ io[p] = "io" => loc[p] # -1
    /\ p \in dirty => loc[p] # -1 \/ Pending(p) \/ io[p] = "repush"
    /\ loc[p] # -1 \/ io[p] = "repush" => p \in dirty

UserInv ==
    /\ UserTypes
    /\ \A p \in Pages : HeaderInv(p)
    /\ \A p, q \in Pages : pend[p].by \in Backends /\ pend[p].by = pend[q].by => p = q

QueueInv == RingInv /\ OrderInv /\ PruneInv /\ UserInv

-----------------------------------------------------------------------------
(* Arithmetic. *)

\* What the assumption says of the sizes.
LEMMA Sizes ==
    /\ Size \in Nat /\ Size >= 3
    /\ None \notin Pages /\ None \notin Backends /\ Pages \subseteq Nat
    /\ \A b \in Backends : b \notin {"none", "hint", "flush"}
    /\ IsFiniteSet(Pages) /\ IsFiniteSet(Backends)
BY QueueAssumption

\* A position has one index in the ring.
LEMMA IndexOf == \A n \in Nat : n % Size \in 0..Size - 1
<1> TAKE n \in Nat
<1>1. Size \in Nat \ {0}
    BY Sizes
<1> QED
    BY <1>1, SMT

\* Products are monotonic.
LEMMA Multiples ==
    ASSUME NEW s \in Nat \ {0}, NEW a \in Nat, NEW b \in Nat, a < b
    PROVE  s * b >= s * a + s
BY SMT

\* Positions that are less than a round apart have different indices.
LEMMA SameIndex ==
    ASSUME NEW m \in Nat, NEW n \in Nat, m % Size = n % Size, m < n + Size, n < m + Size
    PROVE  m = n
<1>0. Size \in Nat \ {0}
    BY Sizes
<1>1. m = Size * (m \div Size) + (m % Size) /\ m \div Size \in Nat /\ m % Size \in Nat
    BY <1>0, SMT
<1>2. n = Size * (n \div Size) + (n % Size) /\ n \div Size \in Nat
    BY <1>0, SMT
<1> DEFINE a == m \div Size
           b == n \div Size
<1>3. n - m = Size * b - Size * a
    BY <1>0, <1>1, <1>2
<1>4. a \in Nat /\ b \in Nat
    BY <1>1, <1>2
<1> HIDE DEF a, b
<1>5. CASE a < b
    BY <1>0, <1>3, <1>4, <1>5, Multiples
<1>6. CASE b < a
    BY <1>0, <1>3, <1>4, <1>6, Multiples
<1>7. CASE a = b
    BY <1>0, <1>3, <1>4, <1>7
<1> QED
    BY <1>4, <1>5, <1>6, <1>7

\* The least element, from a well-founded relation.
LEMMA LeastOf ==
    ASSUME NEW S \in SUBSET Nat, NEW R, \A x, y \in Nat : x < y => <<x, y>> \in R,
           \E x \in S : \A y \in S : ~(<<y, x>> \in R)
    PROVE  \E x \in S : \A y \in S : x <= y
<1>1. PICK x \in S : \A y \in S : ~(<<y, x>> \in R)
    OBVIOUS
<1>2. ASSUME NEW y \in S PROVE x <= y
    <2>1. x \in Nat /\ y \in Nat /\ ~(y < x)
        BY <1>1
    <2> QED
        BY <2>1
<1> QED
    BY <1>2

\* A set of naturals has a least element.
LEMMA Least ==
    ASSUME NEW S \in SUBSET Nat, S # {}
    PROVE  \E x \in S : \A y \in S : x <= y
<1>1. \E x \in S : \A y \in S : ~(<<y, x>> \in OpToRel(<, Nat))
    BY NatLessThanWellFounded, WFMin
<1>2. \A x, y \in Nat : x < y => <<x, y>> \in OpToRel(<, Nat)
    BY DEF OpToRel
<1> QED
    BY <1>1, <1>2, LeastOf

\* Min is what it says.
LEMMA MinIs ==
    ASSUME NEW S \in SUBSET Nat, S # {}
    PROVE  Min(S) \in S /\ \A y \in S : Min(S) <= y
BY Least DEF Min

\* Max is what it says, of a bounded set.
LEMMA MaxIs ==
    ASSUME NEW N \in Nat, NEW S \in SUBSET (0..N), S # {}
    PROVE  Max(S) \in S /\ \A y \in S : Max(S) >= y
<1> DEFINE T == {n \in Nat : \E x \in S : n = N - x}
<1>1. \A x \in S : x \in 0..N
    OBVIOUS
<1>2. T \in SUBSET Nat /\ T # {}
    <2>1. PICK x \in S : TRUE
        OBVIOUS
    <2>2. N - x \in T
        BY <1>1, <2>1
    <2> QED
        BY <2>2
<1> HIDE DEF T
<1>3. PICK n \in T : \A m \in T : n <= m
    BY <1>2, Least
<1>4. PICK x \in S : n = N - x
    BY DEF T
<1>5. ASSUME NEW y \in S PROVE x >= y
    <2>1. N - y \in T
        BY <1>1 DEF T
    <2> QED
        BY <1>1, <1>3, <1>4, <2>1
<1> QED
    BY <1>5 DEF Max

-----------------------------------------------------------------------------
(* The ring, position by position. *)

\* Writing one slot changes one position of the queue.
LEMMA AtChanged ==
    ASSUME NEW X, slot \in [0..Size - 1 -> X], NEW m \in Nat, NEW v,
           slot' = [slot EXCEPT ![Index(m)] = v]
    PROVE  /\ At(m)' = v
           /\ \A n \in Nat : n # m /\ n < m + Size /\ m < n + Size => At(n)' = At(n)
<1>1. Index(m) \in 0..Size - 1
    BY IndexOf DEF Index
<1>2. ASSUME NEW n \in Nat, n # m, n < m + Size, m < n + Size PROVE At(n)' = At(n)
    <2>1. Index(n) \in 0..Size - 1 /\ Index(n) # Index(m)
        BY <1>2, IndexOf, SameIndex DEF Index
    <2> QED
        BY <1>1, <2>1 DEF At, Index
<1> QED
    BY <1>1, <1>2 DEF At, Index

\* Records of the ring.
LEMMA WithBuf ==
    ASSUME NEW X, NEW r \in [buf : X, valid : BOOLEAN], NEW x
    PROVE  [r EXCEPT !.buf = x] = [buf |-> x, valid |-> r.valid]
OBVIOUS

\* The same for the state of a slot.
LEMMA WithValid ==
    ASSUME NEW X, NEW r \in [buf : X, valid : BOOLEAN], NEW x
    PROVE  [r EXCEPT !.valid = x] = [buf |-> r.buf, valid |-> x]
OBVIOUS

\* Positions of the queue have different indices.
LEMMA IndexDiffers ==
    ASSUME RingTypes, NEW m \in head..tail, NEW n \in head..tail, Index(m) = Index(n)
    PROVE  m = n
<1>1. m \in Nat /\ n \in Nat /\ m < n + Size /\ n < m + Size
    BY Sizes DEF RingTypes
<1> QED
    BY <1>1, SameIndex DEF Index

\* An index is an index.
LEMMA IndexType == ASSUME RingTypes, NEW n \in head..tail PROVE Index(n) \in 0..Size - 1
<1>1. n \in Nat
    BY DEF RingTypes
<1> QED
    BY <1>1, IndexOf DEF Index

\* Where a page in the queue is.
LEMMA InQueue ==
    ASSUME RingInv, NEW p \in Pages, NEW n \in Positions, In(p, n)
    PROVE  /\ Lsn(p) \in 1..reclsn
           /\ \/ Pending(p) /\ n = pend[p].at /\ ~At(n).valid
              \/ ~Pending(p) /\ loc[p] = Index(n) /\ At(n) = [buf |-> p, valid |-> TRUE]
<1>1. PageInv(p) /\ SlotInv /\ p # None /\ n \in head..tail
    BY Sizes DEF RingInv, Positions, RingTypes
<1>2. recLsn[p] \in Nat /\ reclsn \in Nat /\ Index(n) \in 0..Size - 1
    BY <1>1, IndexType DEF RingInv, RingTypes
<1>3. At(n) \in [buf : Pages \cup {None}, valid : BOOLEAN]
    BY <1>2 DEF RingInv, RingTypes, At, Index
<1>4. CASE At(n).buf = p
    <2>1. At(n).valid /\ loc[p] = Index(n) /\ loc[p] # -1
        BY <1>1, <1>2, <1>4 DEF SlotInv
    <2> QED
        BY <1>1, <1>2, <1>3, <1>4, <2>1 DEF PageInv, Lsn
<1>5. CASE Pending(p) /\ pend[p].at = n
    BY <1>1, <1>5 DEF PageInv, Lsn
<1> QED
    BY <1>4, <1>5 DEF In

\* The slot after the tail is free.
LEMMA TailIsEmpty == ASSUME RingInv PROVE At(tail) = Empty
<1>1. tail \in head..tail /\ \A n \in Positions : n \in head..tail /\ n # tail
    BY DEF RingInv, RingTypes, Positions
<1>2. \A n \in Positions : Index(n) # Index(tail)
    BY <1>1, IndexDiffers DEF RingInv
<1>3. Index(tail) \in 0..Size - 1
    BY <1>1, IndexType DEF RingInv
<1> QED
    BY <1>2, <1>3 DEF RingInv, SlotInv, At, Index

\* The order stays when the queue gets no new entry.
LEMMA OrderKeeps ==
    ASSUME OrderInv, Positions' \subseteq Positions,
           \A p \in Pages : \A n \in Positions' : In(p, n)' => In(p, n) /\ Lsn(p)' = Lsn(p)
    PROVE  OrderInv'
BY DEF OrderInv

\* atomic_push_pending_flush_queue.
LEMMA TakeRing ==
    ASSUME RingInv, OrderInv, PruneInv, NEW p \in Pages, NEW by \in Backends \cup {"hint", "flush"},
           TakeSlot(p, by), HasRoom, recLsn[p] = 0, ~Pending(p), UNCHANGED pr
    PROVE  RingInv' /\ OrderInv' /\ PruneInv'
<1>1. /\ head' = head /\ tail' = tail + 1 /\ slot' = slot /\ loc' = loc /\ recLsn' = recLsn
      /\ reclsn' = reclsn
      /\ pend' = [pend EXCEPT ![p] = [by |-> by, at |-> tail, lsn |-> reclsn]]
    BY DEF TakeSlot
<1>2. head \in Nat /\ tail \in Nat /\ head <= tail /\ tail + 3 <= head + Size /\ reclsn \in Nat \ {0}
    BY Sizes DEF RingInv, RingTypes, HasRoom, DirtyPageNum
<1>3. Positions' = Positions \cup {tail} /\ tail \notin Positions
    BY <1>1, <1>2 DEF Positions
<1>4. \A n : At(n)' = At(n)
    BY <1>1 DEF At
<1>5. At(tail) = Empty
    BY TailIsEmpty
<1>6. by # "none"
    BY Sizes
<1>7. /\ pend'[p].at = tail /\ pend'[p].lsn = reclsn /\ pend'[p].by = by
      /\ \A q \in Pages \ {p} : pend'[q] = pend[q]
    BY <1>1 DEF RingInv, RingTypes
<1>8. Pending(p)' /\ \A q \in Pages \ {p} : Pending(q)' = Pending(q)
    BY <1>6, <1>7 DEF Pending, NoPend
<1>9. RingTypes'
    <2>1. [by |-> by, at |-> tail, lsn |-> reclsn]
            \in [by : Backends \cup {"none", "hint", "flush"}, at : Nat, lsn : Nat]
        BY <1>2
    <2> QED
        BY <1>1, <1>2, <2>1 DEF RingInv, RingTypes
<1>10. SlotInv'
    <2>1. \A n \in Positions' : At(n)'.buf # None => n \in Positions
        BY <1>3, <1>4, <1>5 DEF Empty
    <2> QED
        BY <1>1, <1>3, <1>4, <2>1 DEF RingInv, SlotInv
<1>11. loc[p] = -1
    BY DEF RingInv, PageInv
<1>12. ASSUME NEW q \in Pages PROVE PageInv(q)'
    <2>1. PageInv(q)
        BY DEF RingInv
    <2>2. CASE q = p
        BY <1>1, <1>2, <1>3, <1>4, <1>5, <1>6, <1>7, <1>11, <2>1, <2>2 DEF PageInv, Empty
    <2>3. CASE q # p
        BY <1>1, <1>3, <1>4, <1>7, <1>8, <2>1, <2>3 DEF PageInv
    <2> QED
        BY <2>2, <2>3
<1>13. ASSUME NEW q \in Pages, NEW r \in Pages, Pending(q)', Pending(r)', pend'[q].at = pend'[r].at
       PROVE  q = r
    <2>1. \A x \in Pages : Pending(x) => pend[x].at \in Positions
        BY DEF RingInv, PageInv
    <2> QED
        BY <1>3, <1>7, <1>8, <1>13, <2>1 DEF RingInv
<1>14. RingInv'
    BY <1>9, <1>10, <1>12, <1>13 DEF RingInv
<1>15. \A n \in Positions : ~In(p, n)
    <2>1. \A n \in Positions : Index(n) # -1
        BY <1>2, IndexType DEF RingInv, Positions
    <2> QED
        BY <1>11, <2>1, InQueue
<1>16. OrderInv'
    <2>1. ASSUME NEW q \in Pages, NEW n \in Positions', In(q, n)'
          PROVE  (q = p /\ n = tail) \/ (q # p /\ n \in Positions /\ In(q, n))
        <3>1. CASE q = p
            BY <1>3, <1>4, <1>7, <1>15, <2>1, <3>1 DEF In
        <3>2. CASE q # p
            <4>1. In(q, n)
                BY <1>4, <1>7, <1>8, <2>1, <3>2 DEF In
            <4>2. n # tail
                <5>1. At(tail).buf # q
                    BY <1>5, Sizes DEF Empty
                <5>2. Pending(q) => pend[q].at \in Positions
                    BY DEF RingInv, PageInv
                <5> QED
                    BY <1>3, <4>1, <5>1, <5>2 DEF In
            <4> QED
                BY <1>3, <3>2, <4>1, <4>2
        <3> QED
            BY <3>1, <3>2
    <2>2. Lsn(p)' = reclsn /\ \A q \in Pages \ {p} : Lsn(q)' = Lsn(q)
        BY <1>1, <1>7, <1>8 DEF Lsn
    <2>3. ASSUME NEW q \in Pages, NEW r \in Pages, NEW m \in Positions', NEW n \in Positions',
                 In(q, m)', In(r, n)', m < n
          PROVE  Lsn(q)' <= Lsn(r)'
        <3>1. m \in Positions /\ q # p /\ In(q, m)
            BY <1>2, <1>3, <2>1, <2>3 DEF Positions
        <3>2. CASE r = p
            BY <1>2, <2>2, <3>1, <3>2, InQueue
        <3>3. CASE r # p
            BY <2>1, <2>2, <2>3, <3>1, <3>3 DEF OrderInv
        <3> QED
            BY <3>2, <3>3
    <2> QED
        BY <2>3 DEF OrderInv
<1>17. PruneInv'
    BY <1>1, <1>3, <1>4 DEF PruneInv
<1> QED
    BY <1>14, <1>16, <1>17

\* The rest of push_pending_flush_queue.
LEMMA FillRing ==
    ASSUME RingInv, OrderInv, PruneInv, NEW p \in Pages, Pending(p), Fill(p), UNCHANGED pr
    PROVE  RingInv' /\ OrderInv' /\ PruneInv'
<1>0. PICK at \in Nat : at = pend[p].at
    BY DEF RingInv, RingTypes
<1>1. /\ head' = head /\ tail' = tail /\ reclsn' = reclsn
      /\ slot' = [slot EXCEPT ![Index(at)] = [buf |-> p, valid |-> TRUE]]
      /\ loc' = [loc EXCEPT ![p] = Index(at)]
      /\ recLsn' = [recLsn EXCEPT ![p] = pend[p].lsn]
      /\ pend' = [pend EXCEPT ![p] = NoPend]
    BY <1>0 DEF Fill, PushedLsn, Index
<1>2. PageInv(p)
    BY DEF RingInv
<1>3. /\ head \in Nat /\ tail \in Nat /\ head <= tail /\ tail + 2 <= head + Size
      /\ at \in Positions /\ ~At(at).valid /\ loc[p] = -1 /\ pend[p].lsn \in 1..reclsn
      /\ reclsn \in Nat
    BY <1>0, <1>2 DEF RingInv, RingTypes, PageInv
<1>4. Positions' = Positions /\ at \in Nat /\ Index(at) \in 0..Size - 1 /\ Positions \subseteq Nat
    BY <1>1, <1>3, IndexType DEF Positions, RingInv
<1>5. /\ At(at)' = [buf |-> p, valid |-> TRUE]
      /\ \A n \in Positions \ {at} : At(n)' = At(n)
    <2>1. \A n \in Positions : n < at + Size /\ at < n + Size
        BY <1>3, Sizes DEF Positions
    <2> QED
        BY <1>1, <1>4, <2>1, AtChanged DEF RingInv, RingTypes
<1>6. /\ pend'[p] = NoPend /\ \A q \in Pages \ {p} : pend'[q] = pend[q]
      /\ loc'[p] = Index(at) /\ \A q \in Pages \ {p} : loc'[q] = loc[q]
      /\ recLsn'[p] = pend[p].lsn /\ \A q \in Pages \ {p} : recLsn'[q] = recLsn[q]
    BY <1>1 DEF RingInv, RingTypes
<1>7. ~Pending(p)' /\ \A q \in Pages \ {p} : Pending(q)' = Pending(q)
    BY <1>6 DEF Pending
<1>8. RingTypes'
    <2>1. NoPend \in [by : Backends \cup {"none", "hint", "flush"}, at : Nat, lsn : Nat]
        BY DEF NoPend
    <2>2. slot' \in [0..Size - 1 -> [buf : Pages \cup {None}, valid : BOOLEAN]]
        BY <1>1 DEF RingInv, RingTypes
    <2>3. loc' \in [Pages -> -1..Size - 1] /\ recLsn' \in [Pages -> Nat]
        BY <1>1, <1>3, <1>4 DEF RingInv, RingTypes
    <2>4. pend' \in [Pages -> [by : Backends \cup {"none", "hint", "flush"}, at : Nat, lsn : Nat]]
        BY <1>1, <2>1 DEF RingInv, RingTypes
    <2> QED
        BY <1>1, <2>2, <2>3, <2>4 DEF RingInv, RingTypes
<1>9. At(at).buf = None
    BY <1>3 DEF RingInv, SlotInv
<1>10. \A n \in Positions : n # at => At(n).buf # p
    <2>1. \A n \in Positions : Index(n) # -1 /\ p # None
        BY <1>3, IndexType, Sizes DEF RingInv, Positions
    <2> QED
        BY <1>3, <2>1 DEF RingInv, SlotInv
<1>11. SlotInv'
    <2>1. ASSUME NEW i \in 0..Size - 1, \A n \in Positions' : Index(n) # i
          PROVE  slot'[i] = Empty
        <3>1. i # Index(at)
            BY <1>3, <1>4, <2>1
        <3> QED
            BY <1>1, <1>4, <2>1, <3>1 DEF RingInv, RingTypes, SlotInv
    <2>2. ASSUME NEW n \in Positions', At(n)'.buf # None
          PROVE  At(n)'.valid /\ loc'[At(n)'.buf] = Index(n)
        <3>1. CASE n = at
            BY <1>5, <1>6, <3>1
        <3>2. CASE n # at
            <4>1. At(n)' = At(n) /\ At(n).buf \in Pages \ {p} /\ n \in Positions
                <5>0. n \in Positions
                    BY <1>4
                <5>1. n \in head..tail
                    BY <1>3, <5>0 DEF Positions
                <5>2. At(n).buf \in Pages \cup {None}
                    BY <5>1, IndexType DEF RingInv, RingTypes, At, Index
                <5> QED
                    BY <1>4, <1>5, <1>10, <2>2, <3>2, <5>2
            <4> QED
                BY <1>6, <2>2, <4>1 DEF RingInv, SlotInv
        <3> QED
            BY <3>1, <3>2
    <2> QED
        BY <2>1, <2>2 DEF SlotInv
<1>12. ASSUME NEW q \in Pages PROVE PageInv(q)'
    <2>1. PageInv(q)
        BY DEF RingInv
    <2>2. CASE q = p
        BY <1>1, <1>3, <1>4, <1>5, <1>6, <1>7, <2>2 DEF PageInv
    <2>3. CASE q # p
        <3>1. Pending(q) => pend[q].at # at
            BY <1>0, <2>3 DEF RingInv
        <3>2. \A n \in Positions : At(n).buf = q => At(n)' = At(n)
            BY <1>5, <1>9, Sizes
        <3>3. loc'[q] = loc[q] /\ recLsn'[q] = recLsn[q] /\ pend'[q] = pend[q]
              /\ Pending(q)' = Pending(q)
            BY <1>6, <1>7, <2>3
        <3>4. CASE Pending(q)
            <4>1. PICK m \in Positions : m = pend[q].at /\ m # at /\ ~At(m).valid
                BY <2>1, <3>1, <3>4 DEF PageInv
            <4>2. At(m)' = At(m)
                BY <1>5, <4>1
            <4> QED
                BY <1>1, <1>4, <2>1, <3>3, <3>4, <4>1, <4>2 DEF PageInv
        <3>5. CASE ~Pending(q)
            BY <1>1, <1>4, <2>1, <3>2, <3>3, <3>5 DEF PageInv
        <3> QED
            BY <3>4, <3>5
    <2> QED
        BY <2>2, <2>3
<1>13. RingInv'
    BY <1>6, <1>7, <1>8, <1>11, <1>12 DEF RingInv
<1>14. OrderInv'
    <2>1. ASSUME NEW q \in Pages, NEW n \in Positions, In(q, n)'
          PROVE  In(q, n) /\ Lsn(q)' = Lsn(q)
        <3>1. CASE q = p
            <4>1. n = at
                BY <1>5, <1>7, <1>10, <2>1, <3>1 DEF In
            <4> QED
                BY <1>0, <1>6, <1>7, <3>1, <4>1 DEF In, Lsn
        <3>2. CASE q # p
            <4>1. Lsn(q)' = Lsn(q)
                BY <1>6, <1>7, <3>2 DEF Lsn
            <4>2. Pending(q) => pend[q].at # at
                BY <1>0, <3>2 DEF RingInv
            <4> QED
                BY <1>5, <1>6, <1>7, <2>1, <3>2, <4>1, <4>2 DEF In
        <3> QED
            BY <3>1, <3>2
    <2> QED
        BY <1>4, <2>1, OrderKeeps
<1>15. PruneInv'
    <2>1. CASE pr.seen # {}
        <3>1. at \notin head..pr.last /\ head..pr.last \subseteq Positions
            BY <1>3, <2>1 DEF PruneInv, Positions
        <3> QED
            BY <1>1, <1>4, <1>5, <2>1, <3>1 DEF PruneInv
    <2>2. CASE pr.seen = {}
        BY <1>1, <2>2 DEF PruneInv
    <2> QED
        BY <2>1, <2>2
<1> QED
    BY <1>13, <1>14, <1>15

\* remove_dirty_page_from_queue.
LEMMA RemoveRing ==
    ASSUME RingInv, OrderInv, PruneInv, NEW p \in Pages, loc[p] # -1, RemoveDirtyPageFromQueue(p),
           UNCHANGED pr
    PROVE  RingInv' /\ OrderInv' /\ PruneInv'
<1>1. PageInv(p)
    BY DEF RingInv
<1>2. PICK at \in Positions : loc[p] = Index(at) /\ At(at) = [buf |-> p, valid |-> TRUE]
    BY <1>1 DEF PageInv
<1>3. /\ head \in Nat /\ tail \in Nat /\ head <= tail /\ tail + 2 <= head + Size
      /\ reclsn \in Nat
    BY DEF RingInv, RingTypes
<1>4. /\ at \in Nat /\ Index(at) \in 0..Size - 1 /\ Positions \subseteq Nat
    BY <1>3, IndexType DEF Positions, RingInv
<1>5. slot[Index(at)] = [buf |-> p, valid |-> TRUE]
    BY <1>2 DEF At, Index
<1>6. /\ head' = head /\ tail' = tail /\ reclsn' = reclsn /\ pend' = pend
      /\ slot' = [slot EXCEPT ![Index(at)] = [buf |-> None, valid |-> TRUE]]
      /\ loc' = [loc EXCEPT ![p] = -1]
      /\ recLsn' = [recLsn EXCEPT ![p] = 0]
    <2>1. slot' = [slot EXCEPT ![Index(at)].buf = None]
        BY <1>2 DEF RemoveDirtyPageFromQueue
    <2>3. slot' = [slot EXCEPT ![Index(at)] = [buf |-> None, valid |-> TRUE]]
        <3>1. slot[Index(at)].valid = TRUE
            BY <1>5
        <3>2. slot \in [0..Size - 1 -> [buf : Pages \cup {None}, valid : BOOLEAN]]
            BY DEF RingInv, RingTypes
        <3>3. [slot[Index(at)] EXCEPT !.buf = None] = [buf |-> None, valid |-> TRUE]
            <4>1. slot[Index(at)] \in [buf : Pages \cup {None}, valid : BOOLEAN]
                BY <1>4, <3>2
            <4>2. [slot[Index(at)] EXCEPT !.buf = None]
                    = [buf |-> None, valid |-> slot[Index(at)].valid]
                BY <4>1, WithBuf
            <4> QED
                BY <3>1, <4>2, Zenon
        <3> QED
            BY <1>4, <2>1, <3>2, <3>3
    <2> QED
        BY <2>3 DEF RemoveDirtyPageFromQueue
<1>7. Positions' = Positions
    BY <1>6 DEF Positions
<1>8. /\ At(at)' = [buf |-> None, valid |-> TRUE]
      /\ \A n \in Positions \ {at} : At(n)' = At(n)
    <2>1. \A n \in Positions : n < at + Size /\ at < n + Size
        BY <1>3, Sizes DEF Positions
    <2> QED
        BY <1>6, <1>4, <2>1, AtChanged DEF RingInv, RingTypes
<1>9. /\ loc'[p] = -1 /\ \A q \in Pages \ {p} : loc'[q] = loc[q]
      /\ recLsn'[p] = 0 /\ \A q \in Pages \ {p} : recLsn'[q] = recLsn[q]
    BY <1>6 DEF RingInv, RingTypes
<1>10. \A q \in Pages : Pending(q)' = Pending(q)
    BY <1>6 DEF Pending
<1>11. ~Pending(p)
    BY <1>1 DEF PageInv
<1>12. RingTypes'
    <2>1. slot' \in [0..Size - 1 -> [buf : Pages \cup {None}, valid : BOOLEAN]]
        BY <1>6 DEF RingInv, RingTypes
    <2>2. loc' \in [Pages -> -1..Size - 1] /\ recLsn' \in [Pages -> Nat]
        BY <1>6, Sizes DEF RingInv, RingTypes
    <2> QED
        BY <1>6, <2>1, <2>2 DEF RingInv, RingTypes
<1>13. \A n \in Positions : n # at => At(n).buf # p
    <2>1. \A n \in Positions : n \in head..tail
        BY <1>3 DEF Positions
    <2>2. \A n \in Positions : n # at => Index(n) # Index(at)
        BY <2>1, IndexDiffers DEF RingInv
    <2> QED
        BY <1>2, <2>2, Sizes DEF RingInv, SlotInv
<1>14. SlotInv'
    <2>1. ASSUME NEW i \in 0..Size - 1, \A n \in Positions' : Index(n) # i
          PROVE  slot'[i] = Empty
        <3>1. i # Index(at)
            BY <1>7, <2>1
        <3> QED
            BY <1>6, <1>7, <2>1, <3>1 DEF RingInv, RingTypes, SlotInv
    <2>2. ASSUME NEW n \in Positions', At(n)'.buf # None
          PROVE  At(n)'.valid /\ loc'[At(n)'.buf] = Index(n)
        <3>0. n # at /\ n \in Positions
            BY <1>7, <1>8, <2>2
        <3>1. n # at /\ n \in Positions /\ n \in head..tail
            BY <1>3, <3>0 DEF Positions
        <3>2. At(n).buf \in Pages \cup {None}
            BY <3>1, IndexType DEF RingInv, RingTypes, At, Index
        <3>3. At(n)' = At(n) /\ At(n).buf \in Pages \ {p}
            BY <1>8, <1>13, <2>2, <3>1, <3>2
        <3> QED
            BY <1>9, <2>2, <3>1, <3>3 DEF RingInv, SlotInv
    <2> QED
        BY <2>1, <2>2 DEF SlotInv
<1>15. ASSUME NEW q \in Pages PROVE PageInv(q)'
    <2>1. PageInv(q)
        BY DEF RingInv
    <2>2. CASE q = p
        BY <1>3, <1>6, <1>9, <1>10, <1>11, <2>2 DEF PageInv
    <2>3. CASE q # p
        <3>1. Pending(q) => pend[q].at # at
            BY <1>2, <2>1 DEF PageInv
        <3>2. \A n \in Positions : At(n).buf = q => At(n)' = At(n)
            BY <1>2, <1>8, <2>3
        <3> QED
            BY <1>6, <1>7, <1>8, <1>9, <1>10, <2>1, <2>3, <3>1, <3>2 DEF PageInv
    <2> QED
        BY <2>2, <2>3
<1>16. RingInv'
    BY <1>6, <1>10, <1>12, <1>14, <1>15 DEF RingInv
<1>17. OrderInv'
    <2>1. ASSUME NEW q \in Pages, NEW n \in Positions, In(q, n)'
          PROVE  In(q, n) /\ Lsn(q)' = Lsn(q)
        <3>1. q # p
            BY <1>8, <1>10, <1>11, <1>13, <2>1, Sizes DEF In
        <3> QED
            BY <1>6, <1>8, <1>9, <1>10, <2>1, <3>1, Sizes DEF In, Lsn
    <2> QED
        BY <1>7, <2>1, OrderKeeps
<1>18. PruneInv'
    <2>1. CASE pr.seen # {}
        <3>1. head..pr.last \subseteq Positions
            BY <1>3, <2>1 DEF PruneInv, Positions
        <3> QED
            BY <1>6, <1>7, <1>8, <2>1, <3>1 DEF PruneInv
    <2>2. CASE pr.seen = {}
        BY <1>6, <2>2 DEF PruneInv
    <2> QED
        BY <2>1, <2>2
<1> QED
    BY <1>16, <1>17, <1>18

\* ckpt_move_queue_head_after_flush.
LEMMA MoveHeadRing ==
    ASSUME RingInv, OrderInv, PruneInv, MoveHead
    PROVE  RingInv' /\ OrderInv' /\ PruneInv'
<1>1. /\ head \in Nat /\ tail \in Nat /\ tail + 2 <= head + Size /\ Size \in Nat
    BY Sizes DEF RingInv, RingTypes
<1>2. head \in Positions /\ At(head).valid /\ At(head).buf = None
    BY <1>1 DEF MoveHead, Emptied, Occupied, Window, Positions
<1>3. Index(head) \in 0..Size - 1
    BY <1>1, <1>2, IndexType DEF RingInv, Positions
<1>4. /\ head' = head + 1 /\ tail' = tail /\ reclsn' = reclsn /\ pend' = pend /\ pr' = pr
      /\ loc' = loc /\ recLsn' = recLsn /\ pr = NoPrune
      /\ slot' = [slot EXCEPT ![Index(head)] = Empty]
    <2>1. slot' = [slot EXCEPT ![Index(head)].valid = FALSE]
        BY DEF MoveHead, SlotLeft, Index
    <2>2. slot[Index(head)].buf = None
        BY <1>2 DEF At, Index
    <2>3. slot' = [slot EXCEPT ![Index(head)] = Empty]
        <3>1. slot \in [0..Size - 1 -> [buf : Pages \cup {None}, valid : BOOLEAN]]
            BY DEF RingInv, RingTypes
        <3>2. slot' = [slot EXCEPT ![Index(head)] = [buf |-> None, valid |-> FALSE]]
            <4>1. [slot[Index(head)] EXCEPT !.valid = FALSE] = [buf |-> None, valid |-> FALSE]
                BY <1>3, <2>2, <3>1, WithValid
            <4> QED
                BY <1>3, <2>1, <3>1, <4>1
        <3> QED
            BY <3>2 DEF Empty
    <2> QED
        BY <2>3 DEF MoveHead, writerVars
<1>5. Positions' = Positions \ {head} /\ Positions \subseteq Nat
    BY <1>1, <1>2, <1>4 DEF Positions
<1>6. \A n \in Positions \ {head} : At(n)' = At(n)
    <2>1. \A n \in Positions : n < head + Size /\ head < n + Size
        BY <1>1, Sizes DEF Positions
    <2> QED
        BY <1>1, <1>4, <1>5, <2>1, AtChanged DEF RingInv, RingTypes
<1>7. \A q \in Pages : Pending(q)' = Pending(q) /\ Lsn(q)' = Lsn(q)
    BY <1>4 DEF Pending, Lsn
<1>8. RingTypes'
    <2>1. slot' \in [0..Size - 1 -> [buf : Pages \cup {None}, valid : BOOLEAN]]
        BY <1>4 DEF RingInv, RingTypes, Empty
    <2>2. head' \in Nat /\ head' <= tail'
        BY <1>1, <1>2, <1>4 DEF Positions
    <2> QED
        BY <1>1, <1>4, <2>1, <2>2 DEF RingInv, RingTypes
<1>9. SlotInv'
    <2>1. ASSUME NEW i \in 0..Size - 1, \A n \in Positions' : Index(n) # i
          PROVE  slot'[i] = Empty
        <3>1. CASE i = Index(head)
            BY <1>3, <1>4, <3>1 DEF RingInv, RingTypes
        <3>2. CASE i # Index(head)
            <4>1. \A n \in Positions : Index(n) # i
                BY <1>5, <2>1, <3>2
            <4> QED
                BY <1>4, <3>2, <4>1 DEF RingInv, RingTypes, SlotInv
        <3> QED
            BY <3>1, <3>2
    <2> QED
        BY <1>4, <1>5, <1>6, <2>1 DEF RingInv, SlotInv
<1>10. ASSUME NEW q \in Pages PROVE PageInv(q)'
    <2>1. PageInv(q)
        BY DEF RingInv
    <2>2. \A n \in Positions : At(n).buf = q => n \in Positions' /\ At(n)' = At(n)
        BY <1>2, <1>5, <1>6, Sizes
    <2>3. CASE Pending(q)
        <3>1. PICK m \in Positions : m = pend[q].at /\ m # head /\ ~At(m).valid
            BY <1>2, <2>1, <2>3 DEF PageInv
        <3>2. At(m)' = At(m) /\ m \in Positions'
            BY <1>5, <1>6, <3>1
        <3> QED
            BY <1>4, <1>7, <2>1, <2>3, <3>1, <3>2 DEF PageInv
    <2>4. CASE ~Pending(q)
        BY <1>4, <1>7, <2>1, <2>2, <2>4 DEF PageInv
    <2> QED
        BY <2>3, <2>4
<1>11. RingInv'
    BY <1>4, <1>7, <1>8, <1>9, <1>10 DEF RingInv
<1>12. OrderInv'
    <2>1. \A p \in Pages : \A n \in Positions' : In(p, n)' => In(p, n) /\ Lsn(p)' = Lsn(p)
        BY <1>4, <1>5, <1>6, <1>7 DEF In
    <2> QED
        BY <1>5, <2>1, OrderKeeps
<1>13. PruneInv'
    BY <1>4 DEF PruneInv, NoPrune
<1> QED
    BY <1>11, <1>12, <1>13

\* ckpt_try_prune_dirty_page_queue moves page p to an emptied slot behind it, with only
\* emptied slots in between.
LEMMA MoveRing ==
    ASSUME RingInv, OrderInv, NEW from \in Positions, NEW to \in Positions, from < to,
           \A n \in from + 1..to : At(n).valid /\ At(n).buf = None,
           NEW p \in Pages, At(from).buf = p,
           slot' = [slot EXCEPT ![Index(to)].buf = p, ![Index(from)].buf = None],
           loc' = [loc EXCEPT ![p] = Index(to)],
           UNCHANGED <<reclsn, head, tail, recLsn, pend>>
    PROVE  /\ RingInv' /\ OrderInv'
           /\ At(from)' = [buf |-> None, valid |-> TRUE] /\ At(to)' = [buf |-> p, valid |-> TRUE]
           /\ \A n \in Positions \ {from, to} : At(n)' = At(n)
<1>1. /\ head \in Nat /\ tail \in Nat /\ tail + 2 <= head + Size /\ Size \in Nat
    BY Sizes DEF RingInv, RingTypes
<1>2. /\ from \in Nat /\ to \in Nat /\ from \in head..tail /\ to \in head..tail
      /\ Index(from) \in 0..Size - 1 /\ Index(to) \in 0..Size - 1 /\ Positions \subseteq Nat
    BY <1>1, IndexType DEF RingInv, Positions
<1>3. Index(from) # Index(to)
    BY <1>2, IndexDiffers DEF RingInv
<1>4. p # None /\ In(p, from) /\ to \in from + 1..to
    BY <1>2, Sizes DEF In
<1>5. At(from) = [buf |-> p, valid |-> TRUE] /\ loc[p] = Index(from) /\ ~Pending(p)
    <2>1. At(from).valid
        BY <1>4 DEF RingInv, SlotInv
    <2> QED
        BY <1>4, <2>1, InQueue
<1>6. At(to).valid /\ At(to).buf = None
    BY <1>4
<1>7. slot' = [[slot EXCEPT ![Index(to)] = [buf |-> p, valid |-> TRUE]]
                     EXCEPT ![Index(from)] = [buf |-> None, valid |-> TRUE]]
    <2> DEFINE mid == [slot EXCEPT ![Index(to)].buf = p]
    <2>1. slot[Index(to)].valid = TRUE /\ slot[Index(from)].valid = TRUE
        <3>1. slot[Index(to)] \in [buf : Pages \cup {None}, valid : BOOLEAN]
            BY <1>2 DEF RingInv, RingTypes
        <3> QED
            BY <1>5, <1>6, <3>1 DEF At, Index
    <2>2. mid = [slot EXCEPT ![Index(to)] = [buf |-> p, valid |-> TRUE]]
        <3>1. slot \in [0..Size - 1 -> [buf : Pages \cup {None}, valid : BOOLEAN]]
            BY DEF RingInv, RingTypes
        <3>2. [slot[Index(to)] EXCEPT !.buf = p] = [buf |-> p, valid |-> TRUE]
            <4>1. slot[Index(to)] \in [buf : Pages \cup {None}, valid : BOOLEAN]
                BY <1>2, <3>1
            <4>2. [slot[Index(to)] EXCEPT !.buf = p] = [buf |-> p, valid |-> slot[Index(to)].valid]
                BY <4>1, WithBuf
            <4> QED
                BY <2>1, <4>2, Zenon
        <3> QED
            BY <1>2, <3>1, <3>2
    <2>3. slot' = [mid EXCEPT ![Index(from)].buf = None]
        OBVIOUS
    <2> HIDE DEF mid
    <2>4. mid \in [0..Size - 1 -> [buf : Pages \cup {None}, valid : BOOLEAN]]
        BY <1>2, <2>2 DEF RingInv, RingTypes
    <2>5. mid[Index(from)].valid = TRUE
        BY <1>2, <1>3, <2>1, <2>2 DEF RingInv, RingTypes
    <2>6. slot' = [mid EXCEPT ![Index(from)] = [buf |-> None, valid |-> TRUE]]
        <3>1. [mid[Index(from)] EXCEPT !.buf = None] = [buf |-> None, valid |-> TRUE]
            BY <1>2, <2>4, <2>5, WithBuf
        <3> QED
            BY <1>2, <2>3, <2>4, <3>1
    <2> QED
        BY <2>2, <2>6, Zenon
<1>8. Positions' = Positions
    BY DEF Positions
<1>9. /\ At(from)' = [buf |-> None, valid |-> TRUE] /\ At(to)' = [buf |-> p, valid |-> TRUE]
      /\ \A n \in Positions \ {from, to} : At(n)' = At(n)
    <2>1. ASSUME NEW n \in Positions \ {from, to}
          PROVE  Index(n) # Index(from) /\ Index(n) # Index(to) /\ Index(n) \in 0..Size - 1
        <3>1. n \in head..tail
            BY <1>1 DEF Positions
        <3> QED
            BY <1>2, <3>1, IndexDiffers, IndexType DEF RingInv
    <2>2. \A n : At(n)' = slot'[Index(n)] /\ At(n) = slot[Index(n)]
        BY DEF At, Index
    <2> QED
        BY <1>2, <1>3, <1>7, <2>1, <2>2 DEF RingInv, RingTypes
<1>10. /\ loc'[p] = Index(to) /\ \A q \in Pages \ {p} : loc'[q] = loc[q]
    BY <1>2 DEF RingInv, RingTypes
<1>11. \A q \in Pages : Pending(q)' = Pending(q) /\ Lsn(q)' = Lsn(q)
    BY DEF Pending, Lsn
<1>12. RingTypes'
    <2>1. slot' \in [0..Size - 1 -> [buf : Pages \cup {None}, valid : BOOLEAN]]
        <3>1. [slot EXCEPT ![Index(to)] = [buf |-> p, valid |-> TRUE]]
                \in [0..Size - 1 -> [buf : Pages \cup {None}, valid : BOOLEAN]]
            BY <1>2 DEF RingInv, RingTypes
        <3>2. [buf |-> None, valid |-> TRUE] \in [buf : Pages \cup {None}, valid : BOOLEAN]
            OBVIOUS
        <3> QED
            BY <1>2, <1>7, <3>1, <3>2
    <2>2. loc' \in [Pages -> -1..Size - 1]
        BY <1>2 DEF RingInv, RingTypes
    <2> QED
        BY <2>1, <2>2 DEF RingInv, RingTypes
<1>13. \A n \in Positions : n # from => At(n).buf # p
    <2>1. \A n \in Positions : n \in head..tail
        BY <1>1 DEF Positions
    <2>2. \A n \in Positions : n # from => Index(n) # Index(from)
        BY <1>2, <2>1, IndexDiffers DEF RingInv
    <2> QED
        BY <1>4, <1>5, <2>2 DEF RingInv, SlotInv
<1>14. SlotInv'
    <2>1. ASSUME NEW i \in 0..Size - 1, \A n \in Positions' : Index(n) # i
          PROVE  slot'[i] = Empty
        <3>1. i # Index(from) /\ i # Index(to)
            BY <1>8, <2>1
        <3> QED
            BY <1>7, <1>8, <2>1, <3>1 DEF RingInv, RingTypes, SlotInv
    <2>2. ASSUME NEW n \in Positions', At(n)'.buf # None
          PROVE  At(n)'.valid /\ loc'[At(n)'.buf] = Index(n)
        <3>0. n \in Positions /\ n # from
            BY <1>8, <1>9, <2>2
        <3>1. n \in head..tail
            BY <1>1, <3>0 DEF Positions
        <3>2. CASE n = to
            BY <1>9, <1>10, <3>2
        <3>3. CASE n # to
            <4>1. At(n).buf \in Pages \cup {None}
                BY <3>1, IndexType DEF RingInv, RingTypes, At, Index
            <4>2. At(n)' = At(n) /\ At(n).buf \in Pages \ {p}
                BY <1>9, <1>13, <2>2, <3>0, <3>3, <4>1
            <4> QED
                BY <1>10, <2>2, <3>0, <4>2 DEF RingInv, SlotInv
        <3> QED
            BY <3>2, <3>3
    <2> QED
        BY <2>1, <2>2 DEF SlotInv
<1>15. ASSUME NEW q \in Pages PROVE PageInv(q)'
    <2>1. PageInv(q)
        BY DEF RingInv
    <2>2. CASE q = p
        <3>1. loc'[p] # -1 /\ loc[p] # -1
            BY <1>2, <1>5, <1>10
        <3> QED
            BY <1>5, <1>8, <1>9, <1>10, <1>11, <2>1, <2>2, <3>1 DEF PageInv
    <2>3. CASE q # p
        <3>1. \A n \in Positions : At(n).buf = q => At(n)' = At(n)
            BY <1>5, <1>6, <1>9, <2>3, Sizes
        <3>2. CASE Pending(q)
            <4>1. PICK m \in Positions : m = pend[q].at /\ ~At(m).valid
                BY <2>1, <3>2 DEF PageInv
            <4>2. At(m)' = At(m)
                BY <1>5, <1>6, <1>9, <4>1
            <4> QED
                BY <1>8, <1>10, <1>11, <2>1, <2>3, <3>2, <4>1, <4>2 DEF PageInv
        <3>3. CASE ~Pending(q)
            BY <1>8, <1>10, <1>11, <2>1, <2>3, <3>1, <3>3 DEF PageInv
        <3> QED
            BY <3>2, <3>3
    <2> QED
        BY <2>2, <2>3
<1>16. RingInv'
    BY <1>11, <1>12, <1>14, <1>15 DEF RingInv
<1>17. OrderInv'
    <2>1. ASSUME NEW q \in Pages, NEW n \in Positions, In(q, n)'
          PROVE  (q = p /\ n = to) \/ (q # p /\ In(q, n) /\ (n < from \/ n > to))
        <3>1. CASE q = p
            <4>1. ~(Pending(q)' /\ pend'[q].at = n)
                BY <1>5, <1>11, <3>1
            <4>2. n # from
                BY <1>4, <1>9, <2>1, <3>1, <4>1 DEF In
            <4> QED
                BY <1>9, <1>13, <2>1, <3>1, <4>1, <4>2 DEF In
        <3>2. CASE q # p
            <4>1. In(q, n)
                <5>1. CASE Pending(q) /\ pend[q].at = n
                    BY <5>1 DEF In
                <5>2. CASE ~(Pending(q) /\ pend[q].at = n)
                    <6>1. At(n)'.buf = q
                        BY <1>11, <2>1, <5>2 DEF In
                    <6>2. n # from /\ n # to
                        BY <1>9, <3>2, <6>1, Sizes
                    <6> QED
                        BY <1>9, <6>1, <6>2 DEF In
                <5> QED
                    BY <5>1, <5>2
            <4>2. n # from /\ ~(n \in from + 1..to)
                <5>1. \/ ~At(n).valid
                      \/ At(n) = [buf |-> q, valid |-> TRUE]
                    BY <4>1, InQueue
                <5> QED
                    BY <1>5, <3>2, <5>1, Sizes
            <4> QED
                BY <1>2, <3>2, <4>1, <4>2
        <3> QED
            BY <3>1, <3>2
    <2>2. ASSUME NEW q \in Pages, NEW r \in Pages, NEW m \in Positions, NEW n \in Positions,
                 In(q, m)', In(r, n)', m < n
          PROVE  Lsn(q) <= Lsn(r)
        <3>1. CASE q = p /\ r = p
            BY <1>2, <2>1, <2>2, <3>1
        <3>2. CASE q = p /\ r # p
            <4>1. In(r, n) /\ from < n
                BY <1>2, <2>1, <2>2, <3>2
            <4> QED
                BY <1>4, <3>2, <4>1 DEF OrderInv
        <3>3. CASE q # p /\ r = p
            <4>1. In(q, m) /\ m < from
                BY <1>2, <2>1, <2>2, <3>3
            <4> QED
                BY <1>4, <3>3, <4>1 DEF OrderInv
        <3>4. CASE q # p /\ r # p
            BY <2>1, <2>2, <3>4 DEF OrderInv
        <3> QED
            BY <3>1, <3>2, <3>3, <3>4
    <2> QED
        BY <1>8, <1>11, <2>2 DEF OrderInv
<1> QED
    BY <1>9, <1>16, <1>17

\* What is left to move.
Rest(nx, last) ==
    IF pr.seen \ {nx} = {} THEN NoPrune ELSE [seen |-> pr.seen \ {nx}, last |-> last]

\* ckpt_try_prune_dirty_page_queue never finds a page in the slot it moves one to.
LEMMA PruneMoveIs ==
    ASSUME RingInv, PruneInv, PruneMove
    PROVE  \E nx \in pr.seen :
              /\ \A n \in pr.seen : n <= nx
              /\ panic' = panic
              /\ \/ /\ At(nx).buf = None /\ UNCHANGED <<slot, loc>> /\ pr' = Rest(nx, pr.last)
                 \/ /\ At(nx).buf # None /\ HeaderFree(At(nx).buf)
                    /\ slot' = [slot EXCEPT ![Index(pr.last)].buf = At(nx).buf,
                                            ![Index(nx)].buf = None]
                    /\ loc' = [loc EXCEPT ![At(nx).buf] = Index(pr.last)]
                    /\ pr' = Rest(nx, pr.last - 1)
<1>1. pr.seen # {} /\ pr.seen \in SUBSET (0..tail) /\ tail \in Nat
    BY DEF PruneMove, PruneInv, RingInv, RingTypes, Positions
<1>2. PICK nx \in pr.seen : nx = Max(pr.seen) /\ \A n \in pr.seen : n <= nx
    BY <1>1, MaxIs
<1>3. At(pr.last).buf = None
    <2>1. pr.last \in head..pr.last /\ pr.last \notin pr.seen
        BY <1>1 DEF PruneInv, RingInv, RingTypes, Positions
    <2> QED
        BY <1>1, <2>1 DEF PruneInv
<1>4. CASE At(nx).buf = None
    <2>1. UNCHANGED <<slot, loc, panic>> /\ pr' = Rest(nx, pr.last)
        BY <1>2, <1>4 DEF PruneMove, NextToMove, At, Rest
    <2> QED
        BY <1>2, <1>4, <2>1
<1>5. CASE At(nx).buf # None
    <2>1. /\ panic' = panic /\ HeaderFree(At(nx).buf)
          /\ slot' = [slot EXCEPT ![Index(pr.last)].buf = At(nx).buf, ![Index(nx)].buf = None]
          /\ loc' = [loc EXCEPT ![At(nx).buf] = Index(pr.last)]
          /\ pr' = Rest(nx, pr.last - 1)
        BY <1>2, <1>3, <1>5 DEF PruneMove, NextToMove, At, Rest, Index
    <2> QED
        BY <1>2, <1>5, <2>1
<1> QED
    BY <1>4, <1>5

\* The part of PruneInv that speaks of a packing in progress.
Packing(seen, last) ==
    /\ seen \in SUBSET Nat /\ last \in Nat
    /\ seen # {} =>
          /\ last \in Positions /\ seen \subseteq head..last - 1
          /\ \A n \in head..last : At(n).valid /\ (n \notin seen => At(n).buf = None)

\* Packing goes on with what is left.
LEMMA RestPacks ==
    ASSUME NEW nx, NEW last, pr' = Rest(nx, last), NEW rest, rest = pr.seen \ {nx},
           Packing(rest, last)'
    PROVE  PruneInv'
<1>1. CASE rest = {}
    BY <1>1 DEF Rest, PruneInv, NoPrune
<1>2. CASE rest # {}
    <2>1. pr' = [seen |-> rest, last |-> last]
        BY <1>2 DEF Rest
    <2> QED
        BY <1>2, <2>1 DEF PruneInv, Packing
<1> QED
    BY <1>1, <1>2

\* ckpt_try_prune_dirty_page_queue keeps the ring and its order.
LEMMA PruneMoveRing ==
    ASSUME RingInv, OrderInv, PruneInv, PruneMove
    PROVE  RingInv' /\ OrderInv' /\ PruneInv' /\ panic' = panic
<1>1. PICK nx \in pr.seen :
              /\ \A n \in pr.seen : n <= nx
              /\ panic' = panic
              /\ \/ /\ At(nx).buf = None /\ UNCHANGED <<slot, loc>> /\ pr' = Rest(nx, pr.last)
                 \/ /\ At(nx).buf # None /\ HeaderFree(At(nx).buf)
                    /\ slot' = [slot EXCEPT ![Index(pr.last)].buf = At(nx).buf,
                                            ![Index(nx)].buf = None]
                    /\ loc' = [loc EXCEPT ![At(nx).buf] = Index(pr.last)]
                    /\ pr' = Rest(nx, pr.last - 1)
    BY PruneMoveIs
<1>2. UNCHANGED <<reclsn, head, tail, recLsn, pend>>
    BY DEF PruneMove
<1>3. PICK last \in Positions : last = pr.last
    BY <1>1 DEF PruneInv
<1>4. PICK rest \in SUBSET Nat : rest = pr.seen \ {nx}
    BY DEF PruneInv
<1>5. /\ pr.seen \subseteq head..last - 1 /\ head \in Nat /\ tail \in Nat /\ last \in Nat
      /\ \A n \in head..last : At(n).valid /\ (n \notin pr.seen => At(n).buf = None)
    BY <1>1, <1>3 DEF PruneInv, RingInv, RingTypes, Positions
<1>6. Positions' = Positions /\ head' = head
    BY <1>2 DEF Positions
<1>7. nx \in Positions /\ nx \in Nat /\ nx < last /\ nx \in head..tail /\ nx \in head..last
    BY <1>1, <1>3, <1>5 DEF Positions
<1>8. CASE At(nx).buf = None /\ UNCHANGED <<slot, loc>> /\ pr' = Rest(nx, pr.last)
    <2>1. \A n : At(n)' = At(n)
        BY <1>8 DEF At
    <2>2. \A p \in Pages : Pending(p)' = Pending(p) /\ Lsn(p)' = Lsn(p)
        BY <1>2 DEF Pending, Lsn
    <2>3. RingInv'
        <3>1. RingTypes'
            BY <1>2, <1>8 DEF RingInv, RingTypes
        <3>2. SlotInv'
            BY <1>6, <1>8, <2>1 DEF RingInv, SlotInv
        <3>3. \A p \in Pages : PageInv(p)'
            BY <1>2, <1>6, <1>8, <2>1, <2>2 DEF RingInv, PageInv
        <3> QED
            BY <1>2, <2>2, <3>1, <3>2, <3>3 DEF RingInv
    <2>4. OrderInv'
        BY <1>2, <1>6, <2>1, <2>2, OrderKeeps DEF In
    <2>5. Packing(rest, last)'
        BY <1>3, <1>4, <1>5, <1>6, <1>8, <2>1 DEF Packing
    <2> QED
        BY <1>1, <1>3, <1>4, <1>8, <2>3, <2>4, <2>5, RestPacks
<1>9. CASE /\ At(nx).buf # None
           /\ slot' = [slot EXCEPT ![Index(pr.last)].buf = At(nx).buf, ![Index(nx)].buf = None]
           /\ loc' = [loc EXCEPT ![At(nx).buf] = Index(pr.last)]
           /\ pr' = Rest(nx, pr.last - 1)
    <2>1. PICK p \in Pages : p = At(nx).buf
        <3>1. At(nx).buf \in Pages \cup {None}
            BY <1>7, IndexType DEF RingInv, RingTypes, At, Index
        <3> QED
            BY <1>9, <3>1
    <2>2. /\ slot' = [slot EXCEPT ![Index(last)].buf = p, ![Index(nx)].buf = None]
          /\ loc' = [loc EXCEPT ![p] = Index(last)]
        BY <1>3, <1>9, <2>1
    <2>3. \A n \in nx + 1..last : At(n).valid /\ At(n).buf = None
        BY <1>1, <1>5, <1>7
    <2>4. /\ RingInv' /\ OrderInv'
          /\ At(nx)' = [buf |-> None, valid |-> TRUE] /\ At(last)' = [buf |-> p, valid |-> TRUE]
          /\ \A n \in Positions \ {nx, last} : At(n)' = At(n)
        BY <1>2, <1>3, <1>7, <2>1, <2>2, <2>3, MoveRing
    <2>5. Packing(rest, last - 1)'
        <3>1. ASSUME rest # {} PROVE last - 1 \in Positions /\ rest \subseteq head..last - 2
            <4>1. \A n \in rest : n \in head..last - 1 /\ n < nx
                BY <1>1, <1>4, <1>5
            <4> QED
                BY <1>5, <1>7, <3>1, <4>1 DEF Positions
        <3>2. ASSUME NEW n \in head..last - 1
              PROVE  At(n)'.valid /\ (n \notin rest => At(n)'.buf = None)
            <4>1. n \in head..last /\ n \in Positions /\ n # last
                BY <1>3, <1>5 DEF Positions
            <4>2. CASE n = nx
                BY <2>4, <4>2
            <4>3. CASE n # nx
                BY <1>4, <1>5, <2>4, <4>1, <4>3
            <4> QED
                BY <4>2, <4>3
        <3>3. last - 1 \in Nat /\ (last - 1) - 1 = last - 2
            BY <1>5, <1>7
        <3> QED
            BY <1>6, <3>1, <3>2, <3>3 DEF Packing
    <2>6. pr' = Rest(nx, last - 1)
        BY <1>3, <1>9
    <2> QED
        BY <1>1, <1>4, <2>4, <2>5, <2>6, RestPacks
<1> QED
    BY <1>1, <1>8, <1>9

\* A step that leaves the queue alone, but may raise its recovery LSN.
QueueStays == UNCHANGED <<head, tail, slot, recLsn, loc, pend>> /\ reclsn' \in Nat /\ reclsn' >= reclsn

\* Such a step keeps the ring.
LEMMA StaysRing ==
    ASSUME RingInv, OrderInv, QueueStays
    PROVE  RingInv' /\ OrderInv' /\ Positions' = Positions
           /\ \A p \in Pages : /\ Pending(p)' = Pending(p) /\ Lsn(p)' = Lsn(p)
                               /\ \A n : In(p, n)' = In(p, n)
<1>1. Positions' = Positions /\ (\A n : At(n)' = At(n)) /\ reclsn \in Nat \ {0}
    BY DEF QueueStays, Positions, At, RingInv, RingTypes
<1>2. \A p \in Pages : Pending(p)' = Pending(p) /\ Lsn(p)' = Lsn(p)
    BY DEF QueueStays, Pending, Lsn
<1>3. RingTypes'
    BY DEF RingInv, RingTypes, QueueStays
<1>4. SlotInv'
    BY <1>1 DEF RingInv, SlotInv, QueueStays
<1>5. ASSUME NEW p \in Pages PROVE PageInv(p)'
    <2>1. PageInv(p) /\ recLsn[p] \in Nat /\ (Pending(p) => pend[p].lsn \in Nat)
        BY DEF RingInv, RingTypes
    <2> QED
        BY <1>1, <1>2, <2>1 DEF PageInv, QueueStays
<1>6. RingInv'
    BY <1>2, <1>3, <1>4, <1>5 DEF RingInv, QueueStays
<1>7. \A p \in Pages : \A n : In(p, n)' = In(p, n)
    BY <1>1, <1>2 DEF In, QueueStays
<1> QED
    BY <1>1, <1>2, <1>6, <1>7, OrderKeeps

\* ckpt_found_valid_and_invalid_buffer_loc.
LEMMA PruneFindRing ==
    ASSUME RingInv, OrderInv, PruneInv, PruneFind
    PROVE  RingInv' /\ OrderInv' /\ PruneInv'
<1>1. /\ head \in Nat /\ tail \in Nat /\ head <= tail
      /\ UNCHANGED <<reclsn, head, tail, slot, recLsn, loc, pend>>
    BY DEF RingInv, RingTypes, PruneFind, queueVars
<1>2. QueueStays /\ \A n : At(n)' = At(n)
    BY <1>1 DEF QueueStays, At, RingInv, RingTypes
<1>3. Emptied \in SUBSET (0..tail) /\ Emptied # {}
    BY <1>1 DEF Emptied, Window, PruneFind, CanPrune
<1>4. PICK last \in Emptied : last = Max(Emptied)
    BY <1>1, <1>3, MaxIs
<1>5. PICK seen \in SUBSET Nat : seen = {n \in Occupied : n < last}
    <2>1. \A n \in Occupied : n \in Nat
        BY <1>1 DEF Occupied, Window
    <2>2. {n \in Occupied : n < last} \in SUBSET Nat
        BY <2>1
    <2> QED
        BY <2>2
<1>6. pr' = IF seen = {} THEN NoPrune ELSE [seen |-> seen, last |-> last]
    BY <1>4, <1>5 DEF PruneFind
<1>7. last \in Positions /\ last \in Nat /\ seen \subseteq head..last - 1
    <2>1. last \in Positions /\ last \in Nat
        BY <1>1, <1>4 DEF Emptied, Window, Positions
    <2>2. \A n \in seen : n \in Nat /\ head <= n /\ n < last
        BY <1>1, <1>5 DEF Occupied, Window
    <2> QED
        BY <1>1, <2>1, <2>2
<1>8. ASSUME NEW n \in head..last PROVE At(n).valid /\ (n \notin seen => At(n).buf = None)
    <2>1. \A m \in head..last : At(m).valid
        BY <1>4 DEF Emptied, Window
    <2>2. n \in Window
        BY <1>1, <1>7, <2>1 DEF Window, Positions
    <2>3. n \notin seen /\ n # last => n \notin Occupied
        BY <1>1, <1>5, <1>7
    <2>4. last \notin Occupied
        BY <1>4 DEF Emptied
    <2> QED
        BY <2>1, <2>2, <2>3, <2>4 DEF Occupied
<1>9. PruneInv'
    <2>1. CASE seen = {}
        BY <1>6, <2>1 DEF PruneInv, NoPrune
    <2>2. CASE seen # {}
        <3>1. pr' = [seen |-> seen, last |-> last]
            BY <1>6, <2>2
        <3>2. Positions' = Positions
            BY <1>1 DEF Positions
        <3> QED
            BY <1>1, <1>2, <1>7, <1>8, <2>2, <3>1, <3>2 DEF PruneInv
    <2> QED
        BY <2>1, <2>2
<1> QED
    BY <1>2, <1>9, StaysRing

-----------------------------------------------------------------------------
(* The steps and the queue. *)

\* Nothing that HeaderInv says of page q changes.
HeaderSame(q) ==
    /\ lock'[q] = lock[q] /\ io'[q] = io[q] /\ pend'[q] = pend[q]
    /\ loc'[q] = -1 <=> loc[q] = -1
    /\ q \in dirty' <=> q \in dirty
    /\ pend[q].by \in Backends => pc'[pend[q].by] = pc[pend[q].by]

\* Then HeaderInv stays.
LEMMA HeaderKeeps ==
    ASSUME NEW q \in Pages, HeaderInv(q), HeaderSame(q)
    PROVE  HeaderInv(q)'
BY DEF HeaderInv, HeaderSame, Pending

\* A step that does not pack keeps PruneInv when it leaves the queue alone.
LEMMA StaysPrune ==
    ASSUME PruneInv, QueueStays, UNCHANGED pr
    PROVE  PruneInv'
<1>1. Positions' = Positions /\ (\A n : At(n)' = At(n)) /\ head' = head
    BY DEF QueueStays, Positions, At
<1> QED
    BY <1>1 DEF PruneInv

\* A step that leaves the queue, its users and packing alone.
LEMMA QueueQuiet ==
    ASSUME QueueInv, QueueStays, wal' \in Nat,
           UNCHANGED <<pr, dirty, just, lock, io, pc, want, start>>
    PROVE  QueueInv'
<1>1. \A p \in Pages : HeaderInv(p)'
    BY HeaderKeeps DEF QueueInv, UserInv, HeaderSame, QueueStays
<1>2. UserInv'
    BY <1>1 DEF QueueInv, UserInv, UserTypes, QueueStays
<1> QED
    BY <1>2, StaysRing, StaysPrune DEF QueueInv

\* The types that the steps need.
LEMMA QueueTypes ==
    ASSUME QueueInv
    PROVE  /\ wal \in Nat /\ reclsn \in Nat /\ start \in [Backends -> Nat]
           /\ loc \in [Pages -> -1..Size - 1] /\ recLsn \in [Pages -> Nat]
           /\ lock \in [Pages -> Backends \cup {None}]
           /\ io \in [Pages -> {"none", "io", "repush"}]
           /\ pc \in [Backends -> {"idle", "lock", "fill", "update"}]
           /\ want \in [Backends -> SUBSET Pages]
           /\ dirty \subseteq Pages /\ just \subseteq dirty
           /\ pend \in [Pages -> [by : Backends \cup {"none", "hint", "flush"}, at : Nat, lsn : Nat]]
BY DEF QueueInv, RingInv, RingTypes, UserInv, UserTypes

\* A page nobody has locked or works on, if it is dirty, is in the queue.
LEMMA DirtyIsIn ==
    ASSUME QueueInv, NEW p \in dirty, ~Pending(p), io[p] # "repush"
    PROVE  p \in Pages /\ loc[p] # -1 /\ recLsn[p] # 0
<1>1. p \in Pages
    BY QueueTypes
<1> QED
    BY <1>1 DEF QueueInv, UserInv, HeaderInv, RingInv, PageInv

\* Begin and LockBuffer take a content lock.
LEMMA QueueLock ==
    ASSUME QueueInv, NEW b \in Backends, NEW p \in Pages, Lockable(p), QueueStays,
           lock' = [lock EXCEPT ![p] = b], UNCHANGED <<wal, pr, dirty, just, io, start>>,
           pc' = pc \/ (pc[b] = "idle" /\ pc' = [pc EXCEPT ![b] = "lock"]),
           want' \in [Backends -> SUBSET Pages]
    PROVE  QueueInv'
<1>1. ASSUME NEW q \in Pages PROVE HeaderInv(q)'
    <2>1. HeaderInv(q) /\ pend'[q] = pend[q] /\ loc' = loc
        BY DEF QueueInv, UserInv, QueueStays
    <2>2. pend[q].by \in Backends => (pc'[pend[q].by] = pc[pend[q].by] /\ pend[q].by # b) \/ pc' = pc
        BY <2>1, QueueTypes DEF HeaderInv
    <2>3. CASE q # p
        BY <2>1, <2>2, <2>3, HeaderKeeps, QueueTypes DEF HeaderSame
    <2>4. CASE q = p
        <3>1. ~Pending(q) /\ io[q] = "none" /\ pend[q].by = "none" /\ lock'[q] = b
            BY <2>4, QueueTypes DEF Lockable, Pending, NoPend
        <3> QED
            BY <2>1, <3>1, Sizes DEF HeaderInv, Pending
    <2> QED
        BY <2>3, <2>4
<1>2. UserTypes'
    BY DEF QueueInv, UserInv, UserTypes
<1>3. UserInv'
    BY <1>1, <1>2 DEF QueueInv, UserInv, QueueStays
<1> QED
    BY <1>3, StaysRing, StaysPrune DEF QueueInv

\* Begin.
LEMMA QueueBegin ==
    ASSUME QueueInv, NEW b \in Backends, Begin(b)
    PROVE  QueueInv'
<1>1. PICK S \in (SUBSET Pages) \ {{}} :
          /\ Lockable(Min(S))
          /\ want' = [want EXCEPT ![b] = S]
          /\ lock' = [lock EXCEPT ![Min(S)] = b]
    BY DEF Begin
<1>2. Min(S) \in Pages
    <2>1. S \in SUBSET Nat /\ S # {} /\ S \subseteq Pages
        BY Sizes
    <2> QED
        BY <2>1, MinIs
<1>3. /\ QueueStays /\ UNCHANGED <<wal, pr, dirty, just, io, start>>
      /\ pc[b] = "idle" /\ pc' = [pc EXCEPT ![b] = "lock"]
    BY QueueTypes DEF Begin, QueueStays, Goto, queueVars, pageVars, writerVars
<1>4. want' \in [Backends -> SUBSET Pages]
    BY <1>1, QueueTypes
<1> QED
    BY <1>1, <1>2, <1>3, <1>4, QueueLock

\* LockBuffer.
LEMMA QueueLockBuffer ==
    ASSUME QueueInv, NEW b \in Backends, LockBuffer(b)
    PROVE  QueueInv'
<1>1. PICK p \in want[b] \ Locked(b) : Lockable(p) /\ lock' = [lock EXCEPT ![p] = b]
    BY DEF LockBuffer
<1>2. p \in Pages
    BY <1>1, QueueTypes
<1>3. /\ QueueStays /\ UNCHANGED <<wal, pr, dirty, just, io, start, want, pc>>
    BY QueueTypes DEF LockBuffer, QueueStays, queueVars, pageVars, writerVars, backVars
<1> QED
    BY <1>1, <1>2, <1>3, QueueLock, QueueTypes

\* The page MarkBufferDirty works on.
LEMMA Marked ==
    ASSUME QueueInv, NEW b \in Backends, MayMark(b)
    PROVE  LET p == Min(Unmarked(b))
           IN p \in Pages /\ lock[p] = b /\ ~Pending(p) /\ io[p] = "none"
<1>1. Unmarked(b) \subseteq want[b] /\ Unmarked(b) # {} /\ want[b] = Locked(b) /\ pc[b] = "lock"
    BY DEF MayMark, Unmarked
<1>2. Unmarked(b) \in SUBSET Nat
    BY <1>1, Sizes DEF Locked
<1>3. PICK p \in Unmarked(b) : p = Min(Unmarked(b))
    BY <1>1, <1>2, MinIs
<1>4. p \in Pages /\ lock[p] = b /\ b # None
    BY <1>1, <1>3, Sizes DEF Locked
<1>5. HeaderInv(p)
    BY <1>4 DEF QueueInv, UserInv
<1>6. ~Pending(p) /\ io[p] = "none"
    BY <1>1, <1>4, <1>5 DEF HeaderInv
<1> QED
    BY <1>3, <1>4, <1>6

\* MarkBufferDirty takes a slot.
LEMMA QueuePush ==
    ASSUME QueueInv, NEW b \in Backends, Push(b)
    PROVE  QueueInv'
<1>1. PICK p \in Pages : /\ p = Min(Unmarked(b)) /\ lock[p] = b /\ ~Pending(p) /\ io[p] = "none"
    BY Marked DEF Push
<1>2. /\ recLsn[p] = 0 /\ HasRoom /\ TakeSlot(p, b) /\ pc[b] = "lock"
      /\ pc' = [pc EXCEPT ![b] = "fill"]
      /\ UNCHANGED <<wal, pr, dirty, just, lock, io, want, start>>
    BY <1>1 DEF Push, MayMark, pageVars, lockVars, writerVars
<1>3. RingInv' /\ OrderInv' /\ PruneInv'
    BY <1>1, <1>2, TakeRing DEF QueueInv
<1>4. /\ pend'[p].by = b /\ (\A q \in Pages \ {p} : pend'[q] = pend[q]) /\ loc' = loc
      /\ loc[p] = -1
    BY <1>2, QueueTypes DEF TakeSlot, QueueInv, RingInv, PageInv
<1>5. \A q \in Pages : pend[q].by # b
    BY <1>2 DEF QueueInv, UserInv, HeaderInv
<1>6. ASSUME NEW q \in Pages PROVE HeaderInv(q)'
    <2>1. HeaderInv(q)
        BY DEF QueueInv, UserInv
    <2>2. CASE q # p
        BY <1>2, <1>4, <1>5, <2>1, <2>2, HeaderKeeps, QueueTypes DEF HeaderSame
    <2>3. CASE q = p
        BY <1>1, <1>2, <1>4, <2>1, <2>3, QueueTypes, Sizes DEF HeaderInv, Pending, NoPend
    <2> QED
        BY <2>2, <2>3
<1>7. UserTypes'
    BY <1>2 DEF QueueInv, UserInv, UserTypes
<1>8. UserInv'
    BY <1>4, <1>5, <1>6, <1>7 DEF QueueInv, UserInv
<1> QED
    BY <1>3, <1>8 DEF QueueInv

\* A slot is filled: the page is in the queue and dirty.
LEMMA QueueFill ==
    ASSUME QueueInv, NEW p \in Pages, Pending(p), Fill(p), NEW by, by = pend[p].by,
           UNCHANGED <<wal, pr, lock, want, start>>,
           dirty' = dirty \cup {p}, just' = just \/ just' = just \cup {p},
           io' = [io EXCEPT ![p] = "none"],
           by \in Backends => pc' = [pc EXCEPT ![by] = "lock"],
           by \notin Backends => pc' = pc
    PROVE  QueueInv'
<1>1. RingInv' /\ OrderInv' /\ PruneInv'
    BY FillRing DEF QueueInv
<1>2. /\ pend'[p] = NoPend /\ (\A q \in Pages \ {p} : pend'[q] = pend[q])
      /\ \A q \in Pages \ {p} : loc'[q] = loc[q]
    BY QueueTypes DEF Fill
<1>3. loc'[p] # -1
    <2>1. PageInv(p) /\ pend[p].at \in Nat
        BY QueueTypes DEF QueueInv, RingInv
    <2>2. pend[p].at % Size \in 0..Size - 1
        BY <2>1, IndexOf
    <2> QED
        BY <2>2, QueueTypes DEF Fill
<1>4. ASSUME NEW q \in Pages PROVE HeaderInv(q)'
    <2>1. HeaderInv(q) /\ HeaderInv(p)
        BY DEF QueueInv, UserInv
    <2>2. CASE q # p
        <3>1. pend[q].by \in Backends => pend[q].by # by
            BY <2>2 DEF QueueInv, UserInv
        <3>2. pend[q].by \in Backends => pc'[pend[q].by] = pc[pend[q].by]
            BY <3>1, QueueTypes
        <3> QED
            BY <1>2, <2>1, <2>2, <3>2, HeaderKeeps, QueueTypes DEF HeaderSame
    <2>3. CASE q = p
        <3>1. io'[p] = "none" /\ ~Pending(p)' /\ pend'[p].by = "none" /\ p \in dirty'
            BY <1>2, QueueTypes DEF Pending, NoPend
        <3> QED
            BY <1>3, <2>3, <3>1, Sizes DEF HeaderInv
    <2> QED
        BY <2>2, <2>3
<1>5. UserTypes'
    <2>1. pc' \in [Backends -> {"idle", "lock", "fill", "update"}]
        BY QueueTypes
    <2> QED
        BY <2>1 DEF QueueInv, UserInv, UserTypes
<1>6. UserInv'
    <2>1. \A q \in Pages : pend'[q].by \in Backends => q # p
        BY <1>2, Sizes DEF NoPend
    <2> QED
        BY <1>2, <1>4, <1>5, <2>1 DEF QueueInv, UserInv
<1> QED
    BY <1>1, <1>6 DEF QueueInv

\* MarkBufferDirty fills its slot.
LEMMA QueueFillPushed ==
    ASSUME QueueInv, NEW b \in Backends, FillPushed(b)
    PROVE  QueueInv'
<1>1. PICK p \in Pages : /\ pend[p].by = b /\ Fill(p)
                         /\ dirty' = dirty \cup {p} /\ just' = just \cup {p}
    BY DEF FillPushed
<1>2. /\ UNCHANGED <<wal, pr, lock, io, want, start>> /\ pc' = [pc EXCEPT ![b] = "lock"]
    BY DEF FillPushed, Goto, lockVars, writerVars
<1>3. Pending(p) /\ io[p] = "none"
    BY <1>1, Sizes DEF Pending, NoPend, QueueInv, UserInv, HeaderInv
<1>4. io' = [io EXCEPT ![p] = "none"]
    BY <1>2, <1>3, QueueTypes
<1> QED
    BY <1>1, <1>2, <1>3, <1>4, QueueFill

\* MarkBufferDirtyHint fills its slot.
LEMMA QueueFillHint ==
    ASSUME QueueInv, NEW p \in Pages, FillHint(p)
    PROVE  QueueInv'
<1>1. /\ pend[p].by = "hint" /\ Fill(p) /\ dirty' = dirty \cup {p} /\ just' = just \cup {p}
      /\ UNCHANGED <<wal, pr, lock, io, want, start, pc>>
    BY DEF FillHint, lockVars, writerVars, backVars
<1>2. Pending(p) /\ "hint" \notin Backends
    BY <1>1, Sizes DEF Pending, NoPend
<1>3. io[p] = "none"
    <2>1. HeaderInv(p) /\ PageInv(p) /\ io[p] \in {"none", "io", "repush"}
        BY QueueTypes DEF QueueInv, UserInv, RingInv
    <2> QED
        BY <1>1, <1>2, <2>1 DEF HeaderInv, PageInv
<1>4. io' = [io EXCEPT ![p] = "none"]
    BY <1>1, <1>3, QueueTypes
<1> QED
    BY <1>1, <1>2, <1>4, QueueFill

\* TerminateBufferIO_common fills the slot of a page it puts back.
LEMMA QueueFillRepushed ==
    ASSUME QueueInv, NEW p \in Pages, FillRepushed(p)
    PROVE  QueueInv'
<1>1. /\ pend[p].by = "flush" /\ Fill(p) /\ io' = [io EXCEPT ![p] = "none"]
      /\ UNCHANGED <<wal, pr, lock, dirty, just, want, start, pc>>
    BY DEF FillRepushed, pageVars, writerVars, backVars
<1>2. Pending(p) /\ "flush" \notin Backends
    BY <1>1, Sizes DEF Pending, NoPend
<1>3. p \in dirty
    BY <1>1 DEF QueueInv, UserInv, HeaderInv
<1>4. dirty' = dirty \cup {p}
    BY <1>1, <1>3
<1> QED
    BY <1>1, <1>2, <1>4, QueueFill

\* XLogInsert.
LEMMA QueueXLogInsert ==
    ASSUME QueueInv, NEW b \in Backends, XLogInsert(b)
    PROVE  QueueInv'
<1>1. /\ QueueStays /\ UNCHANGED <<pr, dirty, just, lock, io, want>>
      /\ wal' = wal + 1 /\ start' = [start EXCEPT ![b] = wal + 1]
      /\ pc[b] = "lock" /\ pc' = [pc EXCEPT ![b] = "update"]
    BY QueueTypes DEF XLogInsert, Goto, QueueStays, queueVars, lockVars, writerVars
<1>2. ASSUME NEW q \in Pages PROVE HeaderInv(q)'
    <2>1. HeaderInv(q) /\ UNCHANGED <<pend, loc>>
        BY <1>1 DEF QueueInv, UserInv, QueueStays
    <2>2. pend[q].by # b
        BY <1>1, <2>1 DEF HeaderInv
    <2> QED
        BY <1>1, <2>1, <2>2, HeaderKeeps, QueueTypes DEF HeaderSame
<1>3. UserTypes'
    BY <1>1, QueueTypes DEF UserTypes
<1>4. UserInv'
    BY <1>1, <1>2, <1>3 DEF QueueInv, UserInv, QueueStays
<1> QED
    BY <1>1, <1>4, StaysRing, StaysPrune DEF QueueInv

\* The end of XLogInsert.
LEMMA QueueUpdateRecLsn ==
    ASSUME QueueInv, NEW b \in Backends, UpdateRecLsn(b)
    PROVE  QueueInv'
<1>1. /\ UNCHANGED <<wal, pr, dirty, just, io, head, tail, slot, recLsn, loc, pend>>
      /\ pc[b] = "update" /\ pc' = [pc EXCEPT ![b] = "idle"]
      /\ want' = [want EXCEPT ![b] = {}] /\ start' = [start EXCEPT ![b] = 0]
      /\ lock' = [p \in Pages |-> IF lock[p] = b THEN None ELSE lock[p]]
    BY DEF UpdateRecLsn, Goto, pageVars, writerVars
<1>2. QueueStays
    BY <1>1, QueueTypes DEF UpdateRecLsn, RaiseRecLsn, QueueStays
<1>3. ASSUME NEW q \in Pages PROVE HeaderInv(q)'
    <2>1. HeaderInv(q)
        BY DEF QueueInv, UserInv
    <2>2. pend[q].by # b
        BY <1>1, <2>1 DEF HeaderInv
    <2>3. CASE lock[q] # b
        BY <1>1, <2>1, <2>2, <2>3, HeaderKeeps, QueueTypes DEF HeaderSame
    <2>4. CASE lock[q] = b
        <3>1. lock'[q] = None /\ pend[q].by \notin Backends
            BY <1>1, <2>1, <2>2, <2>4 DEF HeaderInv
        <3> QED
            BY <1>1, <2>1, <3>1 DEF HeaderInv, Pending
    <2> QED
        BY <2>3, <2>4
<1>4. UserTypes'
    BY <1>1, QueueTypes DEF UserTypes
<1>5. UserInv'
    BY <1>1, <1>3, <1>4 DEF QueueInv, UserInv
<1> QED
    BY <1>1, <1>2, <1>5, StaysRing, StaysPrune DEF QueueInv

\* MarkBufferDirtyHint.
LEMMA QueueHint ==
    ASSUME QueueInv, NEW p \in Pages, MarkBufferDirtyHint(p)
    PROVE  QueueInv'
<1>1. /\ lock[p] = None /\ ~Pending(p) /\ io[p] # "repush"
      /\ UNCHANGED <<wal, pr, lock, io, want, start, pc>>
    BY DEF MarkBufferDirtyHint, HeaderFree, Pending, lockVars, writerVars
<1>2. HeaderInv(p) /\ PageInv(p)
    BY DEF QueueInv, UserInv, RingInv
<1>3. CASE recLsn[p] # 0
    <2>1. /\ QueueStays /\ dirty' = dirty \cup {p} /\ just' = just \cup {p}
          /\ loc[p] # -1 /\ pend' = pend /\ loc' = loc
        BY <1>2, <1>3, QueueTypes DEF MarkBufferDirtyHint, QueueStays, queueVars, PageInv
    <2>2. p \in dirty
        BY <1>2, <2>1 DEF HeaderInv
    <2>3. dirty' = dirty
        BY <2>1, <2>2
    <2>4. ASSUME NEW q \in Pages PROVE HeaderInv(q)'
        BY <1>1, <2>1, <2>3, HeaderKeeps DEF HeaderSame, QueueInv, UserInv
    <2>5. UserTypes'
        BY <1>1, <2>1, QueueTypes DEF UserTypes
    <2>6. UserInv'
        BY <2>1, <2>4, <2>5 DEF QueueInv, UserInv
    <2> QED
        BY <1>1, <2>1, <2>6, StaysRing, StaysPrune DEF QueueInv
<1>4. CASE recLsn[p] = 0
    <2>1. HasRoom /\ TakeSlot(p, "hint") /\ UNCHANGED <<dirty, just>>
        BY <1>4 DEF MarkBufferDirtyHint
    <2>2. RingInv' /\ OrderInv' /\ PruneInv'
        BY <1>1, <1>4, <2>1, TakeRing DEF QueueInv
    <2>3. /\ pend'[p].by = "hint" /\ (\A q \in Pages \ {p} : pend'[q] = pend[q])
          /\ loc' = loc /\ loc[p] = -1
        BY <1>2, <1>4, <2>1, QueueTypes DEF TakeSlot, PageInv
    <2>4. ASSUME NEW q \in Pages PROVE HeaderInv(q)'
        <3>1. HeaderInv(q)
            BY DEF QueueInv, UserInv
        <3>2. CASE q # p
            BY <1>1, <2>1, <2>3, <3>1, <3>2, HeaderKeeps DEF HeaderSame
        <3>3. CASE q = p
            BY <1>1, <2>1, <2>3, <3>1, <3>3, Sizes DEF HeaderInv, Pending, NoPend
        <3> QED
            BY <3>2, <3>3
    <2>5. UserTypes'
        BY <1>1, <2>1 DEF QueueInv, UserInv, UserTypes
    <2>6. UserInv'
        BY <2>3, <2>4, <2>5, Sizes DEF QueueInv, UserInv
    <2> QED
        BY <2>2, <2>6 DEF QueueInv
<1> QED
    BY <1>3, <1>4

\* InvalidateBuffer, and TerminateBufferIO_common, take a page out of the queue.
LEMMA QueueRemove ==
    ASSUME QueueInv, NEW p \in Pages, loc[p] # -1, RemoveDirtyPageFromQueue(p),
           UNCHANGED <<wal, pr, lock, want, start, pc>>, just' \subseteq dirty',
           \/ dirty' = dirty \ {p} /\ io' = [io EXCEPT ![p] = "none"]
           \/ lock[p] = None /\ dirty' = dirty /\ io' = [io EXCEPT ![p] = "repush"]
    PROVE  QueueInv'
<1>1. RingInv' /\ OrderInv' /\ PruneInv'
    BY RemoveRing DEF QueueInv
<1>2. pend' = pend /\ loc'[p] = -1 /\ \A q \in Pages \ {p} : loc'[q] = loc[q]
    BY QueueTypes DEF RemoveDirtyPageFromQueue
<1>3. ~Pending(p)
    BY DEF QueueInv, RingInv, PageInv
<1>4. ASSUME NEW q \in Pages PROVE HeaderInv(q)'
    <2>1. HeaderInv(q)
        BY DEF QueueInv, UserInv
    <2>2. CASE q # p
        BY <1>2, <2>1, <2>2, HeaderKeeps, QueueTypes DEF HeaderSame
    <2>3. CASE q = p
        <3>1. pend[p].by = "none" /\ ~Pending(p)'
            BY <1>2, <1>3 DEF Pending, NoPend
        <3>2. p \in dirty
            BY <2>1, <2>3 DEF HeaderInv
        <3> QED
            BY <1>2, <2>1, <2>3, <3>1, <3>2, QueueTypes, Sizes DEF HeaderInv
    <2> QED
        BY <2>2, <2>3
<1>5. UserTypes'
    BY QueueTypes DEF UserTypes
<1>6. UserInv'
    BY <1>2, <1>4, <1>5 DEF QueueInv, UserInv
<1> QED
    BY <1>1, <1>6 DEF QueueInv

\* InvalidateBuffer.
LEMMA QueueInvalidate ==
    ASSUME QueueInv, NEW p \in Pages, InvalidateBuffer(p)
    PROVE  QueueInv'
<1>1. /\ p \in dirty /\ ~Pending(p) /\ io[p] = "none" /\ RemoveDirtyPageFromQueue(p)
      /\ dirty' = dirty \ {p} /\ just' = just \ {p}
      /\ UNCHANGED <<wal, pr, lock, io, want, start, pc>>
    BY DEF InvalidateBuffer, Lockable, Pending, lockVars, writerVars
<1>2. loc[p] # -1
    BY <1>1, DirtyIsIn
<1>3. io' = [io EXCEPT ![p] = "none"] /\ just' \subseteq dirty'
    BY <1>1, QueueTypes
<1> QED
    BY <1>1, <1>2, <1>3, QueueRemove

\* SyncFlushOneBuffer.
LEMMA QueueFlushStart ==
    ASSUME QueueInv, NEW p \in Pages, FlushStart(p)
    PROVE  QueueInv'
<1>1. /\ p \in dirty /\ ~Pending(p) /\ io[p] = "none" /\ lock[p] = None /\ QueueStays
      /\ io' = [io EXCEPT ![p] = "io"] /\ just' = just \ {p}
      /\ UNCHANGED <<wal, pr, dirty, lock, want, start, pc, pend, loc>>
    BY QueueTypes DEF FlushStart, Lockable, Pending, writerVars, backVars, queueVars, QueueStays
<1>2. loc[p] # -1
    BY <1>1, DirtyIsIn
<1>3. ASSUME NEW q \in Pages PROVE HeaderInv(q)'
    <2>1. HeaderInv(q)
        BY DEF QueueInv, UserInv
    <2>2. CASE q # p
        BY <1>1, <2>1, <2>2, HeaderKeeps, QueueTypes DEF HeaderSame
    <2>3. CASE q = p
        <3>1. pend[p].by = "none" /\ ~Pending(p)' /\ io'[p] = "io"
            BY <1>1, QueueTypes DEF Pending, NoPend
        <3> QED
            BY <1>1, <1>2, <2>1, <2>3, <3>1, Sizes DEF HeaderInv
    <2> QED
        BY <2>2, <2>3
<1>4. UserTypes'
    BY <1>1, QueueTypes DEF UserTypes
<1>5. UserInv'
    BY <1>1, <1>3, <1>4 DEF QueueInv, UserInv
<1> QED
    BY <1>1, <1>5, StaysRing, StaysPrune DEF QueueInv

\* TerminateBufferIO_common.
LEMMA QueueFlushEnd ==
    ASSUME QueueInv, NEW p \in Pages, FlushEnd(p)
    PROVE  QueueInv'
<1>1. /\ io[p] = "io" /\ RemoveDirtyPageFromQueue(p)
      /\ UNCHANGED <<wal, pr, just, lock, want, start, pc>>
    BY DEF FlushEnd, writerVars, backVars
<1>2. loc[p] # -1 /\ lock[p] = None
    BY <1>1 DEF QueueInv, UserInv, HeaderInv
<1>3. /\ just' \subseteq dirty'
      /\ \/ dirty' = dirty \ {p} /\ io' = [io EXCEPT ![p] = "none"]
         \/ dirty' = dirty /\ io' = [io EXCEPT ![p] = "repush"]
    BY <1>1, QueueTypes DEF FlushEnd, Redirtied
<1> QED
    BY <1>1, <1>2, <1>3, QueueRemove

\* TerminateBufferIO_common takes a slot for the page it puts back, or there is none.
LEMMA QueueRepush ==
    ASSUME QueueInv, NEW p \in Pages, Repush(p)
    PROVE  QueueInv'
<1>1. /\ io[p] = "repush" /\ ~Pending(p)
      /\ UNCHANGED <<wal, pr, dirty, just, lock, io, want, start, pc>>
    BY DEF Repush, Pending, pageVars, lockVars, writerVars, backVars
<1>2. CASE HasRoom
    <2>1. TakeSlot(p, "flush")
        BY <1>2 DEF Repush
    <2>2. loc[p] = -1 /\ recLsn[p] = 0
        BY <1>1 DEF QueueInv, UserInv, HeaderInv, RingInv, PageInv
    <2>3. RingInv' /\ OrderInv' /\ PruneInv'
        BY <1>1, <1>2, <2>1, <2>2, TakeRing DEF QueueInv
    <2>4. /\ pend'[p].by = "flush" /\ (\A q \in Pages \ {p} : pend'[q] = pend[q]) /\ loc' = loc
        BY <2>1, QueueTypes DEF TakeSlot
    <2>5. ASSUME NEW q \in Pages PROVE HeaderInv(q)'
        <3>1. HeaderInv(q)
            BY DEF QueueInv, UserInv
        <3>2. CASE q # p
            BY <1>1, <2>4, <3>1, <3>2, HeaderKeeps DEF HeaderSame
        <3>3. CASE q = p
            BY <1>1, <2>4, <3>1, <3>3, Sizes DEF HeaderInv, Pending, NoPend
        <3> QED
            BY <3>2, <3>3
    <2>6. UserTypes'
        BY <1>1 DEF QueueInv, UserInv, UserTypes
    <2>7. UserInv'
        BY <2>4, <2>5, <2>6, Sizes DEF QueueInv, UserInv
    <2> QED
        BY <2>3, <2>7 DEF QueueInv
<1>3. CASE ~HasRoom
    <2>1. QueueStays
        BY <1>3, QueueTypes DEF Repush, queueVars, QueueStays
    <2> QED
        BY <1>1, <2>1, QueueQuiet, QueueTypes
<1> QED
    BY <1>2, <1>3

\* MoveHead, PruneFind and PruneMove leave the users of the queue alone.
LEMMA QueuePacks ==
    ASSUME QueueInv, MoveHead \/ PruneFind \/ PruneMove
    PROVE  QueueInv'
<1>1. RingInv' /\ OrderInv' /\ PruneInv'
    BY MoveHeadRing, PruneFindRing, PruneMoveRing DEF QueueInv
<1>2. UNCHANGED <<wal, dirty, just, lock, io, want, start, pc, pend>>
    BY DEF MoveHead, PruneFind, PruneMove, pageVars, lockVars, backVars, queueVars
<1>3. ASSUME NEW q \in Pages PROVE loc'[q] = -1 <=> loc[q] = -1
    <2>1. CASE MoveHead \/ PruneFind
        BY <2>1 DEF MoveHead, PruneFind, queueVars
    <2>2. CASE PruneMove
        <3>1. PICK nx \in pr.seen : loc' = loc \/ (/\ At(nx).buf # None
                                                  /\ loc' = [loc EXCEPT ![At(nx).buf] = Index(pr.last)])
            BY <2>2, PruneMoveIs DEF QueueInv
        <3>2. nx \in Positions /\ pr.last \in head..tail
            BY DEF QueueInv, PruneInv, Positions, RingInv, RingTypes
        <3>3. nx \in head..tail
            BY <3>2 DEF QueueInv, RingInv, RingTypes, Positions
        <3>4. Index(nx) # -1 /\ Index(pr.last) # -1
            BY <3>2, <3>3, IndexType DEF QueueInv, RingInv
        <3>5. At(nx).buf # None => loc[At(nx).buf] # -1
            BY <3>2, <3>4 DEF QueueInv, RingInv, SlotInv
        <3> QED
            BY <3>1, <3>4, <3>5, QueueTypes
    <2> QED
        BY <2>1, <2>2
<1>4. \A q \in Pages : HeaderInv(q)'
    BY <1>2, <1>3, HeaderKeeps DEF HeaderSame, QueueInv, UserInv
<1>5. UserInv'
    BY <1>2, <1>4 DEF QueueInv, UserInv, UserTypes
<1> QED
    BY <1>1, <1>5 DEF QueueInv

\* The initial queue is empty.
LEMMA QueueInit == Init => QueueInv
<1> SUFFICES ASSUME Init PROVE QueueInv
    OBVIOUS
<1>1. Positions = {}
    BY DEF Init, Positions
<1>2. \A p \in Pages : ~Pending(p) /\ pend[p] = NoPend /\ loc[p] = -1 /\ recLsn[p] = 0
    BY DEF Init, Pending
<1>3. RingTypes
    BY Sizes DEF Init, RingTypes, Empty, NoPend
<1>4. SlotInv
    BY <1>1 DEF Init, SlotInv
<1>5. \A p \in Pages : PageInv(p)
    BY <1>2, <1>3 DEF PageInv, RingTypes
<1>6. RingInv
    BY <1>2, <1>3, <1>4, <1>5 DEF RingInv
<1>7. OrderInv
    BY <1>1 DEF OrderInv
<1>8. PruneInv
    BY DEF Init, PruneInv, NoPrune
<1>9. UserTypes
    BY DEF Init, UserTypes
<1>10. \A p \in Pages : HeaderInv(p)
    BY <1>2, Sizes DEF Init, HeaderInv, NoPend
<1>11. UserInv
    BY <1>2, <1>9, <1>10, Sizes DEF UserInv, NoPend
<1> QED
    BY <1>6, <1>7, <1>8, <1>11 DEF QueueInv

\* CreateCheckPoint leaves the queue alone, but for its recovery LSN.
LEMMA QueueCkpt ==
    ASSUME QueueInv, Checkpointer \/ \E k \in Kinds : Start(k)
    PROVE  QueueInv'
<1>1. UNCHANGED <<wal, pr, dirty, just, lock, io, pc, want, start>>
    BY DEF Checkpointer, ReadTail, WriteExpected, EndWait, ReadQueueRecLsn, ScanSlot, ScanRecLsn,
           ScanAgain, SetRedo, Start, pageVars, lockVars, backVars, writerVars
<1>2. QueueStays
    <2>1. CASE Checkpointer
        BY <2>1, QueueTypes
           DEF Checkpointer, ReadTail, WriteExpected, EndWait, ReadQueueRecLsn, ScanSlot,
               ScanRecLsn, ScanAgain, SetRedo, queueVars, QueueStays
    <2>2. ASSUME NEW k \in Kinds, Start(k) PROVE QueueStays
        BY <2>2, QueueTypes DEF Start, RaiseRecLsn, QueueStays
    <2> QED
        BY <2>1, <2>2
<1> QED
    BY <1>1, <1>2, QueueQuiet, QueueTypes

\* Steps of a backend or the page writer that only move on.
LEMMA QueueMovesOn ==
    ASSUME QueueInv, Select \/ EndFlush \/ (\E b \in Backends : UpdateWaitLockid(b)) \/ UNCHANGED vars
    PROVE  QueueInv'
<1>1. /\ UNCHANGED <<wal, pr, dirty, just, lock, io, pc, want, start>>
      /\ UNCHANGED queueVars
    BY DEF Select, EndFlush, UpdateWaitLockid, vars, pageVars, lockVars, backVars, writerVars
<1>2. QueueStays
    BY <1>1, QueueTypes DEF queueVars, QueueStays
<1> QED
    BY <1>1, <1>2, QueueQuiet, QueueTypes

\* Every step keeps the invariant.
LEMMA QueueStep == QueueInv /\ [Next]_vars => QueueInv'
<1> SUFFICES ASSUME QueueInv, [Next]_vars PROVE QueueInv'
    OBVIOUS
<1>1. CASE UNCHANGED vars
    BY <1>1, QueueMovesOn
<1>2. ASSUME NEW b \in Backends, Begin(b) \/ Backend(b) PROVE QueueInv'
    BY <1>2, QueueBegin, QueueLockBuffer, QueueMovesOn, QueuePush, QueueFillPushed,
       QueueXLogInsert, QueueUpdateRecLsn DEF Backend
<1>3. ASSUME NEW p \in Pages,
             MarkBufferDirtyHint(p) \/ FillHint(p) \/ InvalidateBuffer(p) \/ Thread(p)
      PROVE  QueueInv'
    BY <1>3, QueueHint, QueueFillHint, QueueInvalidate, QueueFlushStart, QueueFlushEnd,
       QueueRepush, QueueFillRepushed DEF Thread
<1>4. CASE PageWriter
    BY <1>4, QueuePacks, QueueMovesOn DEF PageWriter
<1>5. CASE Checkpointer \/ \E k \in Kinds : Start(k)
    BY <1>5, QueueCkpt
<1> QED
    BY <1>1, <1>2, <1>3, <1>4, <1>5 DEF Next

\* The invariant holds throughout.
LEMMA QueueInvariant == Spec => []QueueInv
BY QueueInit, QueueStep, PTL DEF Spec

\* push_pending_flush_queue, ckpt_try_prune_dirty_page_queue: the recovery LSNs of the queue
\* rise from the head to the tail, whoever takes and fills slots, and while pages are moved.
THEOREM QueueIsOrdered == Spec => []QueueOrdered
<1>1. ASSUME QueueInv PROVE QueueOrdered
    <2>1. ASSUME NEW m \in Positions, NEW n \in Positions, m < n, At(m).buf # None, At(n).buf # None
          PROVE  recLsn[At(m).buf] <= recLsn[At(n).buf]
        <3>1. \A x \in Positions : x \in head..tail
            BY <1>1 DEF Positions, QueueInv, RingInv, RingTypes
        <3>2. \A x \in Positions : At(x).buf \in Pages \cup {None}
            BY <1>1, <3>1, IndexType DEF QueueInv, RingInv, RingTypes, At, Index
        <3>3. \A x \in Positions : At(x).buf # None => At(x).valid
            BY <1>1 DEF QueueInv, RingInv, SlotInv
        <3>4. PICK p \in Pages : p = At(m).buf
            BY <2>1, <3>2
        <3>5. PICK q \in Pages : q = At(n).buf
            BY <2>1, <3>2
        <3>6. In(p, m) /\ In(q, n)
            BY <3>4, <3>5 DEF In
        <3>7. ~Pending(p) /\ ~Pending(q)
            BY <1>1, <2>1, <3>3, <3>6, InQueue DEF QueueInv
        <3> QED
            BY <1>1, <2>1, <3>4, <3>5, <3>6, <3>7 DEF QueueInv, OrderInv, Lsn
    <2> QED
        BY <2>1 DEF QueueOrdered, Positions
<1> QED
    BY <1>1, QueueInvariant, PTL

\* MarkBufferDirty, TerminateBufferIO_common, InvalidateBuffer: a dirty buffer nobody works on
\* is in the slot it names, so the PANIC of remove_dirty_page_from_queue is never reached.
THEOREM DirtyIsQueued == Spec => []DirtyQueued
<1>1. ASSUME QueueInv PROVE DirtyQueued
    <2>1. ASSUME NEW p \in dirty, HeaderFree(p)
          PROVE  /\ recLsn[p] # 0
                 /\ \E n \in head..tail - 1 :
                        n % Size = loc[p] /\ At(n) = [buf |-> p, valid |-> TRUE]
        <3>1. p \in Pages /\ loc[p] # -1 /\ recLsn[p] # 0
            BY <1>1, <2>1, DirtyIsIn DEF HeaderFree, Pending
        <3>2. PICK n \in Positions : loc[p] = Index(n) /\ At(n) = [buf |-> p, valid |-> TRUE]
            BY <1>1, <3>1 DEF QueueInv, RingInv, PageInv
        <3>3. n \in head..tail - 1 /\ n % Size = loc[p]
            BY <3>2 DEF Positions, Index
        <3> QED
            BY <3>1, <3>2, <3>3
    <2> QED
        BY <2>1 DEF DirtyQueued
<1> QED
    BY <1>1, QueueInvariant, PTL

-----------------------------------------------------------------------------
(* What a step may do to the queue. *)

\* The queue grows at its tail and shrinks at its head.  A page keeps its recovery LSN, loses it,
\* or gets the one of the queue.  A filled slot stays filled; it gets another page only from a
\* slot before it, and the page that stays in it keeps its recovery LSN.
Carries ==
    /\ head <= head' /\ tail <= tail' /\ reclsn' \in Nat /\ reclsn <= reclsn'
    /\ \A q \in Pages : Lsn(q)' \in {0, Lsn(q), reclsn}
    /\ \A n \in head'..tail - 1 : At(n).valid =>
          /\ At(n)'.valid
          /\ At(n)'.buf \in {At(n).buf, None} \/ \E m \in head..n - 1 : At(m).buf # None
          /\ At(n).buf # None /\ At(n)'.buf = At(n).buf => recLsn'[At(n).buf] = recLsn[At(n).buf]

\* No page moves: it is where it was, or it is new and has the recovery LSN of the queue.
Appends ==
    \A q \in Pages : \A n \in Positions' :
        In(q, n)' => Lsn(q)' = reclsn \/ (n \in Positions /\ In(q, n) /\ Lsn(q)' = Lsn(q))

\* A step that leaves the queue alone.
LEMMA StaysCarries == ASSUME QueueInv, QueueStays PROVE Carries /\ Appends
<1>1. RingInv /\ OrderInv /\ head \in Nat /\ tail \in Nat
    BY DEF QueueInv, RingInv, RingTypes
<1>2. /\ Positions' = Positions
      /\ \A p \in Pages : Lsn(p)' = Lsn(p) /\ \A n : In(p, n)' = In(p, n)
    BY <1>1, StaysRing
<1>3. (\A n : At(n)' = At(n)) /\ recLsn' = recLsn /\ head' = head /\ tail' = tail
    BY DEF QueueStays, At
<1>4. Carries
    BY <1>1, <1>2, <1>3 DEF Carries, QueueStays
<1> QED
    BY <1>2, <1>4 DEF Appends

\* atomic_push_pending_flush_queue.
LEMMA TakeCarries ==
    ASSUME QueueInv, NEW p \in Pages, NEW by, TakeSlot(p, by), by # "none"
    PROVE  Carries /\ Appends
<1>1. /\ head' = head /\ tail' = tail + 1 /\ slot' = slot /\ recLsn' = recLsn /\ reclsn' = reclsn
      /\ pend' = [pend EXCEPT ![p] = [by |-> by, at |-> tail, lsn |-> reclsn]]
    BY DEF TakeSlot
<1>2. RingInv /\ head \in Nat /\ tail \in Nat /\ reclsn \in Nat
    BY DEF QueueInv, RingInv, RingTypes
<1>3. \A n : At(n)' = At(n)
    BY <1>1 DEF At
<1>4. /\ pend'[p] = [by |-> by, at |-> tail, lsn |-> reclsn]
      /\ \A q \in Pages \ {p} : pend'[q] = pend[q]
    BY <1>1, QueueTypes
<1>5. Lsn(p)' = reclsn /\ \A q \in Pages \ {p} : Lsn(q)' = Lsn(q)
    BY <1>1, <1>4 DEF Lsn, Pending, NoPend
<1>6. Carries
    BY <1>1, <1>2, <1>3, <1>5 DEF Carries
<1>7. ASSUME NEW q \in Pages \ {p}, NEW n \in Positions', In(q, n)'
      PROVE  n \in Positions /\ In(q, n)
    <2>1. In(q, n)
        BY <1>3, <1>4, <1>7 DEF In, Pending
    <2>2. n # tail
        <3>1. At(tail).buf # q
            BY <1>2, TailIsEmpty, Sizes DEF Empty
        <3>2. Pending(q) => pend[q].at \in Positions
            BY <1>2 DEF RingInv, PageInv
        <3> QED
            BY <1>2, <2>1, <3>1, <3>2 DEF In, Positions
    <2> QED
        BY <1>1, <1>2, <1>7, <2>1, <2>2 DEF Positions
<1> QED
    BY <1>5, <1>6, <1>7 DEF Appends

\* The rest of push_pending_flush_queue.
LEMMA FillCarries ==
    ASSUME QueueInv, NEW p \in Pages, Pending(p), Fill(p)
    PROVE  Carries /\ Appends
<1>0. PICK at \in Nat : at = pend[p].at
    BY QueueTypes
<1>1. /\ head' = head /\ tail' = tail /\ reclsn' = reclsn
      /\ slot' = [slot EXCEPT ![Index(at)] = [buf |-> p, valid |-> TRUE]]
      /\ recLsn' = [recLsn EXCEPT ![p] = pend[p].lsn]
      /\ pend' = [pend EXCEPT ![p] = NoPend]
    BY <1>0 DEF Fill, PushedLsn, Index
<1>2. RingInv /\ RingTypes /\ PageInv(p) /\ SlotInv
    BY DEF QueueInv, RingInv
<1>3. /\ head \in Nat /\ tail \in Nat /\ tail + 2 <= head + Size /\ reclsn \in Nat /\ Size \in Nat
      /\ at \in Positions /\ ~At(at).valid /\ loc[p] = -1
    BY <1>0, <1>2, Sizes DEF RingTypes, PageInv
<1>4. /\ At(at)' = [buf |-> p, valid |-> TRUE]
      /\ \A n \in Positions \ {at} : At(n)' = At(n)
    <2>1. \A n \in Positions : n \in Nat /\ n < at + Size /\ at < n + Size
        BY <1>3 DEF Positions
    <2> QED
        BY <1>1, <1>2, <2>1, AtChanged DEF RingTypes
<1>5. /\ pend'[p] = NoPend /\ \A q \in Pages \ {p} : pend'[q] = pend[q]
      /\ recLsn'[p] = pend[p].lsn /\ \A q \in Pages \ {p} : recLsn'[q] = recLsn[q]
    BY <1>1, QueueTypes
<1>6. \A q \in Pages : Lsn(q)' = Lsn(q)
    BY <1>5 DEF Lsn, Pending
<1>7. \A n \in Positions : At(n).buf # p
    <2>1. \A n \in Positions : n \in head..tail
        BY <1>3 DEF Positions
    <2>2. \A n \in Positions : Index(n) # -1
        BY <1>2, <2>1, IndexType
    <2> QED
        BY <1>2, <1>3, <2>2, Sizes DEF SlotInv
<1>8. Positions' = Positions
    BY <1>1 DEF Positions
<1>9. ASSUME NEW n \in Positions, At(n).valid
      PROVE  At(n)' = At(n) /\ (At(n).buf # None => recLsn'[At(n).buf] = recLsn[At(n).buf])
    <2>1. At(n)' = At(n)
        BY <1>3, <1>4, <1>9
    <2>2. At(n).buf \in Pages \cup {None}
        BY <1>2, <1>3, IndexType DEF RingTypes, At, Index, Positions
    <2> QED
        BY <1>5, <1>7, <2>1, <2>2
<1>10. Carries
    <2>1. \A n \in head'..tail - 1 : n \in Positions
        BY <1>1 DEF Positions
    <2> QED
        BY <1>1, <1>3, <1>6, <1>9, <2>1 DEF Carries
<1>11. ASSUME NEW q \in Pages, NEW n \in Positions', In(q, n)' PROVE n \in Positions /\ In(q, n)
    <2>1. CASE n = at
        BY <1>0, <1>3, <1>4, <1>5, <1>8, <1>11, <2>1 DEF In, Pending
    <2>2. CASE n # at
        BY <1>4, <1>5, <1>8, <1>11, <2>2 DEF In, Pending
    <2> QED
        BY <2>1, <2>2
<1> QED
    BY <1>6, <1>10, <1>11 DEF Appends

\* remove_dirty_page_from_queue.
LEMMA RemoveCarries ==
    ASSUME QueueInv, NEW p \in Pages, loc[p] # -1, RemoveDirtyPageFromQueue(p)
    PROVE  Carries /\ Appends
<1>1. RingInv /\ RingTypes /\ PageInv(p) /\ SlotInv
    BY DEF QueueInv, RingInv
<1>2. PICK at \in Positions : loc[p] = Index(at) /\ At(at) = [buf |-> p, valid |-> TRUE]
    BY <1>1 DEF PageInv
<1>3. /\ head \in Nat /\ tail \in Nat /\ tail + 2 <= head + Size /\ reclsn \in Nat /\ Size \in Nat
      /\ \A n \in Positions : n \in Nat /\ n \in head..tail /\ Index(n) \in 0..Size - 1
    <2>1. head \in Nat /\ tail \in Nat /\ tail + 2 <= head + Size /\ reclsn \in Nat /\ Size \in Nat
        BY <1>1, Sizes DEF RingTypes
    <2>2. \A n \in Positions : n \in Nat /\ n \in head..tail
        BY <2>1 DEF Positions
    <2> QED
        BY <1>1, <2>1, <2>2, IndexType
<1>4. /\ head' = head /\ tail' = tail /\ reclsn' = reclsn /\ pend' = pend
      /\ slot' = [slot EXCEPT ![Index(at)].buf = None]
      /\ recLsn' = [recLsn EXCEPT ![p] = 0]
    BY <1>2 DEF RemoveDirtyPageFromQueue
<1>5. slot' = [slot EXCEPT ![Index(at)] = [buf |-> None, valid |-> TRUE]]
    <2>1. slot \in [0..Size - 1 -> [buf : Pages \cup {None}, valid : BOOLEAN]]
        BY <1>1 DEF RingTypes
    <2>2. slot[Index(at)].valid = TRUE /\ Index(at) \in 0..Size - 1
        BY <1>2, <1>3 DEF At, Index
    <2>3. [slot[Index(at)] EXCEPT !.buf = None] = [buf |-> None, valid |-> slot[Index(at)].valid]
        BY <2>1, <2>2, WithBuf
    <2>4. [slot[Index(at)] EXCEPT !.buf = None] = [buf |-> None, valid |-> TRUE]
        BY <2>2, <2>3, Zenon
    <2> QED
        BY <1>4, <2>1, <2>2, <2>4
<1>6. /\ At(at)' = [buf |-> None, valid |-> TRUE]
      /\ \A n \in Positions \ {at} : At(n)' = At(n)
    <2>1. \A n \in Positions : n < at + Size /\ at < n + Size
        BY <1>3 DEF Positions
    <2> QED
        BY <1>1, <1>3, <1>5, <2>1, AtChanged DEF RingTypes
<1>7. recLsn'[p] = 0 /\ \A q \in Pages \ {p} : recLsn'[q] = recLsn[q]
    BY <1>4, QueueTypes
<1>8. ~Pending(p) /\ \A q \in Pages : Pending(q)' = Pending(q)
    BY <1>1, <1>4 DEF PageInv, Pending
<1>9. Lsn(p)' = 0 /\ \A q \in Pages \ {p} : Lsn(q)' = Lsn(q)
    BY <1>4, <1>7, <1>8 DEF Lsn
<1>10. \A n \in Positions \ {at} : At(n).buf # p
    <2>1. \A n \in Positions \ {at} : Index(n) # Index(at)
        BY <1>1, <1>3, IndexDiffers
    <2> QED
        BY <1>1, <1>2, <2>1, Sizes DEF SlotInv
<1>11. Positions' = Positions
    BY <1>4 DEF Positions
<1>12. ASSUME NEW n \in Positions, At(n).valid
       PROVE  /\ At(n)'.valid /\ At(n)'.buf \in {At(n).buf, None}
              /\ At(n).buf # None /\ At(n)'.buf = At(n).buf => recLsn'[At(n).buf] = recLsn[At(n).buf]
    <2>1. CASE n = at
        BY <1>2, <1>6, <2>1
    <2>2. CASE n # at
        <3>1. At(n).buf \in Pages \cup {None}
            BY <1>1, <1>3 DEF RingTypes, At, Index
        <3> QED
            BY <1>6, <1>7, <1>10, <1>12, <2>2, <3>1
    <2> QED
        BY <2>1, <2>2
<1>13. Carries
    <2>1. \A n \in head'..tail - 1 : n \in Positions
        BY <1>4 DEF Positions
    <2>2. \A q \in Pages : Lsn(q)' \in {0, Lsn(q), reclsn}
        BY <1>9
    <2> QED
        BY <1>3, <1>4, <1>12, <2>1, <2>2 DEF Carries
<1>14. ASSUME NEW q \in Pages, NEW n \in Positions', In(q, n)'
       PROVE  n \in Positions /\ In(q, n) /\ q # p
    <2>1. CASE n = at
        BY <1>2, <1>4, <1>6, <1>8, <1>11, <1>14, <2>1, Sizes DEF In
    <2>2. CASE n # at
        BY <1>4, <1>6, <1>8, <1>10, <1>11, <1>14, <2>2 DEF In
    <2> QED
        BY <2>1, <2>2
<1> QED
    BY <1>9, <1>13, <1>14 DEF Appends

\* ckpt_move_queue_head_after_flush.
LEMMA MoveHeadCarries == ASSUME QueueInv, MoveHead PROVE Carries /\ Appends
<1>1. RingInv /\ RingTypes /\ RingTypes'
    BY MoveHeadRing DEF QueueInv, RingInv
<1>2. /\ head \in Nat /\ tail \in Nat /\ tail + 2 <= head + Size /\ reclsn \in Nat /\ Size \in Nat
    BY <1>1, Sizes DEF RingTypes
<1>3. /\ head' = head + 1 /\ tail' = tail /\ reclsn' = reclsn /\ pend' = pend /\ recLsn' = recLsn
      /\ slot' = [slot EXCEPT ![Index(head)].valid = FALSE]
    BY DEF MoveHead, SlotLeft, Index
<1>4. \A n \in Positions' : n \in Positions /\ n # head /\ n \in head..tail
    BY <1>2, <1>3 DEF Positions
<1>5. ASSUME NEW n \in Positions' PROVE At(n)' = At(n)
    <2>1. head \in head..tail /\ Index(head) \in 0..Size - 1
        BY <1>1, <1>2, IndexType DEF RingTypes
    <2>2. Index(n) # Index(head) /\ Index(n) \in 0..Size - 1
        BY <1>1, <1>4, <2>1, IndexType, IndexDiffers
    <2> QED
        BY <1>1, <1>3, <2>1, <2>2 DEF RingTypes, At, Index
<1>6. \A q \in Pages : Pending(q)' = Pending(q) /\ Lsn(q)' = Lsn(q)
    BY <1>3 DEF Pending, Lsn
<1>7. Carries
    <2>1. \A n \in head'..tail - 1 : n \in Positions'
        BY <1>3 DEF Positions
    <2> QED
        BY <1>2, <1>3, <1>5, <1>6, <2>1 DEF Carries
<1> QED
    BY <1>3, <1>4, <1>5, <1>6, <1>7 DEF Appends, In

\* ckpt_try_prune_dirty_page_queue.
LEMMA PruneMoveCarries == ASSUME QueueInv, PruneMove PROVE Carries
<1>0. RingInv /\ OrderInv /\ PruneInv /\ RingTypes
    BY DEF QueueInv, RingInv
<1>1. PICK nx \in pr.seen :
              /\ \A n \in pr.seen : n <= nx
              /\ \/ /\ At(nx).buf = None /\ UNCHANGED <<slot, loc>>
                 \/ /\ At(nx).buf # None
                    /\ slot' = [slot EXCEPT ![Index(pr.last)].buf = At(nx).buf,
                                            ![Index(nx)].buf = None]
                    /\ loc' = [loc EXCEPT ![At(nx).buf] = Index(pr.last)]
    BY <1>0, PruneMoveIs
<1>2. UNCHANGED <<reclsn, head, tail, recLsn, pend>>
    BY DEF PruneMove
<1>3. PICK last \in Positions : last = pr.last
    BY <1>0, <1>1 DEF PruneInv
<1>5. /\ pr.seen \subseteq head..last - 1 /\ head \in Nat /\ tail \in Nat /\ last \in Nat
      /\ reclsn \in Nat
      /\ \A n \in head..last : At(n).valid /\ (n \notin pr.seen => At(n).buf = None)
    BY <1>0, <1>1, <1>3 DEF PruneInv, RingTypes, Positions
<1>7. nx \in Positions /\ nx \in Nat /\ nx < last /\ nx \in head..tail /\ nx \in head..last
    BY <1>1, <1>3, <1>5 DEF Positions
<1>8. \A q \in Pages : Lsn(q)' = Lsn(q)
    BY <1>2 DEF Pending, Lsn
<1>9. \A n \in head'..tail - 1 : n \in Positions
    BY <1>2 DEF Positions
<1>10. CASE UNCHANGED <<slot, loc>>
    <2>1. \A n : At(n)' = At(n)
        BY <1>10 DEF At
    <2> QED
        BY <1>2, <1>5, <1>8, <2>1 DEF Carries
<1>11. CASE /\ At(nx).buf # None
            /\ slot' = [slot EXCEPT ![Index(pr.last)].buf = At(nx).buf, ![Index(nx)].buf = None]
            /\ loc' = [loc EXCEPT ![At(nx).buf] = Index(pr.last)]
    <2>1. PICK p \in Pages : p = At(nx).buf
        <3>1. At(nx).buf \in Pages \cup {None}
            BY <1>0, <1>7, IndexType DEF RingTypes, At, Index
        <3> QED
            BY <1>11, <3>1
    <2>2. /\ slot' = [slot EXCEPT ![Index(last)].buf = p, ![Index(nx)].buf = None]
          /\ loc' = [loc EXCEPT ![p] = Index(last)]
        BY <1>3, <1>11, <2>1
    <2>3. \A n \in nx + 1..last : At(n).valid /\ At(n).buf = None
        BY <1>1, <1>5, <1>7
    <2>4. /\ At(nx)' = [buf |-> None, valid |-> TRUE] /\ At(last)' = [buf |-> p, valid |-> TRUE]
          /\ \A n \in Positions \ {nx, last} : At(n)' = At(n)
        BY <1>0, <1>2, <1>3, <1>7, <2>1, <2>2, <2>3, MoveRing
    <2>5. nx \in head..last - 1 /\ At(nx).buf # None /\ p # None /\ At(last).buf = None
        BY <1>5, <1>7, <1>11, <2>3, Sizes
    <2>6. ASSUME NEW n \in Positions, At(n).valid
          PROVE  /\ At(n)'.valid
                 /\ At(n)'.buf \in {At(n).buf, None} \/ \E m \in head..n - 1 : At(m).buf # None
        <3>1. CASE n = nx
            BY <2>4, <3>1
        <3>2. CASE n = last
            BY <2>4, <2>5, <3>2
        <3>3. CASE n \notin {nx, last}
            BY <2>4, <2>6, <3>3
        <3> QED
            BY <3>1, <3>2, <3>3
    <2> QED
        BY <1>2, <1>5, <1>8, <1>9, <2>6 DEF Carries
<1> QED
    BY <1>1, <1>10, <1>11

\* A backend.
LEMMA BackendCarries ==
    ASSUME QueueInv, NEW b \in Backends, Begin(b) \/ Backend(b)
    PROVE  Carries /\ Appends
<1>1. b # "none" /\ reclsn \in Nat
    BY Sizes, QueueTypes
<1>2. CASE Begin(b) \/ LockBuffer(b) \/ UpdateWaitLockid(b) \/ XLogInsert(b)
    <2>1. QueueStays
        BY <1>1, <1>2 DEF Begin, LockBuffer, UpdateWaitLockid, XLogInsert, queueVars, QueueStays
    <2> QED
        BY <2>1, StaysCarries
<1>3. CASE UpdateRecLsn(b)
    <2>1. QueueStays
        BY <1>3, QueueTypes DEF UpdateRecLsn, RaiseRecLsn, QueueStays
    <2> QED
        BY <2>1, StaysCarries
<1>4. CASE Push(b)
    <2>1. PICK p \in Pages : p = Min(Unmarked(b))
        BY <1>4, Marked DEF Push
    <2> QED
        BY <1>1, <1>4, <2>1, TakeCarries DEF Push
<1>5. CASE FillPushed(b)
    <2>1. PICK p \in Pages : pend[p].by = b /\ Fill(p)
        BY <1>5 DEF FillPushed
    <2>2. Pending(p)
        BY <1>1, <2>1 DEF Pending, NoPend
    <2> QED
        BY <2>1, <2>2, FillCarries
<1> QED
    BY <1>2, <1>3, <1>4, <1>5 DEF Backend

\* Hint bits, dropped buffers and the threads of the page writer.
LEMMA PageCarries ==
    ASSUME QueueInv, NEW p \in Pages,
           MarkBufferDirtyHint(p) \/ FillHint(p) \/ InvalidateBuffer(p) \/ Thread(p)
    PROVE  Carries /\ Appends
<1>1. reclsn \in Nat /\ HeaderInv(p)
    BY QueueTypes DEF QueueInv, UserInv
<1>2. CASE MarkBufferDirtyHint(p)
    <2>1. QueueStays \/ TakeSlot(p, "hint")
        BY <1>1, <1>2 DEF MarkBufferDirtyHint, queueVars, QueueStays
    <2> QED
        BY <2>1, StaysCarries, TakeCarries
<1>3. CASE FillHint(p) \/ FillRepushed(p)
    <2>1. Pending(p) /\ Fill(p)
        BY <1>3 DEF FillHint, FillRepushed, Pending, NoPend
    <2> QED
        BY <2>1, FillCarries
<1>4. CASE InvalidateBuffer(p)
    <2>1. loc[p] # -1 /\ RemoveDirtyPageFromQueue(p)
        BY <1>4, DirtyIsIn DEF InvalidateBuffer, Lockable, Pending
    <2> QED
        BY <2>1, RemoveCarries
<1>5. CASE FlushStart(p)
    <2>1. QueueStays
        BY <1>1, <1>5 DEF FlushStart, queueVars, QueueStays
    <2> QED
        BY <2>1, StaysCarries
<1>6. CASE FlushEnd(p)
    <2>1. loc[p] # -1 /\ RemoveDirtyPageFromQueue(p)
        BY <1>1, <1>6 DEF FlushEnd, HeaderInv
    <2> QED
        BY <2>1, RemoveCarries
<1>7. CASE Repush(p)
    <2>1. QueueStays \/ TakeSlot(p, "flush")
        BY <1>1, <1>7 DEF Repush, queueVars, QueueStays
    <2> QED
        BY <2>1, StaysCarries, TakeCarries
<1> QED
    BY <1>2, <1>3, <1>4, <1>5, <1>6, <1>7 DEF Thread

\* The main thread of the page writer, which moves pages only when it packs the queue.
LEMMA WriterCarries ==
    ASSUME QueueInv, PageWriter
    PROVE  Carries /\ (pr = NoPrune => Appends)
<1>1. CASE MoveHead
    BY <1>1, MoveHeadCarries
<1>2. CASE Select \/ EndFlush \/ PruneFind
    <2>1. QueueStays
        BY <1>2, QueueTypes DEF Select, EndFlush, PruneFind, queueVars, QueueStays
    <2> QED
        BY <2>1, StaysCarries
<1>3. CASE PruneMove
    <2>1. pr # NoPrune
        BY <1>3 DEF PruneMove, NoPrune
    <2> QED
        BY <1>3, <2>1, PruneMoveCarries
<1> QED
    BY <1>1, <1>2, <1>3 DEF PageWriter

-----------------------------------------------------------------------------
(* The redo point. *)

\* No page that is in the queue or will be put there has a recovery LSN below lsn.
AllFrom(lsn) == lsn <= reclsn /\ \A p \in Pages : Lsn(p) # 0 => Lsn(p) >= lsn

\* No page at position n or later.
AllFromAt(n, lsn) ==
    lsn <= reclsn /\ \A p \in Pages : \A m \in Positions : In(p, m) /\ m >= n => Lsn(p) >= lsn

\* The slots before position n are filled, and emptied again.
Gone(n) == \A m \in Positions : m < n => At(m).valid /\ At(m).buf = None

\* Position n has held page p, which may have left it.
Had(n, p) == n >= head => At(n).valid /\ At(n).buf \in {p, None}

RecordTypes ==
    /\ memory \in [Pages -> Nat] /\ unsynced \in [Pages -> Nat]
    /\ target \in Nat /\ found \in Nat /\ expected \in Nat /\ redo \in Nat
    /\ scan \in [at : Nat, buf : Pages \cup {None}, lsn : Nat \cup {-1}]

\* A change that is not written is not older than the recovery LSN of its page.
RecordInv ==
    /\ reclsn <= wal + 1
    /\ \A b \in Backends : start[b] <= wal
    /\ \A p \in Pages : io[p] # "none" => memory[p] = 0
    /\ \A p \in Pages : memory[p] # 0 => recLsn[p] # 0 /\ recLsn[p] <= memory[p]

\* A change that is not forced to disk is not older than lsn.
UnsyncedFrom(lsn) == \A p \in Pages : unsynced[p] # 0 => unsynced[p] >= lsn

\* The redo point, the one a checkpoint is about to set, and what a full checkpoint waits for.
RedoInv ==
    /\ AllFrom(redo)
    /\ UnsyncedFrom(redo)
    /\ cpc = "sync" => AllFrom(target)
    /\ FullRuns => target <= reclsn /\ redo <= target /\ pr = NoPrune
    /\ cpc = "expect" => AllFromAt(found, target)
    /\ cpc = "wait" => AllFromAt(expected, target)
    /\ cpc = "scan3" => AllFrom(target) /\ UnsyncedFrom(target)
    /\ cpc = "scan2" => found <= reclsn /\ redo <= found

Scans == {"scan1", "scan2", "scan3"}

\* The redo point that the walk over the queue must not fall below.
Floor == IF cpc = "scan3" THEN target ELSE redo

\* The checkpointer's walk: the slots it has passed stay empty.
ScanInv ==
    /\ cpc \notin Scans => scan = NoScan
    /\ scan.at <= tail
    /\ scan.buf = None => scan.lsn = -1 /\ Gone(scan.at)
    /\ scan.buf # None => scan.at > 0 /\ Gone(scan.at - 1) /\ Had(scan.at - 1, scan.buf)
    /\ scan.lsn # -1 =>
          /\ scan.lsn = 0 \/ scan.lsn >= Floor
          /\ scan.at - 1 >= head /\ At(scan.at - 1).buf # None => scan.lsn = recLsn[scan.buf]

\* The ring does not go round under the walk.
Unlapped == cpc \in Scans => tail < scan.at + Size

\* The server has not stopped for another reason than a queue without room.

CkptInv == QueueInv /\ RecordTypes /\ RecordInv /\ RedoInv /\ ScanInv /\ NoRedoPanic

\* Every page with a recovery LSN is in the queue.
LEMMA HasPosition ==
    ASSUME QueueInv, NEW p \in Pages, Lsn(p) # 0
    PROVE  \E n \in Positions : In(p, n)
<1>1. PageInv(p)
    BY DEF QueueInv, RingInv
<1>2. CASE Pending(p)
    BY <1>1, <1>2 DEF PageInv, In
<1>3. CASE ~Pending(p)
    <2>1. loc[p] # -1
        BY <1>1, <1>3 DEF PageInv, Lsn
    <2> QED
        BY <1>1, <2>1 DEF PageInv, In
<1> QED
    BY <1>2, <1>3

\* The types of the queue.
LEMMA LsnTypes ==
    ASSUME QueueInv
    PROVE  /\ head \in Nat /\ tail \in Nat /\ head <= tail /\ reclsn \in Nat
           /\ \A p \in Pages : Lsn(p) \in Nat /\ recLsn[p] \in Nat /\ recLsn[p] <= reclsn
           /\ \A n \in Positions : n \in Nat /\ At(n) \in [buf : Pages \cup {None}, valid : BOOLEAN]
<1>1. RingTypes /\ head \in Nat /\ tail \in Nat /\ head <= tail /\ reclsn \in Nat
    BY DEF QueueInv, RingInv, RingTypes
<1>2. \A p \in Pages : Lsn(p) \in Nat /\ recLsn[p] \in Nat /\ recLsn[p] <= reclsn
    BY QueueTypes DEF Lsn, QueueInv, RingInv, PageInv
<1>3. \A n \in Positions : n \in Nat /\ n \in head..tail
    BY <1>1 DEF Positions
<1>4. \A n \in Positions : Index(n) \in 0..Size - 1
    BY <1>1, <1>3, IndexType
<1> QED
    BY <1>1, <1>2, <1>3, <1>4 DEF RingTypes, At, Index

\* What no page in the queue is below stays so.
LEMMA AllFromStays ==
    ASSUME QueueInv, QueueInv', Carries, NEW lsn \in Nat, AllFrom(lsn)
    PROVE  AllFrom(lsn)'
<1>1. reclsn \in Nat /\ lsn <= reclsn /\ reclsn' \in Nat /\ reclsn <= reclsn'
    BY LsnTypes DEF AllFrom, Carries
<1>2. ASSUME NEW p \in Pages, Lsn(p)' # 0 PROVE Lsn(p)' >= lsn
    BY <1>1, <1>2, LsnTypes DEF Carries, AllFrom
<1> QED
    BY <1>1, <1>2 DEF AllFrom

\* The same from a position on, when no page moves.
LEMMA AllFromAtStays ==
    ASSUME QueueInv, Carries, Appends, NEW n \in Nat, NEW lsn \in Nat, AllFromAt(n, lsn)
    PROVE  AllFromAt(n, lsn)'
<1>1. reclsn \in Nat /\ lsn <= reclsn /\ reclsn' \in Nat /\ reclsn <= reclsn'
    BY LsnTypes DEF AllFromAt, Carries
<1>2. ASSUME NEW p \in Pages, NEW m \in Positions', In(p, m)', m >= n PROVE Lsn(p)' >= lsn
    BY <1>1, <1>2, LsnTypes DEF Appends, AllFromAt
<1> QED
    BY <1>1, <1>2 DEF AllFromAt

\* Slots that are emptied stay empty: packing moves pages from the head to the tail.
LEMMA GoneStays ==
    ASSUME QueueInv, QueueInv', Carries, NEW n \in Nat, n <= tail, Gone(n)
    PROVE  Gone(n)'
<1>1. head \in Nat /\ tail \in Nat /\ head' \in Nat /\ tail' \in Nat /\ head <= head'
    BY DEF Carries, QueueInv, RingInv, RingTypes
<1>2. ASSUME NEW m \in Positions', m < n PROVE At(m)'.valid /\ At(m)'.buf = None
    <2>1. m \in head'..tail - 1 /\ m \in Positions
        BY <1>1, <1>2 DEF Positions
    <2>2. \A k \in head..m - 1 : k \in Positions /\ k < n
        BY <1>1, <1>2, <2>1 DEF Positions
    <2> QED
        BY <1>2, <2>1, <2>2 DEF Carries, Gone
<1> QED
    BY <1>2 DEF Gone

\* So does the page the checkpointer looks at, until it leaves.
LEMMA HadStays ==
    ASSUME QueueInv, QueueInv', Carries, NEW n \in Nat, n < tail, NEW p \in Pages, Gone(n), Had(n, p)
    PROVE  /\ Had(n, p)'
           /\ n >= head' /\ At(n)'.buf # None =>
                 n >= head /\ At(n).buf # None /\ recLsn'[p] = recLsn[p]
<1>1. head \in Nat /\ tail \in Nat /\ head' \in Nat /\ tail' \in Nat /\ head <= head'
    BY DEF Carries, QueueInv, RingInv, RingTypes
<1>2. CASE n >= head'
    <2>1. n \in head'..tail - 1 /\ n >= head /\ At(n).valid /\ At(n).buf \in {p, None}
        BY <1>1, <1>2 DEF Had
    <2>2. \A k \in head..n - 1 : At(k).buf = None
        BY <1>1 DEF Gone, Positions
    <2>3. At(n)'.valid /\ At(n)'.buf \in {At(n).buf, None}
        BY <2>1, <2>2 DEF Carries
    <2>4. At(n)'.buf # None => recLsn'[p] = recLsn[p]
        BY <2>1, <2>3 DEF Carries
    <2> QED
        BY <2>1, <2>3, <2>4 DEF Had
<1>3. CASE ~(n >= head')
    BY <1>1, <1>3 DEF Had
<1> QED
    BY <1>2, <1>3

\* What the steps of backends and the page writer do to the redo point: nothing; a change gets
\* the number of the next record, or is written.
Works ==
    /\ UNCHANGED <<cpc, target, scan, found, redo>>
    /\ FullRuns => UNCHANGED <<expected, pr>>
    /\ \A p \in Pages : unsynced'[p] \in {0, unsynced[p], wal + 1}
    /\ RecordTypes' /\ RecordInv' /\ NoRedoPanic'

\* Such a step keeps the redo point and the walk.
LEMMA WorksKeeps ==
    ASSUME CkptInv, QueueInv', Carries, pr = NoPrune => Appends, Works
    PROVE  CkptInv'
<1>1. /\ QueueInv /\ RedoInv /\ ScanInv /\ RecordInv
      /\ target \in Nat /\ found \in Nat /\ expected \in Nat /\ redo \in Nat
      /\ scan.at \in Nat /\ scan.buf \in Pages \cup {None} /\ scan.lsn \in Nat \cup {-1}
      /\ unsynced \in [Pages -> Nat]
    BY DEF CkptInv, RecordTypes
<1>2. /\ cpc' = cpc /\ target' = target /\ scan' = scan /\ found' = found /\ redo' = redo
      /\ FullRuns' = FullRuns /\ Floor' = Floor
      /\ FullRuns => expected' = expected /\ pr' = pr
    BY DEF Works, FullRuns, Floor
<1>3. /\ reclsn \in Nat /\ reclsn' \in Nat /\ reclsn <= reclsn' /\ wal \in Nat /\ reclsn <= wal + 1
      /\ head \in Nat /\ tail \in Nat /\ tail' \in Nat /\ tail <= tail' /\ head' \in Nat
    BY <1>1 DEF QueueInv, RingInv, RingTypes, Carries, UserInv, UserTypes, RecordInv
<1>4. ASSUME NEW lsn \in Nat, lsn <= reclsn, UnsyncedFrom(lsn) PROVE UnsyncedFrom(lsn)'
    <2>1. \A p \in Pages : unsynced'[p] \in {0, unsynced[p], wal + 1}
        BY DEF Works
    <2> QED
        BY <1>1, <1>3, <1>4, <2>1 DEF UnsyncedFrom
<1>5. PICK r \in Nat : r = redo
    BY <1>1
<1>6. PICK t \in Nat : t = target
    BY <1>1
<1>7. PICK f \in Nat : f = found
    BY <1>1
<1>8. PICK e \in Nat : e = expected
    BY <1>1
<1>9. AllFrom(r)' /\ UnsyncedFrom(r)'
    <2>1. AllFrom(r) /\ UnsyncedFrom(r) /\ r <= reclsn
        BY <1>1, <1>5 DEF RedoInv, AllFrom
    <2> QED
        BY <1>1, <1>4, <2>1, AllFromStays
<1>10. cpc = "sync" => AllFrom(t)'
    BY <1>1, <1>6, AllFromStays DEF RedoInv
<1>11. FullRuns => t <= reclsn' /\ r <= t /\ pr' = NoPrune
    BY <1>1, <1>2, <1>3, <1>5, <1>6 DEF RedoInv
<1>12. cpc = "expect" => AllFromAt(f, t)'
    BY <1>1, <1>6, <1>7, AllFromAtStays DEF RedoInv, FullRuns
<1>13. cpc = "wait" => AllFromAt(e, t)' /\ expected' = e
    BY <1>1, <1>2, <1>6, <1>8, AllFromAtStays DEF RedoInv, FullRuns
<1>14. cpc = "scan3" => AllFrom(t)' /\ UnsyncedFrom(t)'
    <2>1. cpc = "scan3" => AllFrom(t) /\ UnsyncedFrom(t) /\ t <= reclsn
        BY <1>1, <1>6 DEF RedoInv, AllFrom
    <2> QED
        BY <1>1, <1>4, <2>1, AllFromStays
<1>15. cpc = "scan2" => f <= reclsn' /\ r <= f
    BY <1>1, <1>3, <1>5, <1>7 DEF RedoInv
<1>16. RedoInv'
    <2>1. redo' = r /\ target' = t /\ found' = f
        BY <1>2, <1>5, <1>6, <1>7
    <2> QED
        BY <1>2, <1>9, <1>10, <1>11, <1>12, <1>13, <1>14, <1>15, <2>1 DEF RedoInv
<1>17. PICK at \in Nat : at = scan.at
    BY <1>1
<1>18. ScanInv'
    <2>1. cpc' \notin Scans => scan' = NoScan
        BY <1>1, <1>2 DEF ScanInv, Scans
    <2>2. at <= tail /\ at <= tail'
        BY <1>1, <1>3, <1>17 DEF ScanInv
    <2>3. CASE scan.buf = None
        <3>1. scan.lsn = -1 /\ Gone(at)'
            BY <1>1, <1>17, <2>2, <2>3, GoneStays DEF ScanInv
        <3> QED
            BY <1>2, <1>17, <2>1, <2>2, <2>3, <3>1 DEF ScanInv
    <2>4. CASE scan.buf # None
        <3>1. PICK n \in Nat : n = at - 1 /\ at = n + 1
            BY <1>1, <1>17, <2>4 DEF ScanInv
        <3>2. PICK p \in Pages : p = scan.buf
            BY <1>1, <2>4
        <3>3. Gone(n) /\ Had(n, p) /\ n < tail /\ n <= tail
            BY <1>1, <1>3, <1>17, <2>2, <2>4, <3>1, <3>2 DEF ScanInv
        <3>4. Gone(n)'
            BY <1>1, <3>3, GoneStays
        <3>5. /\ Had(n, p)'
              /\ n >= head' /\ At(n)'.buf # None =>
                    n >= head /\ At(n).buf # None /\ recLsn'[p] = recLsn[p]
            BY <1>1, <3>3, HadStays
        <3>6. scan.lsn # -1 =>
                /\ scan.lsn = 0 \/ scan.lsn >= Floor
                /\ n >= head /\ At(n).buf # None => scan.lsn = recLsn[p]
            BY <1>1, <1>17, <3>1, <3>2 DEF ScanInv
        <3>7. scan.lsn # -1 =>
                /\ scan.lsn = 0 \/ scan.lsn >= Floor'
                /\ n >= head' /\ At(n)'.buf # None => scan.lsn = recLsn'[p]
            BY <1>2, <3>5, <3>6
        <3>8. scan'.at > 0 /\ scan'.at - 1 = n /\ scan'.buf = p /\ scan'.lsn = scan.lsn
            BY <1>2, <1>17, <3>1, <3>2
        <3>9. p # None
            BY Sizes
        <3> QED
            BY <1>2, <1>17, <2>1, <2>2, <3>4, <3>5, <3>7, <3>8, <3>9 DEF ScanInv
    <2> QED
        BY <2>3, <2>4
<1> QED
    BY <1>16, <1>18 DEF CkptInv, Works

\* The types of the records.
LEMMA RecordFacts ==
    ASSUME CkptInv
    PROVE  /\ QueueInv /\ wal \in Nat /\ reclsn \in Nat /\ reclsn <= wal + 1
           /\ memory \in [Pages -> Nat] /\ unsynced \in [Pages -> Nat]
           /\ io \in [Pages -> {"none", "io", "repush"}] /\ recLsn \in [Pages -> Nat]
           /\ start \in [Backends -> Nat] /\ \A b \in Backends : start[b] <= wal
           /\ expected \in Nat
BY QueueTypes DEF CkptInv, RecordInv, RecordTypes

\* A step that does nothing to the records, but may take a slot, move pages or the head.
LEMMA WorksQuiet ==
    ASSUME CkptInv, panic' = panic \/ panic' = "repush",
           UNCHANGED <<wal, reclsn, recLsn, memory, unsynced, io, start>>, UNCHANGED ckptVars,
           FullRuns => UNCHANGED pr
    PROVE  Works
<1>1. RecordTypes' /\ RecordInv' /\ NoRedoPanic'
    BY DEF CkptInv, RecordTypes, RecordInv, NoRedoPanic, ckptVars
<1> QED
    BY <1>1 DEF Works, ckptVars

\* A slot is filled with a page that has no change that is not written.
LEMMA WorksFill ==
    ASSUME CkptInv, NEW p \in Pages, Pending(p), Fill(p),
           UNCHANGED <<wal, memory, unsynced, start, ckptVars, pr, panic>>,
           io' = io \/ io' = [io EXCEPT ![p] = "none"]
    PROVE  Works
<1>1. reclsn' = reclsn /\ \A q \in Pages \ {p} : recLsn'[q] = recLsn[q]
    BY RecordFacts DEF Fill
<1>2. PageInv(p) /\ RecordInv /\ RecordTypes
    BY DEF CkptInv, QueueInv, RingInv
<1>3. memory[p] = 0
    BY <1>2 DEF PageInv, RecordInv
<1>4. RecordInv'
    <2>1. \A q \in Pages : io'[q] # "none" => memory'[q] = 0
        BY <1>2, RecordFacts DEF RecordInv
    <2>2. \A q \in Pages : memory'[q] # 0 => recLsn'[q] # 0 /\ recLsn'[q] <= memory'[q]
        BY <1>1, <1>2, <1>3 DEF RecordInv
    <2> QED
        BY <1>1, <1>2, <2>1, <2>2 DEF RecordInv
<1>5. RecordTypes' /\ NoRedoPanic'
    BY <1>2 DEF RecordTypes, CkptInv, NoRedoPanic, ckptVars
<1> QED
    BY <1>4, <1>5 DEF Works, ckptVars

\* XLogInsert: the recovery LSN of the page is not after the record.
LEMMA WorksInsert ==
    ASSUME CkptInv, NEW b \in Backends, XLogInsert(b)
    PROVE  Works
<1>1. /\ pc[b] = "lock" /\ want[b] = Locked(b) /\ Unmarked(b) = {}
      /\ wal' = wal + 1 /\ start' = [start EXCEPT ![b] = wal + 1]
      /\ memory' = Owes(memory, want[b]) /\ unsynced' = Owes(unsynced, want[b])
      /\ UNCHANGED <<reclsn, recLsn, io, ckptVars, pr, panic>>
    BY DEF XLogInsert, Goto, MarkedAll, queueVars, lockVars, writerVars
<1>2. ASSUME NEW p \in want[b]
      PROVE  p \in Pages /\ recLsn[p] # 0 /\ recLsn[p] <= reclsn /\ io[p] = "none"
    <2>1. p \in Pages /\ lock[p] = b /\ p \in dirty /\ b # None
        BY <1>1, <1>2, Sizes DEF Locked, Unmarked
    <2>2. HeaderInv(p) /\ PageInv(p)
        BY <2>1 DEF CkptInv, QueueInv, UserInv, RingInv
    <2>3. ~Pending(p) /\ io[p] = "none"
        BY <1>1, <2>1, <2>2 DEF HeaderInv
    <2> QED
        BY <2>1, <2>2, <2>3 DEF HeaderInv, PageInv
<1>4. \A p \in Pages : /\ memory'[p] = IF p \in want[b] /\ memory[p] = 0 THEN wal + 1 ELSE memory[p]
                       /\ unsynced'[p] \in {unsynced[p], wal + 1}
    BY <1>1 DEF Owes
<1>5. RecordInv'
    <2>1. \A p \in Pages : io'[p] # "none" => memory'[p] = 0
        BY <1>1, <1>2, <1>4 DEF CkptInv, RecordInv
    <2>2. \A p \in Pages : memory'[p] # 0 => recLsn'[p] # 0 /\ recLsn'[p] <= memory'[p]
        BY <1>1, <1>2, <1>4, RecordFacts DEF CkptInv, RecordInv
    <2>3. reclsn' <= wal' + 1 /\ \A c \in Backends : start'[c] <= wal'
        BY <1>1, RecordFacts
    <2> QED
        BY <2>1, <2>2, <2>3 DEF RecordInv
<1>6. RecordTypes' /\ NoRedoPanic'
    <2>1. memory' \in [Pages -> Nat] /\ unsynced' \in [Pages -> Nat]
        BY <1>1, RecordFacts DEF Owes
    <2> QED
        BY <1>1, <2>1 DEF RecordTypes, CkptInv, NoRedoPanic, ckptVars
<1> QED
    BY <1>1, <1>4, <1>5, <1>6 DEF Works, ckptVars

\* The end of XLogInsert: the recovery LSN of the queue is not raised beyond the next record.
LEMMA WorksUpdate ==
    ASSUME CkptInv, NEW b \in Backends, UpdateRecLsn(b)
    PROVE  Works
<1>1. /\ UNCHANGED <<wal, recLsn, memory, unsynced, io, ckptVars, pr, panic>>
      /\ start' = [start EXCEPT ![b] = 0]
      /\ reclsn' \in {reclsn, start[b]}
    BY DEF UpdateRecLsn, RaiseRecLsn, pageVars, writerVars
<1>2. reclsn' <= wal' + 1 /\ \A c \in Backends : start'[c] <= wal'
    BY <1>1, RecordFacts
<1>3. RecordInv' /\ RecordTypes' /\ NoRedoPanic'
    BY <1>1, <1>2 DEF CkptInv, RecordInv, RecordTypes, NoRedoPanic, ckptVars
<1> QED
    BY <1>1, <1>3 DEF Works, ckptVars

\* A page is written, or dropped, and leaves the queue.
LEMMA WorksRemove ==
    ASSUME CkptInv, NEW p \in Pages, memory' \in {memory, [memory EXCEPT ![p] = 0]}, memory'[p] = 0,
           UNCHANGED <<wal, reclsn, start, ckptVars, pr, panic>>,
           \A q \in Pages \ {p} : recLsn'[q] = recLsn[q] /\ io'[q] = io[q],
           unsynced' \in {unsynced, [unsynced EXCEPT ![p] = 0]}
    PROVE  Works
<1>1. RecordInv /\ \A q \in Pages \ {p} : memory'[q] = memory[q]
    BY RecordFacts DEF CkptInv
<1>2. RecordInv'
    <2>1. \A q \in Pages : io'[q] # "none" => memory'[q] = 0
        BY <1>1 DEF RecordInv
    <2>2. \A q \in Pages : memory'[q] # 0 => recLsn'[q] # 0 /\ recLsn'[q] <= memory'[q]
        BY <1>1 DEF RecordInv
    <2> QED
        BY <1>1, <2>1, <2>2 DEF RecordInv
<1>3. /\ memory' \in [Pages -> Nat] /\ unsynced' \in [Pages -> Nat]
      /\ \A q \in Pages : unsynced'[q] \in {0, unsynced[q]}
    BY RecordFacts
<1>4. RecordTypes' /\ NoRedoPanic'
    BY <1>3 DEF CkptInv, RecordTypes, NoRedoPanic, ckptVars
<1> QED
    BY <1>2, <1>3, <1>4 DEF Works, ckptVars

\* A backend.
LEMMA BackendWorks ==
    ASSUME CkptInv, NEW b \in Backends, Begin(b) \/ Backend(b)
    PROVE  Works
<1>1. CASE Begin(b) \/ LockBuffer(b) \/ UpdateWaitLockid(b)
    BY <1>1, WorksQuiet
       DEF Begin, LockBuffer, UpdateWaitLockid, queueVars, pageVars, backVars, writerVars
<1>2. CASE Push(b)
    <2>1. UNCHANGED <<reclsn, recLsn>>
        BY <1>2 DEF Push, TakeSlot
    <2> QED
        BY <1>2, <2>1, WorksQuiet DEF Push, pageVars, lockVars, writerVars
<1>3. CASE FillPushed(b)
    <2>1. PICK p \in Pages : pend[p].by = b /\ Fill(p)
        BY <1>3 DEF FillPushed
    <2>2. Pending(p)
        BY <2>1, Sizes DEF Pending, NoPend
    <2> QED
        BY <1>3, <2>1, <2>2, WorksFill DEF FillPushed, lockVars, writerVars
<1>4. CASE XLogInsert(b) \/ UpdateRecLsn(b)
    BY <1>4, WorksInsert, WorksUpdate
<1> QED
    BY <1>1, <1>2, <1>3, <1>4 DEF Backend

\* Hint bits, dropped buffers and the threads of the page writer.
LEMMA PageWorks ==
    ASSUME CkptInv, NEW p \in Pages,
           MarkBufferDirtyHint(p) \/ FillHint(p) \/ InvalidateBuffer(p) \/ Thread(p)
    PROVE  Works
<1>1. CASE MarkBufferDirtyHint(p)
    <2>1. UNCHANGED <<reclsn, recLsn>>
        BY <1>1 DEF MarkBufferDirtyHint, TakeSlot, queueVars
    <2> QED
        BY <1>1, <2>1, WorksQuiet DEF MarkBufferDirtyHint, lockVars, writerVars
<1>2. CASE FillHint(p)
    <2>1. Pending(p) /\ Fill(p)
        BY <1>2 DEF FillHint, Pending, NoPend
    <2> QED
        BY <1>2, <2>1, WorksFill DEF FillHint, lockVars, backVars, writerVars
<1>3. CASE FillRepushed(p)
    <2>1. Pending(p) /\ Fill(p)
        BY <1>3 DEF FillRepushed, Pending, NoPend
    <2> QED
        BY <1>3, <2>1, WorksFill DEF FillRepushed, pageVars, backVars, writerVars
<1>4. CASE InvalidateBuffer(p)
    <2>1. /\ memory' = [memory EXCEPT ![p] = 0] /\ unsynced' = [unsynced EXCEPT ![p] = 0]
          /\ recLsn' = [recLsn EXCEPT ![p] = 0] /\ reclsn' = reclsn
          /\ UNCHANGED <<wal, io, start, ckptVars, pr, panic>>
        BY <1>4 DEF InvalidateBuffer, RemoveDirtyPageFromQueue, lockVars, writerVars
    <2>2. memory'[p] = 0 /\ \A q \in Pages \ {p} : recLsn'[q] = recLsn[q] /\ io'[q] = io[q]
        BY <2>1, RecordFacts
    <2> QED
        BY <2>1, <2>2, WorksRemove
<1>5. CASE FlushStart(p)
    <2>1. /\ memory' = [memory EXCEPT ![p] = 0] /\ io' = [io EXCEPT ![p] = "io"]
          /\ UNCHANGED <<wal, unsynced, reclsn, recLsn, start, ckptVars, pr, panic>>
        BY <1>5 DEF FlushStart, queueVars, backVars, writerVars
    <2>2. memory'[p] = 0 /\ \A q \in Pages \ {p} : recLsn'[q] = recLsn[q] /\ io'[q] = io[q]
        BY <2>1, RecordFacts
    <2> QED
        BY <2>1, <2>2, WorksRemove
<1>6. CASE FlushEnd(p)
    <2>1. /\ io[p] = "io" /\ recLsn' = [recLsn EXCEPT ![p] = 0]
          /\ \E x : io' = [io EXCEPT ![p] = x]
          /\ UNCHANGED <<wal, memory, unsynced, reclsn, start, ckptVars, pr, panic>>
        BY <1>6 DEF FlushEnd, RemoveDirtyPageFromQueue, backVars, writerVars
    <2>2. memory'[p] = 0
        BY <2>1 DEF CkptInv, RecordInv
    <2>3. \A q \in Pages \ {p} : recLsn'[q] = recLsn[q] /\ io'[q] = io[q]
        BY <2>1, RecordFacts
    <2> QED
        BY <2>1, <2>2, <2>3, WorksRemove
<1>7. CASE Repush(p)
    <2>1. UNCHANGED <<reclsn, recLsn>> /\ panic' \in {panic, "repush"}
        BY <1>7 DEF Repush, TakeSlot, queueVars
    <2> QED
        BY <1>7, <2>1, WorksQuiet DEF Repush, pageVars, lockVars, backVars, writerVars
<1> QED
    BY <1>1, <1>2, <1>3, <1>4, <1>5, <1>6, <1>7 DEF Thread

\* The main thread of the page writer: the queue is not packed while a full checkpoint runs.
LEMMA WriterWorks ==
    ASSUME Apart, CkptInv, PageWriter
    PROVE  Works
<1>1. CASE MoveHead \/ Select \/ EndFlush
    BY <1>1, WorksQuiet
       DEF MoveHead, Select, EndFlush, queueVars, pageVars, lockVars, backVars, writerVars
<1>2. CASE PruneMove
    <2>1. panic' = panic
        BY <1>2, PruneMoveRing DEF CkptInv, QueueInv
    <2>2. ~FullRuns
        BY <1>2 DEF PruneMove, NoPrune, CkptInv, RedoInv
    <2>3. UNCHANGED <<wal, reclsn, recLsn, memory, unsynced, io, start, ckptVars>>
        BY <1>2 DEF PruneMove, pageVars, lockVars, backVars
    <2> QED
        BY <2>1, <2>2, <2>3, WorksQuiet
<1>3. CASE PruneFind
    <2>1. ~FullRuns
        BY <1>3 DEF Apart
    <2>2. /\ UNCHANGED <<wal, reclsn, recLsn, memory, unsynced, io, start>>
          /\ UNCHANGED <<cpc, target, scan, found, redo, panic>>
        BY <1>3 DEF PruneFind, queueVars, pageVars, lockVars, backVars
    <2>3. expected' \in Nat
        <3>1. tail \in Nat /\ head \in Nat /\ expected \in Nat
            BY RecordFacts, LsnTypes
        <3>2. Emptied \in SUBSET (0..tail) /\ Emptied # {}
            BY <1>3, <3>1 DEF Emptied, Window, PruneFind, CanPrune
        <3>3. Max(Emptied) \in 0..tail
            BY <3>1, <3>2, MaxIs
        <3> QED
            BY <1>3, <3>1, <3>3 DEF PruneFind
    <2>4. RecordTypes' /\ RecordInv' /\ NoRedoPanic'
        BY <2>2, <2>3 DEF CkptInv, RecordTypes, RecordInv, NoRedoPanic
    <2> QED
        BY <2>1, <2>2, <2>4 DEF Works
<1> QED
    BY <1>1, <1>2, <1>3 DEF PageWriter

\* The checkpointer leaves the queue and the pages alone.
CkptFrame == UNCHANGED <<wal, queueVars, memory, start, io, pr>>

\* Then what is said of them stays.
LEMMA FrameIs ==
    ASSUME CkptInv, CkptFrame
    PROVE  /\ \A x : AllFrom(x)' <=> AllFrom(x)
           /\ \A n, x : AllFromAt(n, x)' <=> AllFromAt(n, x)
           /\ \A n : (Gone(n)' <=> Gone(n)) /\ At(n)' = At(n)
           /\ \A n, p : Had(n, p)' <=> Had(n, p)
           /\ RecordInv'
<1>1. /\ Positions' = Positions /\ (\A n : At(n)' = At(n)) /\ head' = head /\ reclsn' = reclsn
      /\ \A p \in Pages : Lsn(p)' = Lsn(p) /\ \A n : In(p, n)' = In(p, n)
    BY DEF CkptFrame, queueVars, Positions, At, Lsn, In, Pending
<1>2. RecordInv'
    BY DEF CkptFrame, queueVars, RecordInv, CkptInv
<1>3. \A x : AllFrom(x)' <=> AllFrom(x)
    BY <1>1 DEF AllFrom
<1>4. \A n, x : AllFromAt(n, x)' <=> AllFromAt(n, x)
    BY <1>1 DEF AllFromAt
<1>5. \A n : Gone(n)' <=> Gone(n)
    BY <1>1 DEF Gone
<1>6. \A n, p : Had(n, p)' <=> Had(n, p)
    BY <1>1 DEF Had
<1> QED
    BY <1>1, <1>2, <1>3, <1>4, <1>5, <1>6

\* The types of what the checkpointer keeps.
LEMMA CkptTypes ==
    ASSUME CkptInv
    PROVE  /\ target \in Nat /\ found \in Nat /\ expected \in Nat /\ redo \in Nat
           /\ scan.at \in Nat /\ scan.buf \in Pages \cup {None} /\ scan.lsn \in Nat \cup {-1}
           /\ scan = [at |-> scan.at, buf |-> scan.buf, lsn |-> scan.lsn]
           /\ memory \in [Pages -> Nat] /\ unsynced \in [Pages -> Nat]
           /\ head \in Nat /\ tail \in Nat /\ head <= tail /\ reclsn \in Nat /\ wal \in Nat
BY RecordFacts, LsnTypes DEF CkptInv, RecordTypes

\* The walk has not begun, or has ended.
LEMMA NoScanInv ==
    ASSUME CkptInv, QueueInv', CkptFrame, scan' = NoScan
    PROVE  ScanInv' /\ scan' \in [at : Nat, buf : Pages \cup {None}, lsn : Nat \cup {-1}]
<1>1. Gone(0)
    BY LsnTypes DEF Gone, CkptInv
<1>2. Gone(0)' /\ tail' = tail /\ tail \in Nat
    BY <1>1, FrameIs, CkptTypes DEF CkptFrame, queueVars
<1>3. scan'.at = 0 /\ scan'.buf = None /\ scan'.lsn = -1
    BY DEF NoScan
<1> QED
    BY <1>2, <1>3 DEF ScanInv, NoScan

\* The walk begins at the head.
LEMMA ScanBegins ==
    ASSUME CkptInv, scan' = [NoScan EXCEPT !.at = head], cpc' \in Scans,
           UNCHANGED <<head, tail, slot>>
    PROVE  ScanInv' /\ scan' \in [at : Nat, buf : Pages \cup {None}, lsn : Nat \cup {-1}]
<1>1. scan' = [at |-> head, buf |-> None, lsn |-> -1]
    BY DEF NoScan
<1>2. PICK h \in Nat : h = head
    BY CkptTypes
<1>3. Gone(h)'
    <2>1. \A m \in Positions : ~(m < h)
        BY <1>2, CkptTypes DEF Positions
    <2>2. Positions' = Positions
        BY DEF Positions
    <2> QED
        BY <2>1, <2>2 DEF Gone
<1>4. scan'.at = h /\ scan'.buf = None /\ scan'.lsn = -1 /\ h <= tail'
    BY <1>1, <1>2, CkptTypes
<1> QED
    BY <1>1, <1>2, <1>3, <1>4 DEF ScanInv

\* A change that is not written is not older than what no page in the queue is below.
LEMMA MemoryFrom ==
    ASSUME CkptInv, NEW lsn \in Nat, AllFrom(lsn), NEW p \in Pages, memory[p] # 0
    PROVE  memory[p] >= lsn
<1>1. recLsn[p] # 0 /\ recLsn[p] <= memory[p] /\ recLsn[p] \in Nat /\ memory[p] \in Nat
    BY RecordFacts DEF CkptInv, RecordInv
<1>2. ~Pending(p)
    BY <1>1 DEF CkptInv, QueueInv, RingInv, PageInv
<1>3. recLsn[p] >= lsn
    BY <1>1, <1>2 DEF AllFrom, Lsn
<1> QED
    BY <1>1, <1>3

\* A redo point that is not set again stands.
LEMMA RedoStands ==
    ASSUME CkptInv, CkptFrame, redo' = redo, unsynced' = unsynced \/ unsynced' = memory
    PROVE  AllFrom(redo)' /\ UnsyncedFrom(redo)'
<1>1. PICK r \in Nat : r = redo
    BY CkptTypes
<1>2. AllFrom(r) /\ UnsyncedFrom(r)
    BY <1>1 DEF CkptInv, RedoInv
<1>3. AllFrom(r)' /\ UnsyncedFrom(r)' /\ redo' = r
    BY <1>1, <1>2, FrameIs, MemoryFrom DEF UnsyncedFrom
<1> QED
    BY <1>3

\* Full: the position to wait for.
LEMMA CkptReadTail == ASSUME CkptInv, QueueInv', ReadTail PROVE CkptInv'
<1>1. /\ cpc = "tail" /\ cpc' = "expect" /\ found' = tail /\ CkptFrame
      /\ UNCHANGED <<unsynced, target, scan, expected, redo, panic, memory>>
    BY DEF ReadTail, CkptFrame, pageVars, lockVars, backVars, writerVars
<1>2. scan = NoScan
    BY <1>1 DEF CkptInv, ScanInv, Scans
<1>3. ScanInv'
    BY <1>1, <1>2, NoScanInv
<1>4. PICK t \in Nat : t = target
    BY CkptTypes
<1>5. PICK f \in Nat : f = tail
    BY CkptTypes
<1>6. AllFromAt(f, t) /\ t <= reclsn /\ redo <= t /\ pr = NoPrune
    <2>1. t <= reclsn /\ redo <= t /\ pr = NoPrune
        BY <1>1, <1>4 DEF CkptInv, RedoInv, FullRuns
    <2>2. \A m \in Positions : ~(m >= f)
        BY <1>5, CkptTypes DEF Positions
    <2> QED
        BY <2>1, <2>2 DEF AllFromAt
<1>7. AllFromAt(f, t)' /\ AllFrom(redo)' /\ UnsyncedFrom(redo)' /\ RecordInv'
    BY <1>1, <1>6, FrameIs, RedoStands
<1>8. RedoInv'
    <2>1. reclsn' = reclsn /\ pr' = pr
        BY <1>1 DEF CkptFrame, queueVars
    <2> QED
        BY <1>1, <1>4, <1>5, <1>6, <1>7, <2>1 DEF RedoInv, FullRuns
<1>9. RecordTypes' /\ NoRedoPanic'
    BY <1>1, CkptTypes DEF CkptInv, RecordTypes, NoRedoPanic
<1> QED
    BY <1>3, <1>7, <1>8, <1>9 DEF CkptInv

\* Full: it is written.
LEMMA CkptWriteExpected == ASSUME CkptInv, QueueInv', WriteExpected PROVE CkptInv'
<1>1. /\ cpc = "expect" /\ cpc' = "wait" /\ expected' = found /\ found' = 0 /\ CkptFrame
      /\ UNCHANGED <<unsynced, target, scan, redo, panic, memory>>
    BY DEF WriteExpected, CkptFrame, pageVars, lockVars, backVars, writerVars
<1>2. scan = NoScan
    BY <1>1 DEF CkptInv, ScanInv, Scans
<1>3. ScanInv'
    BY <1>1, <1>2, NoScanInv
<1>4. PICK t \in Nat : t = target
    BY CkptTypes
<1>5. PICK f \in Nat : f = found
    BY CkptTypes
<1>6. AllFromAt(f, t) /\ t <= reclsn /\ redo <= t /\ pr = NoPrune
    BY <1>1, <1>4, <1>5 DEF CkptInv, RedoInv, FullRuns
<1>7. AllFromAt(f, t)' /\ AllFrom(redo)' /\ UnsyncedFrom(redo)' /\ RecordInv'
    BY <1>1, <1>6, FrameIs, RedoStands
<1>8. RedoInv'
    <2>1. reclsn' = reclsn /\ pr' = pr
        BY <1>1 DEF CkptFrame, queueVars
    <2> QED
        BY <1>1, <1>4, <1>5, <1>6, <1>7, <2>1 DEF RedoInv, FullRuns
<1>9. RecordTypes' /\ NoRedoPanic'
    BY <1>1, CkptTypes DEF CkptInv, RecordTypes, NoRedoPanic
<1> QED
    BY <1>3, <1>7, <1>8, <1>9 DEF CkptInv

\* Full: CheckPointBuffers returns.  What was in the queue when the redo point was taken has left
\* it, and what has entered it since is not older.
LEMMA CkptEndWait == ASSUME CkptInv, QueueInv', EndWait PROVE CkptInv'
<1>1. /\ cpc = "wait" /\ cpc' = "scan3" /\ Flushed /\ unsynced' = memory /\ CkptFrame
      /\ scan' = [NoScan EXCEPT !.at = head]
      /\ UNCHANGED <<target, found, expected, redo, panic, memory>>
    BY DEF EndWait, CkptFrame, lockVars, backVars, writerVars
<1>2. ScanInv' /\ scan' \in [at : Nat, buf : Pages \cup {None}, lsn : Nat \cup {-1}]
    BY <1>1, ScanBegins DEF CkptFrame, queueVars, Scans
<1>3. PICK t \in Nat : t = target
    BY CkptTypes
<1>4. AllFromAt(expected, t) /\ t <= reclsn /\ redo <= t /\ pr = NoPrune
    BY <1>1, <1>3 DEF CkptInv, RedoInv, FullRuns
<1>5. AllFrom(t)
    <2>1. ASSUME NEW p \in Pages, Lsn(p) # 0 PROVE Lsn(p) >= t
        <3>1. PICK n \in Positions : In(p, n)
            BY <2>1, HasPosition DEF CkptInv
        <3>2. n >= expected
            BY <1>1, <3>1, CkptTypes DEF Flushed, DirtyPageNum, Positions
        <3> QED
            BY <1>4, <3>1, <3>2 DEF AllFromAt
    <2> QED
        BY <1>4, <2>1 DEF AllFrom
<1>6. AllFrom(t)' /\ UnsyncedFrom(t)'
    BY <1>1, <1>5, FrameIs, MemoryFrom DEF UnsyncedFrom
<1>7. AllFrom(redo)' /\ UnsyncedFrom(redo)' /\ RecordInv'
    BY <1>1, FrameIs, RedoStands
<1>8. RedoInv'
    <2>1. reclsn' = reclsn /\ pr' = pr
        BY <1>1 DEF CkptFrame, queueVars
    <2> QED
        BY <1>1, <1>3, <1>4, <1>6, <1>7, <2>1 DEF RedoInv, FullRuns
<1>9. RecordTypes' /\ NoRedoPanic'
    BY <1>1, <1>2, CkptTypes DEF CkptInv, RecordTypes, NoRedoPanic
<1> QED
    BY <1>2, <1>7, <1>8, <1>9 DEF CkptInv

\* Incremental: the queue was empty, its recovery LSN is read.
LEMMA CkptReadQueue == ASSUME CkptInv, QueueInv', ReadQueueRecLsn PROVE CkptInv'
<1>1. /\ cpc' = "scan2" /\ found' = reclsn /\ CkptFrame
      /\ scan' = [NoScan EXCEPT !.at = head]
      /\ UNCHANGED <<unsynced, target, expected, redo, panic, memory>>
    BY DEF ReadQueueRecLsn, CkptFrame, pageVars, lockVars, backVars, writerVars
<1>2. ScanInv' /\ scan' \in [at : Nat, buf : Pages \cup {None}, lsn : Nat \cup {-1}]
    BY <1>1, ScanBegins DEF CkptFrame, queueVars, Scans
<1>3. AllFrom(redo)' /\ UnsyncedFrom(redo)' /\ RecordInv'
    BY <1>1, FrameIs, RedoStands
<1>4. reclsn' = reclsn /\ redo' = redo /\ redo <= reclsn /\ reclsn \in Nat
    BY <1>1, CkptTypes DEF CkptFrame, queueVars, CkptInv, RedoInv, AllFrom
<1>5. RedoInv'
    BY <1>1, <1>3, <1>4 DEF RedoInv, FullRuns
<1>6. RecordTypes' /\ NoRedoPanic'
    BY <1>1, <1>2, CkptTypes DEF CkptInv, RecordTypes, NoRedoPanic
<1> QED
    BY <1>2, <1>3, <1>5, <1>6 DEF CkptInv

\* Incremental: the control file gets the redo point.
LEMMA CkptSetRedo == ASSUME CkptInv, QueueInv', SetRedo PROVE CkptInv'
<1>1. /\ cpc = "sync" /\ cpc' = "idle" /\ unsynced' = memory /\ redo' = target /\ CkptFrame
      /\ UNCHANGED <<target, scan, found, expected, panic, memory>>
    BY DEF SetRedo, CkptFrame, lockVars, backVars, writerVars
<1>2. scan = NoScan
    BY <1>1 DEF CkptInv, ScanInv, Scans
<1>3. ScanInv' /\ RecordInv'
    BY <1>1, <1>2, NoScanInv, FrameIs
<1>4. PICK t \in Nat : t = target
    BY CkptTypes
<1>5. AllFrom(t)
    BY <1>1, <1>4 DEF CkptInv, RedoInv
<1>6. AllFrom(t)' /\ UnsyncedFrom(t)' /\ redo' = t
    BY <1>1, <1>4, <1>5, FrameIs, MemoryFrom DEF UnsyncedFrom
<1>7. RedoInv'
    BY <1>1, <1>6 DEF RedoInv, FullRuns
<1>8. RecordTypes' /\ NoRedoPanic'
    BY <1>1, CkptTypes DEF CkptInv, RecordTypes, NoRedoPanic
<1> QED
    BY <1>3, <1>7, <1>8 DEF CkptInv

\* CreateCheckPoint begins: the recovery LSN of the queue is raised before a full checkpoint
\* reads the tail, so that pages dirtied later do not fall below its redo point.
LEMMA CkptStart ==
    ASSUME Apart, CkptInv, QueueInv', NEW k \in Kinds, Start(k)
    PROVE  CkptInv'
<1>1. /\ cpc = "idle" /\ target' = wal + 1
      /\ UNCHANGED <<wal, head, tail, slot, recLsn, loc, pend, memory, unsynced, io, start, pr, found,
                     expected, redo, panic>>
    BY DEF Start, pageVars, lockVars, backVars, writerVars
<1>2. /\ wal \in Nat /\ reclsn \in Nat /\ reclsn <= wal + 1 /\ reclsn' \in {reclsn, wal + 1}
      /\ k = "full" => reclsn' = wal + 1
    BY RecordFacts DEF Start, RaiseRecLsn
<1>3. QueueStays /\ reclsn' <= wal + 1
    BY <1>1, <1>2 DEF QueueStays
<1>4. Carries
    BY <1>3, StaysCarries DEF CkptInv
<1>5. PICK r \in Nat : r = redo
    BY CkptTypes
<1>6. AllFrom(r)' /\ UnsyncedFrom(r)' /\ r <= wal + 1
    <2>1. AllFrom(r) /\ UnsyncedFrom(r) /\ r <= reclsn
        BY <1>5 DEF CkptInv, RedoInv, AllFrom
    <2> QED
        BY <1>1, <1>2, <1>4, <2>1, AllFromStays DEF CkptInv, UnsyncedFrom
<1>7. RecordInv'
    BY <1>1, <1>3 DEF CkptInv, RecordInv
<1>8. CASE k = "full"
    <2>1. cpc' = "tail" /\ scan' = scan /\ pr = NoPrune
        BY <1>8 DEF Start, Apart, FullRuns
    <2>2. scan = NoScan
        BY <1>1 DEF CkptInv, ScanInv, Scans
    <2>3. ScanInv'
        <3>1. scan'.at = 0 /\ scan'.buf = None /\ scan'.lsn = -1 /\ tail' \in Nat
            BY <1>1, <2>1, <2>2, CkptTypes DEF NoScan
        <3>2. Gone(0)'
            <4>1. \A m \in Positions : ~(m < 0)
                BY CkptTypes DEF Positions
            <4>2. Positions' = Positions
                BY <1>1 DEF Positions
            <4> QED
                BY <4>1, <4>2 DEF Gone
        <3> QED
            BY <2>1, <2>2, <3>1, <3>2 DEF ScanInv
    <2>4. RedoInv'
        BY <1>1, <1>2, <1>5, <1>6, <1>8, <2>1 DEF RedoInv, FullRuns
    <2>5. RecordTypes' /\ NoRedoPanic'
        BY <1>1, <1>2, <2>1 DEF CkptInv, RecordTypes, NoRedoPanic
    <2> QED
        BY <1>7, <2>3, <2>4, <2>5 DEF CkptInv
<1>9. CASE k # "full"
    <2>1. cpc' = "scan1" /\ scan' = [NoScan EXCEPT !.at = head]
        BY <1>9 DEF Start
    <2>2. ScanInv' /\ scan' \in [at : Nat, buf : Pages \cup {None}, lsn : Nat \cup {-1}]
        BY <1>1, <2>1, ScanBegins DEF Scans
    <2>3. RedoInv'
        BY <1>1, <1>5, <1>6, <2>1 DEF RedoInv, FullRuns
    <2>4. RecordTypes' /\ NoRedoPanic'
        BY <1>1, <1>2, <2>2 DEF CkptInv, RecordTypes, NoRedoPanic
    <2> QED
        BY <1>7, <2>2, <2>3, <2>4 DEF CkptInv
<1> QED
    BY <1>8, <1>9

\* ckpt_get_min_rec_lsn returns lsn, and no page in the queue is below it.
LEMMA CkptEndScan ==
    ASSUME CkptInv, QueueInv', CkptFrame, cpc \in Scans, UNCHANGED <<unsynced, expected>>,
           NEW lsn \in Nat, EndScan(lsn), panic = "none",
           lsn # 0 => AllFrom(lsn) /\ lsn >= Floor,
           lsn = 0 => \A p \in Pages : Lsn(p) = 0
    PROVE  CkptInv'
<1>1. ScanInv' /\ scan' \in [at : Nat, buf : Pages \cup {None}, lsn : Nat \cup {-1}] /\ RecordInv'
    BY NoScanInv, FrameIs DEF EndScan
<1>2. reclsn' = reclsn /\ memory' = memory /\ pr' = pr
    BY DEF CkptFrame, queueVars
<1>3. /\ target \in Nat /\ found \in Nat /\ redo \in Nat /\ reclsn \in Nat
      /\ expected' \in Nat /\ memory' \in [Pages -> Nat] /\ unsynced' \in [Pages -> Nat]
    BY <1>2, CkptTypes
<1>4. ASSUME NEW m \in Nat, AllFrom(m), redo <= m, Decide(m), redo' = redo, found' \in Nat
      PROVE  CkptInv'
    <2>1. /\ \/ cpc' = "idle" /\ target' = target
             \/ cpc' = "sync" /\ target' = m
          /\ panic' = panic
        BY <1>3, <1>4 DEF Decide
    <2>2. AllFrom(m)' /\ AllFrom(redo)' /\ UnsyncedFrom(redo)'
        BY <1>4, FrameIs, RedoStands
    <2>3. RedoInv'
        BY <2>1, <2>2 DEF RedoInv, FullRuns
    <2>4. RecordTypes' /\ NoRedoPanic'
        BY <1>1, <1>3, <1>4, <2>1 DEF CkptInv, RecordTypes, NoRedoPanic
    <2> QED
        BY <1>1, <2>3, <2>4 DEF CkptInv
<1>5. CASE cpc = "scan1" /\ lsn = 0
    <2>1. cpc' = "queue" /\ UNCHANGED <<target, found, redo, panic>>
        BY <1>5 DEF EndScan
    <2>2. RedoInv'
        BY <2>1, RedoStands DEF RedoInv, FullRuns
    <2>3. RecordTypes' /\ NoRedoPanic'
        BY <1>1, <1>3, <2>1 DEF CkptInv, RecordTypes, NoRedoPanic
    <2> QED
        BY <1>1, <2>2, <2>3 DEF CkptInv
<1>6. CASE cpc = "scan1" /\ lsn # 0
    <2>1. Decide(lsn) /\ UNCHANGED <<found, redo>>
        BY <1>6 DEF EndScan
    <2> QED
        BY <1>3, <1>4, <1>6, <2>1 DEF Floor
<1>7. CASE cpc = "scan2"
    <2>1. PICK m \in Nat : m = IF lsn = 0 \/ found < lsn THEN found ELSE lsn
        BY <1>3
    <2>2. Decide(m) /\ found' = 0 /\ redo' = redo
        BY <1>7, <2>1 DEF EndScan
    <2>3. found <= reclsn /\ redo <= found
        BY <1>7 DEF CkptInv, RedoInv
    <2>4. AllFrom(m) /\ redo <= m
        <3>1. CASE lsn = 0
            BY <2>1, <2>3, <3>1 DEF AllFrom
        <3>2. CASE lsn # 0
            <4>1. AllFrom(lsn) /\ lsn >= redo /\ m <= lsn /\ m <= reclsn /\ redo <= m
                BY <1>3, <1>7, <2>1, <2>3, <3>2 DEF Floor, AllFrom
            <4>2. \A p \in Pages : Lsn(p) \in Nat
                BY LsnTypes DEF CkptInv
            <4> QED
                BY <4>1, <4>2 DEF AllFrom
        <3> QED
            BY <3>1, <3>2
    <2> QED
        BY <1>4, <2>2, <2>4
<1>8. CASE cpc = "scan3"
    <2>1. ~(lsn # 0 /\ lsn < target)
        BY <1>3, <1>8 DEF Floor
    <2>2. cpc' = "idle" /\ redo' = target /\ UNCHANGED <<target, found, panic>>
        BY <1>8, <2>1 DEF EndScan
    <2>3. PICK t \in Nat : t = target
        BY <1>3
    <2>4. AllFrom(t) /\ UnsyncedFrom(t)
        BY <1>8, <2>3 DEF CkptInv, RedoInv
    <2>5. AllFrom(t)' /\ UnsyncedFrom(t)' /\ redo' = t
        BY <2>2, <2>3, <2>4, FrameIs DEF UnsyncedFrom
    <2>6. RedoInv'
        BY <2>2, <2>5 DEF RedoInv, FullRuns
    <2>7. RecordTypes' /\ NoRedoPanic'
        BY <1>1, <1>3, <2>2 DEF CkptInv, RecordTypes, NoRedoPanic
    <2> QED
        BY <1>1, <2>6, <2>7 DEF CkptInv
<1> QED
    BY <1>5, <1>6, <1>7, <1>8 DEF Scans

\* A step of the walk that does not end it.
LEMMA CkptWalks ==
    ASSUME CkptInv, QueueInv', CkptFrame, ScanInv',
           UNCHANGED <<unsynced, cpc, target, found, expected, redo, panic>>,
           scan' \in [at : Nat, buf : Pages \cup {None}, lsn : Nat \cup {-1}]
    PROVE  CkptInv'
<1>1. RecordTypes' /\ NoRedoPanic'
    BY DEF CkptInv, CkptFrame, RecordTypes, NoRedoPanic
<1>2. RedoInv'
    <2>1. \A x : (AllFrom(x)' <=> AllFrom(x)) /\ (UnsyncedFrom(x)' <=> UnsyncedFrom(x))
        BY FrameIs DEF UnsyncedFrom
    <2>2. \A n, x : AllFromAt(n, x)' <=> AllFromAt(n, x)
        BY FrameIs
    <2>3. reclsn' = reclsn /\ pr' = pr /\ FullRuns' = FullRuns
        BY DEF CkptFrame, queueVars, FullRuns
    <2>4. RedoInv
        BY DEF CkptInv
    <2> QED
        BY <2>1, <2>2, <2>3, <2>4 DEF RedoInv
<1> QED
    BY <1>1, <1>2, FrameIs DEF CkptInv

\* A slot behind the head is empty, as long as the ring does not go round.
LEMMA BehindHead ==
    ASSUME QueueInv, NEW n \in Nat, n < head, tail < n + 1 + Size
    PROVE  At(n) = Empty
<1>1. head \in Nat /\ tail \in Nat /\ Size \in Nat \ {0}
    BY LsnTypes, Sizes
<1>2. ASSUME NEW m \in Positions PROVE Index(m) # Index(n)
    <2>1. m \in Nat /\ n < m /\ m < n + Size
        BY <1>1 DEF Positions
    <2>2. n < m + Size
        BY <1>1, <2>1
    <2> QED
        BY <2>1, <2>2, SameIndex DEF Index
<1>3. Index(n) \in 0..Size - 1
    BY IndexOf DEF Index
<1> QED
    BY <1>2, <1>3 DEF QueueInv, RingInv, SlotInv, At, Index

\* ckpt_get_min_rec_lsn reads the rec_lsn of a page.
LEMMA CkptScanRecLsn == ASSUME CkptInv, QueueInv', ScanRecLsn PROVE CkptInv'
<1>1. /\ scan.buf # None /\ scan.lsn = -1 /\ scan' = [scan EXCEPT !.lsn = recLsn[scan.buf]]
      /\ CkptFrame /\ UNCHANGED <<unsynced, cpc, target, found, expected, redo, panic>>
    BY DEF ScanRecLsn, CkptFrame, pageVars, lockVars, backVars, writerVars
<1>2. PICK p \in Pages : p = scan.buf
    BY <1>1, CkptTypes
<1>3. PICK n \in Nat : scan.at = n + 1
    <2>1. scan.at \in Nat /\ scan.at > 0
        BY <1>1, CkptTypes DEF CkptInv, ScanInv
    <2>2. scan.at - 1 \in Nat /\ scan.at = (scan.at - 1) + 1
        BY <2>1
    <2> QED
        BY <2>2
<1>4. scan' = [at |-> n + 1, buf |-> p, lsn |-> recLsn[p]] /\ recLsn[p] \in Nat
    BY <1>1, <1>2, <1>3, CkptTypes, RecordFacts
<1>5. Gone(n) /\ Had(n, p) /\ n + 1 <= tail /\ cpc \in Scans /\ scan.at - 1 = n
    BY <1>1, <1>2, <1>3 DEF CkptInv, ScanInv, NoScan
<1>6. recLsn[p] = 0 \/ recLsn[p] >= Floor
    <2>1. recLsn[p] # 0 => ~Pending(p)
        BY DEF CkptInv, QueueInv, RingInv, PageInv
    <2>2. AllFrom(Floor)
        BY DEF CkptInv, RedoInv, Floor
    <2> QED
        BY <2>1, <2>2 DEF AllFrom, Lsn
<1>7. ScanInv'
    <2>1. /\ scan'.at = n + 1 /\ scan'.buf = p /\ scan'.lsn = recLsn[p] /\ scan'.at - 1 = n
          /\ scan'.at > 0 /\ p # None
        BY <1>4, Sizes
    <2>2. Gone(n)' /\ Had(n, p)'
        BY <1>1, <1>5, FrameIs
    <2>3. recLsn' = recLsn /\ tail' = tail /\ cpc' = cpc /\ Floor' = Floor
        BY <1>1 DEF CkptFrame, queueVars, Floor
    <2> QED
        BY <1>5, <1>6, <2>1, <2>2, <2>3 DEF ScanInv
<1>8. scan' \in [at : Nat, buf : Pages \cup {None}, lsn : Nat \cup {-1}]
    BY <1>4
<1> QED
    BY <1>1, <1>7, <1>8, CkptWalks

\* ckpt_get_min_rec_lsn looks at a slot.
LEMMA CkptScanSlot ==
    ASSUME CkptInv, QueueInv', Unlapped, ScanSlot, panic = "none"
    PROVE  CkptInv'
<1>1. /\ cpc \in Scans /\ scan.buf = None /\ CkptFrame /\ UNCHANGED <<unsynced, expected>>
    BY DEF ScanSlot, CkptFrame, Scans, pageVars, lockVars, backVars, writerVars
<1>2. PICK n \in Nat : n = scan.at
    BY CkptTypes
<1>3. Gone(n) /\ scan.lsn = -1 /\ n <= tail
    BY <1>1, <1>2 DEF CkptInv, ScanInv
<1>4. /\ head \in Nat /\ tail \in Nat /\ head <= tail /\ Size \in Nat
      /\ scan = [at |-> n, buf |-> None, lsn |-> -1]
    BY <1>1, <1>2, <1>3, CkptTypes, Sizes
<1>5. CASE n >= tail
    <2>1. EndScan(0)
        BY <1>2, <1>5 DEF ScanSlot
    <2>2. ASSUME NEW p \in Pages PROVE Lsn(p) = 0
        <3>1. ASSUME NEW m \in Positions PROVE ~In(p, m)
            <4>1. At(m).valid /\ At(m).buf # p
                BY <1>3, <1>4, <1>5, Sizes DEF Gone, Positions
            <4>2. Pending(p) => ~At(pend[p].at).valid
                BY DEF CkptInv, QueueInv, RingInv, PageInv
            <4> QED
                BY <4>1, <4>2 DEF In
        <3> QED
            BY <3>1, HasPosition DEF CkptInv
    <2> QED
        BY <1>1, <2>1, <2>2, CkptEndScan
<1>6. CASE ~(n >= tail)
    <2>1. /\ UNCHANGED <<cpc, target, found, redo, panic>>
          /\ scan' = IF At(n).valid THEN [scan EXCEPT !.at = n + 1, !.buf = At(n).buf]
                                    ELSE [scan EXCEPT !.at = head]
        BY <1>2, <1>6 DEF ScanSlot
    <2>2. CASE At(n).valid
        <3>1. PICK x : x = At(n).buf
            OBVIOUS
        <3>2. scan' = [at |-> n + 1, buf |-> x, lsn |-> -1]
            BY <1>4, <2>1, <2>2, <3>1
        <3>3. n >= head
            <4>1. tail < n + Size
                BY <1>1, <1>2 DEF Unlapped
            <4>2. tail < n + 1 + Size
                BY <1>4, <4>1
            <4>3. n < head => At(n) = Empty
                BY <4>2, BehindHead DEF CkptInv
            <4> QED
                BY <1>4, <2>2, <4>3 DEF Empty
        <3>4. n \in Positions /\ n + 1 <= tail /\ x \in Pages \cup {None}
            <4>1. n \in Positions /\ n + 1 <= tail
                BY <1>4, <1>6, <3>3 DEF Positions
            <4> QED
                BY <3>1, <4>1, LsnTypes DEF CkptInv
        <3>5. Gone(n)' /\ At(n)' = At(n) /\ head' = head /\ tail' = tail /\ Positions' = Positions
            BY <1>1, <1>3, FrameIs DEF CkptFrame, queueVars, Positions
        <3>6. ScanInv'
            <4>1. /\ scan'.at = n + 1 /\ scan'.buf = x /\ scan'.lsn = -1 /\ scan'.at > 0
                  /\ scan'.at - 1 = n
                BY <3>2
            <4>2. CASE x = None
                <5>1. \A m \in Positions : m < n + 1 => m < n \/ m = n
                    BY <1>4 DEF Positions
                <5>2. PICK k \in Nat : k = n + 1
                    OBVIOUS
                <5>3. Gone(k)'
                    BY <2>2, <3>1, <3>5, <4>2, <5>1, <5>2 DEF Gone
                <5> QED
                    BY <1>1, <2>1, <3>4, <3>5, <4>1, <4>2, <5>2, <5>3 DEF ScanInv
            <4>3. CASE x # None
                <5>1. Had(n, x)'
                    BY <2>2, <3>1, <3>5 DEF Had
                <5> QED
                    BY <1>1, <2>1, <3>4, <3>5, <4>1, <4>3, <5>1 DEF ScanInv
            <4> QED
                BY <4>2, <4>3
        <3>7. scan' \in [at : Nat, buf : Pages \cup {None}, lsn : Nat \cup {-1}]
            BY <3>2, <3>4
        <3> QED
            BY <1>1, <2>1, <3>6, <3>7, CkptWalks
    <2>3. CASE ~At(n).valid
        <3>1. scan' = [NoScan EXCEPT !.at = head]
            BY <1>4, <2>1, <2>3 DEF NoScan
        <3>2. ScanInv' /\ scan' \in [at : Nat, buf : Pages \cup {None}, lsn : Nat \cup {-1}]
            BY <1>1, <2>1, <3>1, ScanBegins DEF CkptFrame, queueVars
        <3> QED
            BY <1>1, <2>1, <3>2, CkptWalks
    <2> QED
        BY <2>2, <2>3
<1> QED
    BY <1>5, <1>6

\* ckpt_get_min_rec_lsn looks at the slot again: a page that is still there is the first of the
\* queue, and its rec_lsn is the one that was read.
LEMMA CkptScanAgain ==
    ASSUME CkptInv, QueueInv', Unlapped, ScanAgain, panic = "none"
    PROVE  CkptInv'
<1>1. /\ scan.buf # None /\ scan.lsn # -1 /\ CkptFrame /\ UNCHANGED <<unsynced, expected>>
    BY DEF ScanAgain, CkptFrame, pageVars, lockVars, backVars, writerVars
<1>2. PICK p \in Pages : p = scan.buf
    BY <1>1, CkptTypes
<1>3. PICK n \in Nat : scan.at = n + 1
    <2>1. scan.at \in Nat /\ scan.at > 0
        BY <1>1, CkptTypes DEF CkptInv, ScanInv
    <2>2. scan.at - 1 \in Nat /\ scan.at = (scan.at - 1) + 1
        BY <2>1
    <2> QED
        BY <2>2
<1>4. PICK lsn \in Nat : lsn = scan.lsn
    BY <1>1, CkptTypes
<1>5. /\ Gone(n) /\ Had(n, p) /\ n + 1 <= tail /\ cpc \in Scans /\ scan.at - 1 = n
      /\ lsn = 0 \/ lsn >= Floor
      /\ n >= head /\ At(n).buf # None => lsn = recLsn[p]
    BY <1>1, <1>2, <1>3, <1>4 DEF CkptInv, ScanInv, NoScan
<1>6. head \in Nat /\ tail \in Nat /\ Size \in Nat
    BY CkptTypes, Sizes
<1>7. n >= head \/ At(n).buf = None
    <2>1. tail < n + 1 + Size
        BY <1>3, <1>5 DEF Unlapped
    <2>2. n < head => At(n) = Empty
        BY <2>1, BehindHead DEF CkptInv
    <2> QED
        BY <1>6, <2>2 DEF Empty
<1>8. CASE At(n).buf # None /\ lsn # 0
    <2>1. EndScan(lsn)
        BY <1>4, <1>5, <1>8 DEF ScanAgain, StillInSlot
    <2>2. /\ n >= head /\ n \in Positions /\ At(n).buf = p /\ At(n).valid /\ lsn = recLsn[p]
        BY <1>5, <1>6, <1>7, <1>8 DEF Had, Positions
    <2>3. In(p, n) /\ ~Pending(p) /\ Lsn(p) = lsn /\ lsn <= reclsn
        <3>1. In(p, n)
            BY <2>2 DEF In
        <3>2. ~Pending(p)
            BY <2>2, <3>1, InQueue DEF CkptInv, QueueInv
        <3> QED
            BY <2>2, <3>1, <3>2, LsnTypes DEF Lsn, CkptInv
    <2>4. ASSUME NEW q \in Pages, Lsn(q) # 0 PROVE Lsn(q) >= lsn
        <3>1. PICK m \in Positions : In(q, m)
            BY <2>4, HasPosition DEF CkptInv
        <3>2. CASE m < n
            <4>1. At(m).valid /\ At(m).buf = None /\ q # None
                BY <1>5, <3>1, <3>2, Sizes DEF Gone
            <4>2. Pending(q) => ~At(pend[q].at).valid
                BY DEF CkptInv, QueueInv, RingInv, PageInv
            <4> QED
                BY <3>1, <4>1, <4>2 DEF In
        <3>3. CASE m = n
            <4>1. Pending(q) => ~At(pend[q].at).valid
                BY DEF CkptInv, QueueInv, RingInv, PageInv
            <4>2. q = p
                BY <2>2, <3>1, <3>3, <4>1 DEF In
            <4> QED
                BY <2>3, <4>2
        <3>4. CASE n < m
            <4>1. Lsn(p) <= Lsn(q) /\ Lsn(q) \in Nat
                BY <2>2, <2>3, <3>1, <3>4, LsnTypes DEF CkptInv, QueueInv, OrderInv
            <4> QED
                BY <2>3, <4>1
        <3>5. m \in Nat
            BY <1>6, <3>1 DEF Positions
        <3> QED
            BY <3>2, <3>3, <3>4, <3>5
    <2>5. AllFrom(lsn) /\ lsn >= Floor
        BY <1>5, <1>8, <2>3, <2>4 DEF AllFrom
    <2> QED
        BY <1>1, <1>5, <1>8, <2>1, <2>5, CkptEndScan
<1>9. CASE ~(At(n).buf # None /\ lsn # 0)
    <2>1. /\ UNCHANGED <<cpc, target, found, redo, panic>>
          /\ scan' = [scan EXCEPT !.buf = None, !.lsn = -1]
        BY <1>4, <1>5, <1>9 DEF ScanAgain, StillInSlot
    <2>2. scan' = [at |-> n + 1, buf |-> None, lsn |-> -1]
        BY <1>3, <2>1, CkptTypes
    <2>3. n >= head => At(n).valid /\ At(n).buf = None
        <3>1. ASSUME n >= head, At(n).buf # None PROVE FALSE
            <4>1. lsn = 0 /\ recLsn[p] = 0 /\ At(n).buf = p /\ n \in Positions
                BY <1>5, <1>6, <1>9, <3>1 DEF Had, Positions
            <4>2. In(p, n) /\ At(n).valid
                BY <1>5, <3>1, <4>1 DEF In, Had
            <4>3. Lsn(p) # 0 /\ ~Pending(p)
                BY <4>1, <4>2, InQueue DEF CkptInv, QueueInv
            <4> QED
                BY <4>1, <4>3 DEF Lsn
        <3> QED
            BY <1>5, <3>1 DEF Had
    <2>4. PICK k \in Nat : k = n + 1
        OBVIOUS
    <2>5. Gone(k)
        <3>1. \A m \in Positions : m < k => m < n \/ (m = n /\ n >= head)
            BY <1>6, <2>4 DEF Positions
        <3> QED
            BY <1>5, <2>3, <3>1 DEF Gone
    <2>6. Gone(k)' /\ tail' = tail
        BY <1>1, <2>5, FrameIs DEF CkptFrame, queueVars
    <2>7. ScanInv'
        <3>1. scan'.at = k /\ scan'.buf = None /\ scan'.lsn = -1
            BY <2>2, <2>4
        <3> QED
            BY <1>5, <2>1, <2>4, <2>6, <3>1 DEF ScanInv
    <2>8. scan' \in [at : Nat, buf : Pages \cup {None}, lsn : Nat \cup {-1}]
        BY <2>2
    <2> QED
        BY <1>1, <2>1, <2>7, <2>8, CkptWalks
<1> QED
    BY <1>8, <1>9

\* A checkpoint begins or goes on.
LEMMA CkptGoesOn ==
    ASSUME Apart, CkptInv, Unlapped, panic = "none", Checkpointer \/ \E k \in Kinds : Start(k)
    PROVE  CkptInv'
<1>1. QueueInv'
    BY QueueCkpt DEF CkptInv
<1> QED
    BY <1>1, CkptReadTail, CkptWriteExpected, CkptEndWait, CkptReadQueue, CkptScanSlot,
       CkptScanRecLsn, CkptScanAgain, CkptSetRedo, CkptStart DEF Checkpointer

\* Nothing happens.
LEMMA CkptRests == ASSUME CkptInv, UNCHANGED vars PROVE CkptInv'
<1>1. QueueInv'
    BY QueueMovesOn DEF CkptInv
<1>2. QueueStays
    BY <1>1, RecordFacts DEF vars, queueVars, QueueStays
<1>3. Carries /\ Appends
    BY <1>2, StaysCarries DEF CkptInv
<1>4. Works
    BY WorksQuiet DEF vars, queueVars, pageVars, lockVars, backVars, writerVars
<1> QED
    BY <1>1, <1>3, <1>4, WorksKeeps

\* Every step keeps the invariant.
LEMMA CkptStep == CkptInv /\ Unlapped /\ [Next /\ Apart]_vars => CkptInv'
<1> SUFFICES ASSUME CkptInv, Unlapped, [Next /\ Apart]_vars PROVE CkptInv'
    OBVIOUS
<1>1. QueueInv /\ QueueInv'
    BY QueueStep DEF CkptInv
<1>2. CASE UNCHANGED vars
    BY <1>2, CkptRests
<1>3. ASSUME NEW b \in Backends, Begin(b) \/ Backend(b) PROVE CkptInv'
    BY <1>1, <1>3, BackendCarries, BackendWorks, WorksKeeps
<1>4. ASSUME NEW p \in Pages,
             MarkBufferDirtyHint(p) \/ FillHint(p) \/ InvalidateBuffer(p) \/ Thread(p)
      PROVE  CkptInv'
    BY <1>1, <1>4, PageCarries, PageWorks, WorksKeeps
<1>5. CASE Apart /\ PageWriter
    BY <1>1, <1>5, WriterCarries, WriterWorks, WorksKeeps
<1>6. CASE Apart /\ panic = "none" /\ (Checkpointer \/ \E k \in Kinds : Start(k))
    BY <1>6, CkptGoesOn
<1> QED
    BY <1>2, <1>3, <1>4, <1>5, <1>6 DEF Next

\* The initial state.
LEMMA CkptInit == Init => CkptInv
<1> SUFFICES ASSUME Init PROVE CkptInv
    OBVIOUS
<1>1. QueueInv
    BY QueueInit
<1>2. \A p \in Pages : Lsn(p) = 0
    BY DEF Init, Lsn, Pending
<1>3. RecordTypes /\ RecordInv /\ NoRedoPanic
    BY DEF Init, RecordTypes, RecordInv, NoRedoPanic, NoScan
<1>4. RedoInv
    BY <1>2 DEF Init, RedoInv, AllFrom, UnsyncedFrom, FullRuns
<1>5. ScanInv
    BY DEF Init, ScanInv, NoScan, Gone, Positions
<1> QED
    BY <1>1, <1>3, <1>4, <1>5 DEF CkptInv

\* The invariant holds as long as the ring does not go round under a walk.
LEMMA CkptInvariant == ApartSpec /\ []Unlapped => []CkptInv
BY CkptInit, CkptStep, PTL DEF ApartSpec

\* CreateCheckPoint: recovery from the redo point repeats every change that is not on disk.  The
\* recovery LSN of the first page is read while backends dirty pages, threads flush them, the head
\* moves and the queue is packed; the theorem is about servers in which packing and full
\* checkpoints exclude each other, and walks of the checkpointer that the tail does not overtake.
THEOREM RedoPointCovers == ApartSpec /\ []Unlapped => []RedoCovers
<1>1. CkptInv => RedoCovers
    BY DEF CkptInv, RedoInv, UnsyncedFrom, RedoCovers
<1> QED
    BY <1>1, CkptInvariant, PTL

\* CreateCheckPoint, ckpt_try_prune_dirty_page_queue: the only PANIC left is the one for a queue
\* without room; a redo point never falls back, no page stays behind a full checkpoint, and no
\* page is moved onto another one.
THEOREM OnlyRoomPanics == ApartSpec /\ []Unlapped => []NoRedoPanic
<1>1. CkptInv => NoRedoPanic
    BY DEF CkptInv
<1> QED
    BY <1>1, CkptInvariant, PTL

-----------------------------------------------------------------------------
(* Types and bounds. *)

\* Backends whose record is still to be written.
Writing == {c \in Backends : pc[c] \notin {"idle", "update"}}

\* The numbers of the records, and room in the WAL for what has begun.
WalInv ==
    /\ wal + Cardinality(Writing) <= MaxRecords
    /\ reclsn <= wal + 1
    /\ start \in [Backends -> 0..wal]
    /\ memory \in [Pages -> 0..wal] /\ unsynced \in [Pages -> 0..wal]

BoundTypes ==
    /\ held \in BOOLEAN /\ hints \in 0..MaxHints /\ ckpts \in 0..MaxCkpts
    /\ mpc \in {"main", "flush"}
    /\ cpc \in {"idle", "tail", "expect", "wait", "scan1", "queue", "scan2", "scan3", "sync"}
    /\ cpc \notin Scans => scan = NoScan
    /\ panic \in {"none", "repush", "prune", "regress", "behind"}

BoundInv == QueueInv /\ WalInv /\ BoundTypes

\* The backends whose record is to be written are a finite set.
LEMMA WritingCount ==
    ASSUME NEW S, S \subseteq Backends
    PROVE  /\ IsFiniteSet(S) /\ Cardinality(S) \in Nat
           /\ \A b \in Backends \ S : Cardinality(S \cup {b}) = Cardinality(S) + 1
           /\ \A b \in S : Cardinality(S \ {b}) = Cardinality(S) - 1
<1>1. IsFiniteSet(S)
    BY Sizes, FS_Subset
<1> QED
    BY <1>1, FS_CardinalityType, FS_AddElement, FS_RemoveElement

\* A step that leaves the WAL alone.
LEMMA WalStays ==
    ASSUME BoundInv, UNCHANGED <<wal, reclsn, start>>, Writing' = Writing,
           \A p \in Pages : memory'[p] \in {0, memory[p]} /\ unsynced'[p] \in {0, unsynced[p], memory[p]},
           memory' \in [Pages -> Nat], unsynced' \in [Pages -> Nat]
    PROVE  WalInv'
<1>1. wal \in Nat
    BY QueueTypes DEF BoundInv
<1>2. memory' \in [Pages -> 0..wal] /\ unsynced' \in [Pages -> 0..wal]
    BY <1>1 DEF BoundInv, WalInv
<1> QED
    BY <1>2 DEF BoundInv, WalInv

\* Facts for the steps.
LEMMA BoundFacts ==
    ASSUME BoundInv
    PROVE  /\ wal \in Nat /\ reclsn \in Nat /\ reclsn <= wal + 1 /\ QueueInv
           /\ memory \in [Pages -> Nat] /\ unsynced \in [Pages -> Nat]
           /\ pc \in [Backends -> {"idle", "lock", "fill", "update"}]
           /\ Writing \subseteq Backends /\ Cardinality(Writing) \in Nat
           /\ {MaxRecords, MaxHints, MaxCkpts} \subseteq Nat
<1>1. wal \in Nat /\ reclsn \in Nat /\ reclsn <= wal + 1 /\ QueueInv
    BY QueueTypes DEF BoundInv, WalInv
<1>2. memory \in [Pages -> Nat] /\ unsynced \in [Pages -> Nat]
    BY <1>1 DEF BoundInv, WalInv
<1>3. Writing \subseteq Backends
    BY DEF Writing
<1> QED
    BY <1>1, <1>2, <1>3, WritingCount, QueueTypes, QueueAssumption DEF BoundInv

\* A backend begins only when there is room for its record, and has one record.
LEMMA BoundBackend ==
    ASSUME BoundInv, NEW b \in Backends, Begin(b) \/ Backend(b)
    PROVE  WalInv' /\ BoundTypes'
<1>1. UNCHANGED <<held, hints, ckpts, mpc, cpc, scan, panic>>
    BY DEF Begin, Backend, LockBuffer, UpdateWaitLockid, Push, FillPushed, XLogInsert, UpdateRecLsn,
           backVars, writerVars, ckptVars
<1>2. BoundTypes'
    BY <1>1 DEF BoundInv, BoundTypes
<1>3. CASE Begin(b)
    <2>1. /\ pc[b] = "idle" /\ pc' = [pc EXCEPT ![b] = "lock"] /\ wal + Cardinality(Writing) < MaxRecords
          /\ UNCHANGED <<wal, reclsn, start, memory, unsynced>>
        BY <1>3 DEF Begin, Goto, Writing, queueVars, pageVars
    <2>2. Writing' = Writing \cup {b} /\ b \notin Writing
        BY <2>1, BoundFacts DEF Writing
    <2>3. Cardinality(Writing') = Cardinality(Writing) + 1
        BY <2>2, BoundFacts, WritingCount
    <2>4. wal' + Cardinality(Writing') <= MaxRecords
        BY <2>1, <2>3, BoundFacts
    <2> QED
        BY <1>2, <2>1, <2>4 DEF BoundInv, WalInv
<1>4. CASE LockBuffer(b) \/ UpdateWaitLockid(b)
    <2>1. UNCHANGED <<wal, reclsn, start, memory, unsynced, pc>>
        BY <1>4 DEF LockBuffer, UpdateWaitLockid, backVars, queueVars, pageVars
    <2>2. Writing' = Writing
        BY <2>1 DEF Writing
    <2> QED
        BY <1>2, <2>1, <2>2, WalStays, BoundFacts
<1>5. CASE Push(b) \/ FillPushed(b)
    <2>1. /\ UNCHANGED <<wal, reclsn, start, memory, unsynced>>
          /\ pc[b] \in {"lock", "fill"}
          /\ pc' = [pc EXCEPT ![b] = "fill"] \/ pc' = [pc EXCEPT ![b] = "lock"]
        BY <1>5 DEF Push, FillPushed, Goto, MayMark, TakeSlot, Fill, pageVars
    <2>2. Writing' = Writing
        BY <2>1, BoundFacts DEF Writing
    <2> QED
        BY <1>2, <2>1, <2>2, WalStays, BoundFacts
<1>6. CASE XLogInsert(b)
    <2>1. /\ pc[b] = "lock" /\ pc' = [pc EXCEPT ![b] = "update"] /\ wal' = wal + 1 /\ reclsn' = reclsn
          /\ start' = [start EXCEPT ![b] = wal + 1]
          /\ memory' = Owes(memory, want[b]) /\ unsynced' = Owes(unsynced, want[b])
        BY <1>6 DEF XLogInsert, Goto, queueVars
    <2>2. Writing' = Writing \ {b} /\ b \in Writing
        BY <2>1, BoundFacts DEF Writing
    <2>3. Cardinality(Writing') = Cardinality(Writing) - 1
        BY <2>2, BoundFacts, WritingCount
    <2>4. wal' + Cardinality(Writing') <= MaxRecords
        BY <2>1, <2>3, BoundFacts DEF BoundInv, WalInv
    <2>5. memory' \in [Pages -> 0..wal'] /\ unsynced' \in [Pages -> 0..wal']
        BY <2>1, BoundFacts DEF Owes, BoundInv, WalInv
    <2>6. start' \in [Backends -> 0..wal'] /\ reclsn' <= wal' + 1
        BY <2>1, BoundFacts DEF BoundInv, WalInv
    <2> QED
        BY <1>2, <2>4, <2>5, <2>6 DEF WalInv
<1>7. CASE UpdateRecLsn(b)
    <2>1. /\ pc[b] = "update" /\ pc' = [pc EXCEPT ![b] = "idle"] /\ UNCHANGED <<wal, memory, unsynced>>
          /\ start' = [start EXCEPT ![b] = 0] /\ reclsn' \in {reclsn, start[b]}
        BY <1>7 DEF UpdateRecLsn, Goto, RaiseRecLsn, pageVars
    <2>2. Writing' = Writing
        BY <2>1, BoundFacts DEF Writing
    <2>3. start' \in [Backends -> 0..wal'] /\ reclsn' <= wal' + 1
        BY <2>1, BoundFacts DEF BoundInv, WalInv
    <2> QED
        BY <1>2, <2>1, <2>2, <2>3 DEF BoundInv, WalInv
<1> QED
    BY <1>3, <1>4, <1>5, <1>6, <1>7 DEF Backend

\* Hint bits, dropped buffers and the threads of the page writer.
LEMMA BoundPage ==
    ASSUME BoundInv, NEW p \in Pages,
           MarkBufferDirtyHint(p) \/ FillHint(p) \/ InvalidateBuffer(p) \/ Thread(p)
    PROVE  WalInv' /\ BoundTypes'
<1>1. UNCHANGED <<wal, reclsn, start, pc, held, ckpts, mpc, cpc, scan>>
    BY DEF MarkBufferDirtyHint, FillHint, InvalidateBuffer, Thread, FlushStart, FlushEnd, Repush,
           FillRepushed, TakeSlot, Fill, RemoveDirtyPageFromQueue, queueVars, backVars, writerVars,
           ckptVars
<1>2. panic' \in {panic, "repush"}
    BY DEF MarkBufferDirtyHint, FillHint, InvalidateBuffer, Thread, FlushStart, FlushEnd, Repush,
           FillRepushed
<1>3. hints' = hints \/ (hints < MaxHints /\ hints' = hints + 1)
    BY DEF MarkBufferDirtyHint, FillHint, InvalidateBuffer, Thread, FlushStart, FlushEnd, Repush,
           FillRepushed, backVars
<1>4. BoundTypes'
    <2>1. hints' \in 0..MaxHints
        BY <1>3, BoundFacts DEF BoundInv, BoundTypes
    <2> QED
        BY <1>1, <1>2, <2>1 DEF BoundInv, BoundTypes
<1>5. /\ memory' \in {memory, [memory EXCEPT ![p] = 0]}
      /\ unsynced' \in {unsynced, [unsynced EXCEPT ![p] = 0]}
    BY DEF MarkBufferDirtyHint, FillHint, InvalidateBuffer, Thread, FlushStart, FlushEnd, Repush,
           FillRepushed, pageVars
<1>6. Writing' = Writing
    BY <1>1 DEF Writing
<1>7. /\ memory' \in [Pages -> Nat] /\ unsynced' \in [Pages -> Nat]
      /\ \A q \in Pages : memory'[q] \in {0, memory[q]} /\ unsynced'[q] \in {0, unsynced[q]}
    BY <1>5, BoundFacts
<1> QED
    BY <1>1, <1>4, <1>6, <1>7, WalStays

\* The main thread of the page writer.
LEMMA BoundWriter == ASSUME BoundInv, PageWriter PROVE WalInv' /\ BoundTypes'
<1>1. UNCHANGED <<wal, reclsn, start, pc, memory, unsynced, held, hints, ckpts, cpc, scan>>
    BY DEF PageWriter, MoveHead, Select, EndFlush, PruneFind, PruneMove, queueVars, pageVars,
           backVars, ckptVars
<1>2. panic' = panic
    BY PruneMoveRing
       DEF PageWriter, MoveHead, Select, EndFlush, PruneFind, BoundInv, QueueInv
<1>3. mpc' \in {mpc, "main", "flush"}
    BY DEF PageWriter, MoveHead, Select, EndFlush, PruneFind, PruneMove, writerVars
<1>4. Writing' = Writing
    BY <1>1 DEF Writing
<1> QED
    BY <1>1, <1>2, <1>3, <1>4, WalStays, BoundFacts DEF BoundInv, BoundTypes

\* The checkpointer.
LEMMA BoundCkpt ==
    ASSUME BoundInv, Checkpointer \/ \E k \in Kinds : Start(k)
    PROVE  WalInv' /\ BoundTypes'
<1>1. UNCHANGED <<wal, start, pc, memory, hints, mpc>>
    BY DEF Checkpointer, ReadTail, WriteExpected, EndWait, ReadQueueRecLsn, ScanSlot, ScanRecLsn,
           ScanAgain, SetRedo, Start, pageVars, backVars, writerVars
<1>2. unsynced' \in {unsynced, memory}
    BY DEF Checkpointer, ReadTail, WriteExpected, EndWait, ReadQueueRecLsn, ScanSlot, ScanRecLsn,
           ScanAgain, SetRedo, Start, pageVars
<1>3. Writing' = Writing
    BY <1>1 DEF Writing
<1>4. CASE Checkpointer
    <2>1. UNCHANGED <<reclsn, ckpts>>
        BY <1>4 DEF Checkpointer, ReadTail, WriteExpected, EndWait, ReadQueueRecLsn, ScanSlot,
           ScanRecLsn, ScanAgain, SetRedo, queueVars
    <2>2. WalInv'
        BY <1>1, <1>2, <1>3, <2>1, WalStays, BoundFacts
    <2>3. ASSUME NEW lsn, EndScan(lsn), cpc \in Scans
          PROVE  /\ cpc' \in {cpc, "idle", "sync", "queue"} /\ held' \in {held, FALSE}
                 /\ panic' \in {panic, "regress", "behind"} /\ scan' = NoScan
        BY <2>3 DEF EndScan, Decide, Scans
    <2>4. /\ cpc' \in {cpc, "idle", "sync", "queue", "expect", "wait", "scan2", "scan3"}
          /\ held' \in {held, FALSE} /\ panic' \in {panic, "regress", "behind"}
          /\ cpc' \notin Scans => scan' = NoScan
        <3>1. CASE ScanSlot
            BY <2>3, <3>1 DEF ScanSlot, Scans
        <3>2. CASE ScanAgain
            <4>1. cpc \in Scans
                BY <3>2 DEF ScanAgain, BoundInv, BoundTypes, NoScan
            <4>2. CASE StillInSlot /\ scan.lsn # 0
                BY <2>3, <3>2, <4>1, <4>2 DEF ScanAgain
            <4>3. CASE ~(StillInSlot /\ scan.lsn # 0)
                BY <3>2, <4>1, <4>3 DEF ScanAgain
            <4> QED
                BY <4>2, <4>3
        <3>3. CASE ScanRecLsn
            BY <3>3 DEF ScanRecLsn, BoundInv, BoundTypes, NoScan
        <3> QED
            BY <1>4, <3>1, <3>2, <3>3 DEF Checkpointer, ReadTail, WriteExpected, EndWait,
               ReadQueueRecLsn, SetRedo, BoundInv, BoundTypes, Scans
    <2> QED
        BY <1>1, <2>1, <2>2, <2>4 DEF BoundInv, BoundTypes
<1>5. ASSUME NEW k \in Kinds, Start(k) PROVE WalInv' /\ BoundTypes'
    <2>1. /\ ckpts < MaxCkpts /\ ckpts' = ckpts + 1 /\ cpc' \in {"tail", "scan1"} /\ held' = TRUE
          /\ reclsn' \in {reclsn, wal + 1} /\ unsynced' = unsynced /\ panic' = panic
          /\ cpc = "idle" /\ (cpc' = "tail" => scan' = scan)
        BY <1>5 DEF Start, RaiseRecLsn, pageVars
    <2>2. ckpts' \in 0..MaxCkpts /\ reclsn' <= wal' + 1
        BY <1>1, <2>1, BoundFacts DEF BoundInv, BoundTypes
    <2>3. WalInv'
        BY <1>1, <1>3, <2>1, <2>2 DEF BoundInv, WalInv
    <2> QED
        BY <1>1, <2>1, <2>2, <2>3 DEF BoundInv, BoundTypes, Scans
<1> QED
    BY <1>4, <1>5

\* Every step keeps the bounds.
LEMMA BoundStep == BoundInv /\ [Next]_vars => BoundInv'
<1> SUFFICES ASSUME BoundInv, [Next]_vars PROVE BoundInv'
    OBVIOUS
<1>1. QueueInv'
    BY QueueStep DEF BoundInv
<1>2. CASE UNCHANGED vars
    <2>1. UNCHANGED <<wal, reclsn, start, pc, memory, unsynced, held, hints, ckpts, mpc, cpc, scan, panic>>
        BY <1>2 DEF vars, queueVars, pageVars, backVars, writerVars, ckptVars
    <2>2. Writing' = Writing
        BY <2>1 DEF Writing
    <2> QED
        BY <1>1, <2>1, <2>2, WalStays, BoundFacts DEF BoundInv, BoundTypes
<1>3. ASSUME NEW b \in Backends, Begin(b) \/ Backend(b) PROVE BoundInv'
    BY <1>1, <1>3, BoundBackend DEF BoundInv
<1>4. ASSUME NEW p \in Pages,
             MarkBufferDirtyHint(p) \/ FillHint(p) \/ InvalidateBuffer(p) \/ Thread(p)
      PROVE  BoundInv'
    BY <1>1, <1>4, BoundPage DEF BoundInv
<1>5. CASE PageWriter
    BY <1>1, <1>5, BoundWriter DEF BoundInv
<1>6. CASE Checkpointer \/ \E k \in Kinds : Start(k)
    BY <1>1, <1>6, BoundCkpt DEF BoundInv
<1> QED
    BY <1>2, <1>3, <1>4, <1>5, <1>6 DEF Next

\* The initial state.
LEMMA BoundInit == Init => BoundInv
<1> SUFFICES ASSUME Init PROVE BoundInv
    OBVIOUS
<1>1. Writing = {}
    BY DEF Init, Writing
<1>2. Cardinality(Writing) = 0 /\ {MaxRecords, MaxHints, MaxCkpts} \subseteq Nat
    BY <1>1, FS_EmptySet, QueueAssumption
<1>3. WalInv
    BY <1>2 DEF Init, WalInv
<1>4. BoundTypes
    <2>1. hints \in 0..MaxHints /\ ckpts \in 0..MaxCkpts
        BY <1>2 DEF Init
    <2>2. held \in BOOLEAN /\ (cpc \notin Scans => scan = NoScan)
        BY Zenon DEF Init
    <2> QED
        BY <2>1, <2>2 DEF Init, BoundTypes
<1> QED
    BY <1>3, <1>4, QueueInit DEF BoundInv

\* Init, Next: every variable has its type; the queue is not longer than the ring, and an LSN is
\* the number of a record that has been written or, in the queue, of the next one.
THEOREM TypeCorrect == Spec => []TypeOK
<1>1. ASSUME BoundInv PROVE TypeOK
    <2>1. QueueInv /\ wal \in Nat /\ reclsn <= wal + 1 /\ Cardinality(Writing) \in Nat
          /\ MaxRecords \in Nat /\ reclsn \in Nat
        BY <1>1, BoundFacts
    <2>2. wal \in 0..MaxRecords
        BY <1>1, <2>1 DEF BoundInv, WalInv
    <2>3. recLsn \in [Pages -> 0..wal + 1]
        <3>1. recLsn \in [Pages -> Nat] /\ \A p \in Pages : recLsn[p] <= reclsn
            BY <2>1 DEF QueueInv, RingInv, RingTypes, PageInv
        <3>2. \A p \in Pages : recLsn[p] \in 0..wal + 1
            BY <2>1, <3>1
        <3> QED
            BY <3>1, <3>2
    <2>4. pr.seen \subseteq 0..tail
        <3>1. tail \in Nat /\ head \in Nat
            BY <2>1 DEF QueueInv, RingInv, RingTypes
        <3>2. \A n \in pr.seen : n \in 0..tail
            BY <2>1, <3>1 DEF QueueInv, PruneInv, Positions
        <3> QED
            BY <3>2
    <2>5. head <= tail /\ tail <= head + Size
        BY <2>1, Sizes DEF QueueInv, RingInv, RingTypes
    <2> QED
        BY <1>1, <2>1, <2>2, <2>3, <2>4, <2>5
           DEF TypeOK, BoundInv, WalInv, BoundTypes, QueueInv, RingInv, RingTypes, UserInv, UserTypes
<1> QED
    BY <1>1, BoundInit, BoundStep, PTL DEF Spec
=============================================================================
