-------------------------- MODULE SnapshotIsolation --------------------------
(***************************************************************************)
(* What the MOT engine promises its clients about committed data: every    *)
(* key has a history of versions, a transaction commits all its writes in  *)
(* one atomic step at the next commit sequence number, a REPEATABLE READ   *)
(* transaction overwrites only what its snapshot shows (first committer    *)
(* wins), and a key never has two live rows (primary key uniqueness).      *)
(***************************************************************************)
EXTENDS Integers, Sequences

CONSTANTS Txn, Key

VARIABLES
    now,    \* the next commit sequence number
    store,  \* [Key -> Seq(Version)], newest version first
    iso,    \* [Txn -> {"RC", "RR"}]
    snap    \* [Txn -> Nat], 0 when the transaction holds no snapshot

absVars == <<now, store, iso, snap>>

Kinds == {"update", "delete", "insert", "replace"}

Live(k) == store[k] # <<>> /\ ~store[k][1].del

\* A write of this kind is legal on what the store holds at the commit.
MayWrite(t, k, kind) ==
    IF kind = "insert" THEN ~Live(k)
    ELSE Live(k) /\ (iso[t] = "RR" => store[k][1].csn < snap[t])

Written(kind, c) ==
    CASE kind = "delete"  -> <<[csn |-> c, del |-> TRUE]>>
      [] kind = "replace" -> <<[csn |-> c, del |-> FALSE], [csn |-> c, del |-> TRUE]>>
      [] OTHER            -> <<[csn |-> c, del |-> FALSE]>>

AbsInit ==
    /\ now \in Nat
    /\ \A k \in Key : store[k] = <<>> \/ store[k][1].csn < now
    /\ snap = [t \in Txn |-> 0]

TakeSnapshot(t) ==
    /\ snap[t] = 0
    /\ snap' = [snap EXCEPT ![t] = now]
    /\ UNCHANGED <<now, store, iso>>

DropSnapshot(t) ==
    /\ snap' = [snap EXCEPT ![t] = 0]
    /\ UNCHANGED <<now, store, iso>>

Commit(t, op) ==
    /\ \A k \in DOMAIN op : MayWrite(t, k, op[k])
    /\ store' = [k \in Key |-> IF k \in DOMAIN op
                               THEN Written(op[k], now) \o store[k] ELSE store[k]]
    /\ now' = now + 1
    /\ UNCHANGED <<iso, snap>>

AbsNext ==
    \E t \in Txn :
        \/ TakeSnapshot(t)
        \/ DropSnapshot(t)
        \/ \E W \in SUBSET Key : \E op \in [W -> Kinds] : Commit(t, op)

AbsSpec == AbsInit /\ [][AbsNext]_absVars

=============================================================================
