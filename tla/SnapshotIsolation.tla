------------------------- MODULE SnapshotIsolation -------------------------
(***************************************************************************)
(* What the MVCC engine promises: snapshot isolation.  A transaction takes *)
(* a copy of the store when it begins, may write a key only if nobody else *)
(* has it pending and nobody committed it since that copy was taken, and   *)
(* commits all its writes at once.                                         *)
(*                                                                         *)
(* Transactions are numbered in the order they begin.  The store remembers *)
(* which transaction committed each key, so that a rewrite of the same     *)
(* value is told from no write at all.                                     *)
(***************************************************************************)
EXTENDS Naturals

CONSTANTS Key, Value,
          None \* no value: a key that was never written, or was deleted

VARIABLES
    began,   \* number of transactions begun
    store,   \* store[k]: committed value of k and the transaction it is by
    snap,    \* snap[t]: the store when t began, kept forever (time travel)
    open,    \* transactions neither committed nor rolled back
    pending  \* pending[t]: uncommitted writes of t, a function on some keys

siVars == <<began, store, snap, open, pending>>

NoWrites == [k \in {} |-> None]

Init ==
    /\ began = 0
    /\ store = [k \in Key |-> [by |-> 0, value |-> None]]
    /\ snap = [t \in {} |-> store]
    /\ open = {}
    /\ pending = [t \in {} |-> NoWrites]

Begin ==
    LET t == began + 1
    IN  /\ began' = t
        /\ snap' = [u \in 1..t |-> IF u = t THEN store ELSE snap[u]]
        /\ open' = open \cup {t}
        /\ pending' = [u \in 1..t |-> IF u = t THEN NoWrites ELSE pending[u]]
        /\ UNCHANGED store

\* First updater wins.
Write(t, k, value) ==
    /\ t \in open
    /\ store[k] = snap[t][k]
    /\ \A u \in open \ {t} : k \notin DOMAIN pending[u]
    /\ pending' = [pending EXCEPT ![t] =
                    [l \in DOMAIN @ \cup {k} |-> IF l = k THEN value ELSE @[l]]]
    /\ UNCHANGED <<began, store, snap, open>>

Commit(t) ==
    /\ t \in open
    /\ store' = [k \in Key |-> IF k \in DOMAIN pending[t]
                               THEN [by |-> t, value |-> pending[t][k]] ELSE store[k]]
    /\ open' = open \ {t}
    /\ pending' = [pending EXCEPT ![t] = NoWrites]
    /\ UNCHANGED <<began, snap>>

Rollback(t) ==
    /\ t \in open
    /\ open' = open \ {t}
    /\ pending' = [pending EXCEPT ![t] = NoWrites]
    /\ UNCHANGED <<began, store, snap>>

Next ==
    \/ Begin
    \/ \E t \in open : \/ Commit(t) \/ Rollback(t)
                       \/ \E k \in Key, value \in Value \cup {None} : Write(t, k, value)

Spec == Init /\ [][Next]_siVars
=============================================================================
