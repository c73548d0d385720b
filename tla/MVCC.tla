-------------------------------- MODULE MVCC --------------------------------
(***************************************************************************)
(* The MVCC engine of src/src/storage/mvcc.rs.                             *)
(*                                                                         *)
(* Every call locks the engine for its whole duration, so a call is one    *)
(* action.  A TransactionState is a plain value that callers keep, copy,   *)
(* send through Raft and hand back to resume(), so that any state that was *)
(* ever returned by a begin may be used at any time, also twice and also   *)
(* after its commit or rollback: txns only grows.  Every call of           *)
(* sql/engine/raft.rs is a resume() followed by one operation, and both    *)
(* are one action here.  A call that returns an error (Serialization,      *)
(* ReadOnly, no active transaction, unknown version) changes nothing: its  *)
(* action is not enabled.                                                  *)
(***************************************************************************)
EXTENDS Naturals, FiniteSetsExt

CONSTANTS Key, Value,
          None,       \* a deletion tombstone, or no value
          MaxVersion, \* bound: read-write transactions in a behaviour
          MaxReaders  \* bound: read-only transactions in a behaviour

ASSUME MVCCAssumption == MaxVersion \in Nat /\ MaxReaders \in Nat

VARIABLES
    next_version, \* Key::NextVersion (1 when absent)
    active,       \* versions with a Key::TxnActive record
    snapshots,    \* Key::TxnActiveSnapshot records, a function on some versions
    txn_writes,   \* Key::TxnWrite records: pairs of a version and a key
    versions,     \* versions[k]: Key::Version records of k, a function on versions
    txns          \* every TransactionState handed out

vars == <<next_version, active, snapshots, txn_writes, versions, txns>>

\* Engine set() and delete() of one record of a map.
Put(map, x, y) == [z \in DOMAIN map \cup {x} |-> IF z = x THEN y ELSE map[z]]
Remove(map, x) == [z \in DOMAIN map \ {x} |-> map[z]]

-----------------------------------------------------------------------------
(* Transaction states.                                                     *)

State(version, read_only, act) ==
    [version |-> version, read_only |-> read_only, active |-> act]

\* The active set a version began with; empty sets are not stored.
Snapshot(v) == IF v \in DOMAIN snapshots THEN snapshots[v] ELSE {}

\* Mutant: read-only transactions see writes at their own version.
SeesOwnVersion(t, v) == v \notin t.active /\ v <= t.version

\* is_visible()
IsVisible(t, v) ==
    /\ v \notin t.active
    /\ IF t.read_only THEN v < t.version ELSE v <= t.version

\* resume(): a read-write transaction must still be active.
Resumable(t) == t.read_only \/ t.version \in active

-----------------------------------------------------------------------------
(* Operations.                                                             *)

\* Mutant: the active set is never stored.
BeginUnrecorded ==
    /\ next_version <= MaxVersion
    /\ next_version' = next_version + 1
    /\ active' = active \cup {next_version}
    /\ txns' = txns \cup {State(next_version, FALSE, active)}
    /\ UNCHANGED <<snapshots, txn_writes, versions>>

\* begin(): allocate a version, store the active set if there is one, join it.
Begin ==
    /\ next_version <= MaxVersion
    /\ next_version' = next_version + 1
    /\ snapshots' = IF active = {} THEN snapshots ELSE Put(snapshots, next_version, active)
    /\ active' = active \cup {next_version}
    /\ txns' = txns \cup {State(next_version, FALSE, active)}
    /\ UNCHANGED <<txn_writes, versions>>

CanRead == Cardinality({t \in txns : t.read_only}) < MaxReaders

\* begin_read_only(None): the current version and active set, nothing stored.
BeginReadOnly ==
    /\ CanRead
    /\ txns' = txns \cup {State(next_version, TRUE, active)}
    /\ UNCHANGED <<next_version, active, snapshots, txn_writes, versions>>

\* begin_read_only(Some(v)): a past version with the active set it began with.
BeginAsOf(v) ==
    /\ CanRead /\ v < next_version
    /\ txns' = txns \cup {State(v, TRUE, Snapshot(v))}
    /\ UNCHANGED <<next_version, active, snapshots, txn_writes, versions>>

\* Mutants: only later versions conflict; the first version found is looked at.
ConflictWithLater(t, k) == \E v \in DOMAIN versions[k] : v > t.version
ConflictWithFirst(t, k) ==
    LET from == IF t.active = {} THEN t.version + 1 ELSE Min(t.active)
        found == {v \in DOMAIN versions[k] : v >= from}
    IN  found # {} /\ ~IsVisible(t, Min(found))

\* The conflict check of write_version(): of the versions of k from the oldest
\* active one (or the next version) on, only the latest is looked at.
Conflict(t, k) ==
    LET from == IF t.active = {} THEN t.version + 1 ELSE Min(t.active)
        found == {v \in DOMAIN versions[k] : v >= from}
    IN  found # {} /\ ~IsVisible(t, Max(found))

\* write_version(): set() with a value, delete() with None.
Write(t, k, value) ==
    /\ ~t.read_only /\ Resumable(t)
    /\ ~Conflict(t, k)
    /\ txn_writes' = txn_writes \cup {<<t.version, k>>}
    /\ versions' = [versions EXCEPT ![k] = Put(@, t.version, value)]
    /\ UNCHANGED <<next_version, active, snapshots, txns>>

\* Mutant: the write records stay.
CommitOnly(t) ==
    /\ ~t.read_only /\ Resumable(t)
    /\ active' = active \ {t.version}
    /\ UNCHANGED <<next_version, snapshots, txn_writes, versions, txns>>

\* commit(): the write records go, then the transaction leaves the active set.
Commit(t) ==
    /\ ~t.read_only /\ Resumable(t)
    /\ txn_writes' = {w \in txn_writes : w[1] # t.version}
    /\ active' = active \ {t.version}
    /\ UNCHANGED <<next_version, snapshots, versions, txns>>

\* rollback(): the versions that the write records name go as well.
Rollback(t) ==
    /\ ~t.read_only /\ Resumable(t)
    /\ versions' = [k \in Key |-> IF <<t.version, k>> \in txn_writes
                                  THEN Remove(versions[k], t.version) ELSE versions[k]]
    /\ txn_writes' = {w \in txn_writes : w[1] # t.version}
    /\ active' = active \ {t.version}
    /\ UNCHANGED <<next_version, snapshots, txns>>

Init ==
    /\ next_version = 1
    /\ active = {}
    /\ snapshots = [v \in {} |-> {}]
    /\ txn_writes = {}
    /\ versions = [k \in Key |-> [v \in {} |-> None]]
    /\ txns = {}

Next ==
    \/ Begin \/ BeginReadOnly
    \/ \E v \in 0..MaxVersion : BeginAsOf(v)
    \/ \E t \in txns : \/ Commit(t) \/ Rollback(t)
                       \/ \E k \in Key, value \in Value \cup {None} : Write(t, k, value)

Spec == Init /\ [][Next]_vars

-----------------------------------------------------------------------------
(* Reads.                                                                  *)

\* The latest of some versions of a key, given its records, and the value there.
Latest(records, vs) == IF vs = {} THEN [by |-> 0, value |-> None]
                                  ELSE [by |-> Max(vs), value |-> records[Max(vs)]]

\* Mutant: the scan for the latest version does not look at visibility.
GetLatest(t, k) == Latest(versions[k], {v \in DOMAIN versions[k] : v <= t.version})

\* get(): the latest visible version of k.
Get(t, k) ==
    Latest(versions[k], {v \in DOMAIN versions[k] : v <= t.version /\ IsVisible(t, v)})

-----------------------------------------------------------------------------
(* Properties.                                                             *)

Version == 1..(next_version - 1)
TransactionState == [version : Nat, read_only : BOOLEAN, active : SUBSET Version]

\* The records of the engine are well formed: versions in use have been
\* allocated, and a version's active set holds earlier versions only.
TypeOK ==
    /\ next_version \in Nat \ {0}
    /\ active \subseteq Version
    /\ DOMAIN snapshots \subseteq Version
    /\ \A v \in DOMAIN snapshots : snapshots[v] \subseteq 1..(v - 1)
    /\ txn_writes \subseteq Version \X Key
    /\ DOMAIN versions = Key
    /\ \A k \in Key : /\ DOMAIN versions[k] \subseteq Version
                      /\ versions[k] \in [DOMAIN versions[k] -> Value \cup {None}]
    /\ txns \subseteq TransactionState

\* Every version of a key was written on top of all earlier ones: none of them
\* was active when its transaction began or is active now.  No update is lost.
WritesOnTop ==
    \A k \in Key : \A u, v \in DOMAIN versions[k] :
        u < v => u \notin active /\ u \notin Snapshot(v)

\* Looking at the latest version only misses no conflict: "We can only conflict
\* with the latest key, since all transactions enforce the same invariant"
\* (mvcc.rs:527).
LatestVersionDecides ==
    \A t \in txns, k \in Key : ~t.read_only /\ Resumable(t) =>
        (Conflict(t, k) <=> \E v \in DOMAIN versions[k] : ~IsVisible(t, v))

\* The write records name exactly the versions of the active transactions, so
\* that rollback() undoes all a transaction wrote and nothing else.
WriteRecordsExact ==
    /\ \A v \in active, k \in Key : <<v, k>> \in txn_writes <=> v \in DOMAIN versions[k]
    /\ \A w \in txn_writes : w[1] \in active

\* What t sees of others: its reads apart from its own writes.
Seen(t, k) ==
    {v \in DOMAIN versions[k] : IsVisible(t, v) /\ (t.read_only \/ v # t.version)}
View(t, k) == Latest(versions[k], Seen(t, k))

\* No step of anyone changes what a transaction sees of others, be it read-write,
\* read-only or a time travel query.
SnapshotsStable == [][\A t \in txns, k \in Key : View(t, k)' = View(t, k)]_vars

\* The abstract state: a version is a transaction number, the committed value of a
\* key is its latest version that is not active, and what a transaction began
\* with is found again from the active set stored for time travel queries.
Committed(k) == {v \in DOMAIN versions[k] : v \notin active}
SeenBy(t, k) == {v \in DOMAIN versions[k] : v < t /\ v \notin Snapshot(t)}
Pending(t) == {k \in Key : t \in active /\ t \in DOMAIN versions[k]}

Store == [k \in Key |-> Latest(versions[k], Committed(k))]
Snaps == [t \in Version |-> [k \in Key |-> Latest(versions[k], SeenBy(t, k))]]
Uncommitted == [t \in Version |-> [k \in Pending(t) |-> versions[k][t]]]

SI == INSTANCE SnapshotIsolation WITH
        began <- next_version - 1, store <- Store, snap <- Snaps,
        open <- active, pending <- Uncommitted

\* The engine provides snapshot isolation: commits are atomic, conflicting writes
\* of concurrent transactions are refused, and time travel to a version finds
\* what its transaction found when it began (mvcc.rs:36-43, 389-392).
ProvidesSnapshotIsolation == SI!Spec

\* get() in an active read-write transaction returns its own last write, or else
\* what was committed when it began.
ReadsSeeSnapshot ==
    \A t \in txns, k \in Key : ~t.read_only /\ Resumable(t) =>
        Get(t, k) = IF t.version \in DOMAIN versions[k]
                    THEN [by |-> t.version, value |-> versions[k][t.version]]
                    ELSE Snaps[t.version][k]
=============================================================================
