----------------------------- MODULE MVCCProofs -----------------------------
(***************************************************************************)
(* Proofs about MVCC, for any sets of keys and values and any number of    *)
(* transactions.                                                           *)
(***************************************************************************)
EXTENDS MVCC, NaturalSets

-----------------------------------------------------------------------------
(* Largest and smallest versions.                                          *)

\* Min() of a non-empty set of versions.
LEMMA MinOfVersions ==
    ASSUME NEW S \in SUBSET Nat, S # {}
    PROVE  Min(S) \in S /\ \A y \in S : Min(S) <= y
BY LeastNatural DEF Min

\* Max() of a non-empty bounded set of versions.
LEMMA MaxOfVersions ==
    ASSUME NEW n \in Nat, NEW S \in SUBSET (0..n), S # {}
    PROVE  Max(S) \in S /\ \A y \in S : y <= Max(S)
BY GreatestNatural DEF Max

-----------------------------------------------------------------------------
(* The inductive invariant.                                                *)

\* A read-write transaction has the active set stored for its version, and a
\* read-only one has every earlier version that is still active in its own.
Handles ==
    \A t \in txns :
        IF t.read_only
        THEN t.version <= next_version /\ \A u \in active : u < t.version => u \in t.active
        ELSE t.version \in Version /\ t.active = Snapshot(t.version)

\* Who is active now was active when any later transaction began, and who was
\* active when w began was active when any v between them began.
ActiveInSnapshots == \A v \in Version, u \in active : u < v => u \in Snapshot(v)
SnapshotsNested ==
    \A v, w \in Version : \A u \in Snapshot(w) : u < v /\ v < w => u \in Snapshot(v)

Inv ==
    /\ TypeOK /\ Handles /\ ActiveInSnapshots /\ SnapshotsNested
    /\ WritesOnTop /\ WriteRecordsExact

\* The active set a version began with holds earlier versions.
LEMMA SnapshotType ==
    ASSUME TypeOK, NEW v
    PROVE  Snapshot(v) \subseteq Version /\ (v \in Version => Snapshot(v) \subseteq 1..(v - 1))
<1>1. CASE v \in DOMAIN snapshots
  BY <1>1 DEF TypeOK, Snapshot, Version
<1>2. CASE v \notin DOMAIN snapshots
  BY <1>2 DEF TypeOK, Snapshot, Version
<1> QED
  BY <1>1, <1>2

\* The conflict check of write_version() is exact: the argument of the comment at
\* mvcc.rs:527 about the latest version.
LEMMA ConflictExact ==
    ASSUME Inv, NEW t \in txns, ~t.read_only, NEW k \in Key
    PROVE  Conflict(t, k) <=> \E v \in DOMAIN versions[k] : ~IsVisible(t, v)
<1> DEFINE x == t.version
           from == IF t.active = {} THEN x + 1 ELSE Min(t.active)
           found == {v \in DOMAIN versions[k] : v >= from}
<1>1. /\ x \in Version /\ t.active = Snapshot(x)
      /\ Snapshot(x) \subseteq 1..(x - 1)
      /\ DOMAIN versions[k] \subseteq Version
      /\ next_version \in Nat
  BY SnapshotType DEF Inv, Handles, TypeOK
<1>2. /\ from \in Nat /\ from <= x + 1
      /\ \A u \in Snapshot(x) : from <= u
  <2>1. CASE t.active = {}
    BY <2>1, <1>1 DEF Version
  <2>2. CASE t.active # {}
    <3>1. Snapshot(x) \in SUBSET Nat
      BY <1>1
    <3> QED
      BY <2>2, <3>1, <1>1, MinOfVersions DEF Version
  <2> QED
    BY <2>1, <2>2
<1>3. \A v : IsVisible(t, v) <=> v \notin Snapshot(x) /\ v <= x
  BY <1>1 DEF IsVisible
<1>4. found # {} => Max(found) \in found /\ \A v \in found : v <= Max(found)
  <2>1. found \in SUBSET (0..next_version)
    BY <1>1 DEF Version
  <2> QED
    BY <2>1, <1>1, MaxOfVersions
<1>5. Conflict(t, k) <=> found # {} /\ ~IsVisible(t, Max(found))
  BY DEF Conflict
<1>6. ASSUME NEW v \in DOMAIN versions[k], ~IsVisible(t, v)
      PROVE  Conflict(t, k)
  <2> DEFINE last == Max(found)
  <2>1. v \in found
    BY <1>1, <1>2, <1>3, <1>6 DEF Version
  <2>2. last \in DOMAIN versions[k] /\ v <= last
    BY <2>1, <1>4
  <2>3. SUFFICES ASSUME last \notin Snapshot(x), last <= x
                 PROVE  FALSE
    BY <2>1, <1>3, <1>5
  <2>4. v \in Snapshot(x) /\ v < last
    BY <2>2, <2>3, <1>1, <1>3, <1>6 DEF Version
  <2>5. v \in Snapshot(last)
    BY <2>2, <2>3, <2>4, <1>1 DEF Inv, SnapshotsNested, Version
  <2> QED
    BY <2>2, <2>4, <2>5 DEF Inv, WritesOnTop
<1> QED
  BY <1>4, <1>5, <1>6

\* An empty engine satisfies the invariant.
LEMMA InitInv == Init => Inv
BY DEF Init, Inv, TypeOK, Version, Handles, ActiveInSnapshots, SnapshotsNested, Snapshot,
       WritesOnTop, WriteRecordsExact

\* A begin leaves the stored active sets alone and stores its own.
LEMMA BeginSnapshots ==
    ASSUME TypeOK, Begin
    PROVE  /\ \A v \in Version : Snapshot(v)' = Snapshot(v)
           /\ \A v : v = next_version => Snapshot(v)' = active
<1>1. next_version \notin DOMAIN snapshots /\ next_version \notin Version
  BY DEF TypeOK, Version
<1>2. CASE active = {}
  BY <1>1, <1>2 DEF Begin, Snapshot
<1>3. CASE active # {}
  BY <1>1, <1>3 DEF Begin, Snapshot, Put
<1> QED
  BY <1>2, <1>3

\* begin() preserves the invariant: the new version is above all others.
LEMMA BeginInv ==
    ASSUME Inv, Begin
    PROVE  Inv'
<1> USE DEF Inv
<1>1. /\ next_version \in Nat \ {0} /\ next_version' = next_version + 1
      /\ Version' = Version \cup {next_version} /\ next_version \notin Version
      /\ active' = active \cup {next_version} /\ active \subseteq Version
  BY DEF Begin, Version, TypeOK
<1>2. /\ \A v \in Version : Snapshot(v)' = Snapshot(v)
      /\ \A v : v = next_version => Snapshot(v)' = active
  BY BeginSnapshots
<1>3. TypeOK'
  <2>1. /\ DOMAIN snapshots' \subseteq Version'
        /\ \A v \in DOMAIN snapshots' : snapshots'[v] \subseteq 1..(v - 1)
    BY <1>1 DEF Begin, TypeOK, Put, Version
  <2>2. txns' \subseteq TransactionState'
    <3>1. TransactionState \subseteq TransactionState'
      BY <1>1 DEF TransactionState
    <3>2. State(next_version, FALSE, active) \in TransactionState'
      BY <1>1 DEF TransactionState, State
    <3> QED
      BY <3>1, <3>2 DEF Begin, TypeOK
  <2>3. UNCHANGED versions /\ txn_writes' \subseteq Version' \X Key
    BY <1>1 DEF Begin, TypeOK
  <2>4. \A k \in Key : DOMAIN versions'[k] \subseteq Version'
    BY <1>1, <2>3 DEF TypeOK
  <2> QED
    BY <1>1, <2>1, <2>2, <2>3, <2>4 DEF TypeOK
<1>4. Handles'
  <2>1. ASSUME NEW t \in txns
        PROVE  IF t.read_only
               THEN /\ t.version <= next_version'
                    /\ \A u \in active' : u < t.version => u \in t.active
               ELSE t.version \in Version' /\ t.active = Snapshot(t.version)'
    BY <1>1, <1>2, <2>1 DEF Handles, TypeOK, TransactionState
  <2>2. ASSUME NEW t \in txns', t \notin txns
        PROVE  ~t.read_only /\ t.version \in Version' /\ t.active = Snapshot(t.version)'
    BY <1>1, <1>2, <2>2 DEF Begin, State
  <2> QED
    BY <2>1, <2>2 DEF Handles
<1>5. ActiveInSnapshots'
  BY <1>1, <1>2 DEF ActiveInSnapshots, Version
<1>6. SnapshotsNested'
  <2> SUFFICES ASSUME NEW v \in Version', NEW w \in Version', NEW u \in Snapshot(w)',
                      u < v, v < w
               PROVE  u \in Snapshot(v)'
    BY DEF SnapshotsNested
  <2>1. v \in Version
    BY <1>1 DEF Version
  <2>2. CASE w = next_version
    BY <1>1, <1>2, <2>1, <2>2 DEF ActiveInSnapshots
  <2>3. CASE w \in Version
    BY <1>1, <1>2, <2>1, <2>3 DEF SnapshotsNested
  <2> QED
    BY <1>1, <2>2, <2>3
<1>7. WritesOnTop'
  BY <1>1, <1>2 DEF Begin, WritesOnTop, TypeOK
<1>8. WriteRecordsExact'
  BY <1>1 DEF Begin, WriteRecordsExact, TypeOK
<1> QED
  BY <1>3, <1>4, <1>5, <1>6, <1>7, <1>8

\* Both kinds of begin_read_only() only hand out a state.
LEMMA BeginReadOnlyInv ==
    ASSUME Inv, BeginReadOnly \/ \E v \in 0..MaxVersion : BeginAsOf(v)
    PROVE  Inv'
<1> USE DEF Inv
<1>1. PICK v \in Nat, act \in SUBSET Version :
        /\ txns' = txns \cup {State(v, TRUE, act)}
        /\ v <= next_version /\ \A u \in active : u < v => u \in act
        /\ UNCHANGED <<next_version, active, snapshots, txn_writes, versions>>
  <2> DEFINE P(v, act) ==
        /\ txns' = txns \cup {State(v, TRUE, act)}
        /\ v <= next_version /\ \A u \in active : u < v => u \in act
        /\ UNCHANGED <<next_version, active, snapshots, txn_writes, versions>>
  <2>1. CASE BeginReadOnly
    <3>1. P(next_version, active)
      BY <2>1 DEF BeginReadOnly, TypeOK
    <3> QED
      BY <3>1 DEF TypeOK
  <2>2. CASE \E v \in 0..MaxVersion : BeginAsOf(v)
    <3>1. PICK v \in 0..MaxVersion : BeginAsOf(v)
      BY <2>2
    <3>2. \A u \in active : u < v => u \in Snapshot(v)
      BY <3>1 DEF BeginAsOf, ActiveInSnapshots, TypeOK, Version
    <3>3. P(v, Snapshot(v))
      BY <3>1, <3>2 DEF BeginAsOf, TypeOK
    <3>4. v \in Nat /\ Snapshot(v) \in SUBSET Version
      BY SnapshotType, MVCCAssumption
    <3> QED
      BY <3>3, <3>4
  <2> QED
    BY <2>1, <2>2
<1>2. TypeOK'
  <2>1. Version' = Version /\ TransactionState' = TransactionState
    BY <1>1 DEF Version, TransactionState
  <2>2. State(v, TRUE, act) \in TransactionState
    BY DEF State, TransactionState
  <2> QED
    BY <1>1, <2>1, <2>2 DEF TypeOK
<1>3. Handles'
  BY <1>1 DEF Handles, State, Version, Snapshot
<1> QED
  BY <1>1, <1>2, <1>3 DEF ActiveInSnapshots, SnapshotsNested, WritesOnTop, WriteRecordsExact,
                          Snapshot, Version

\* A version written by an active transaction lands above all others of its key.
LEMMA WriteIsLatest ==
    ASSUME Inv, NEW t \in txns, NEW k \in Key, NEW value, Write(t, k, value)
    PROVE  /\ t.version \in Version /\ t.version \in active
           /\ \A v \in DOMAIN versions[k] :
                /\ v <= t.version
                /\ v \notin Snapshot(t.version)
                /\ v # t.version => v \notin active
<1>1. ~t.read_only /\ t.version \in active /\ ~Conflict(t, k)
  BY DEF Write, Resumable
<1>2. t.version \in Version /\ t.active = Snapshot(t.version)
  BY <1>1 DEF Inv, Handles
<1>3. \A v \in DOMAIN versions[k] : v <= t.version /\ v \notin Snapshot(t.version)
  BY <1>1, <1>2, ConflictExact DEF IsVisible
<1> QED
  BY <1>1, <1>2, <1>3 DEF Inv, ActiveInSnapshots, TypeOK, Version

\* write_version() preserves the invariant: by WriteIsLatest it writes on top.
LEMMA WriteInv ==
    ASSUME Inv, NEW t \in txns, NEW k \in Key, NEW value \in Value \cup {None},
           Write(t, k, value)
    PROVE  Inv'
<1> DEFINE x == t.version
<1>1. /\ UNCHANGED <<next_version, active, snapshots, txns>>
      /\ UNCHANGED Version /\ \A v : Snapshot(v)' = Snapshot(v)
      /\ txn_writes' = txn_writes \cup {<<x, k>>}
      /\ versions' = [versions EXCEPT ![k] = Put(versions[k], x, value)]
  BY DEF Write, Version, Snapshot
<1>2. /\ x \in Version /\ x \in active
      /\ \A v \in DOMAIN versions[k] : /\ v <= x /\ v \notin Snapshot(x)
                                       /\ v # x => v \notin active
  BY WriteIsLatest
<1>3. DOMAIN versions = Key
  BY DEF Inv, TypeOK
<1>4. /\ DOMAIN versions'[k] = DOMAIN versions[k] \cup {x}
      /\ \A l \in Key \ {k} : versions'[l] = versions[l]
  BY <1>1, <1>3 DEF Put
<1>5. TypeOK'
  <2>1. versions'[k] \in [DOMAIN versions'[k] -> Value \cup {None}]
    BY <1>1, <1>3, <1>4 DEF Put, Inv, TypeOK
  <2>2. /\ txn_writes' \subseteq Version' \X Key
        /\ \A l \in Key : DOMAIN versions'[l] \subseteq Version'
    BY <1>1, <1>2, <1>4 DEF Inv, TypeOK
  <2>3. \A l \in Key : versions'[l] \in [DOMAIN versions'[l] -> Value \cup {None}]
    BY <1>4, <2>1 DEF Inv, TypeOK
  <2>4. DOMAIN versions' = Key /\ txns' \subseteq TransactionState'
    BY <1>1, <1>3 DEF Inv, TypeOK, TransactionState
  <2> QED
    BY <1>1, <2>2, <2>3, <2>4 DEF Inv, TypeOK
<1>6. Handles' /\ ActiveInSnapshots' /\ SnapshotsNested'
  BY <1>1 DEF Inv, Handles, ActiveInSnapshots, SnapshotsNested
<1>7. WritesOnTop'
  <2> SUFFICES ASSUME NEW l \in Key, NEW u \in DOMAIN versions'[l],
                      NEW v \in DOMAIN versions'[l], u < v
               PROVE  u \notin active /\ u \notin Snapshot(v)
    BY <1>1 DEF WritesOnTop
  <2>1. CASE l # k
    BY <2>1, <1>4 DEF Inv, WritesOnTop
  <2>2. CASE l = k
    <3>1. u # x
      BY <2>2, <1>2, <1>4 DEF Version, Inv, TypeOK
    <3> QED
      BY <2>2, <3>1, <1>2, <1>4 DEF Inv, WritesOnTop
  <2> QED
    BY <2>1, <2>2
<1>8. WriteRecordsExact'
  BY <1>1, <1>2, <1>4 DEF Inv, WriteRecordsExact
<1> QED
  BY <1>5, <1>6, <1>7, <1>8 DEF Inv

\* Commit and rollback take one transaction out of the active set; versions only
\* go with the records of that transaction.
LEMMA EndInv ==
    ASSUME Inv, NEW t \in txns, Commit(t) \/ Rollback(t)
    PROVE  Inv'
<1> DEFINE x == t.version
<1>1. /\ UNCHANGED <<next_version, snapshots, txns>>
      /\ UNCHANGED Version /\ UNCHANGED TransactionState
      /\ \A v : Snapshot(v)' = Snapshot(v)
      /\ active' = active \ {x} /\ x \in active
      /\ txn_writes' = {w \in txn_writes : w[1] # x}
  BY DEF Commit, Rollback, Version, Snapshot, TransactionState, Resumable
<1>2. /\ DOMAIN versions' = Key
      /\ \A k \in Key : /\ DOMAIN versions'[k] \subseteq DOMAIN versions[k]
                        /\ \A v \in DOMAIN versions[k] : v # x => v \in DOMAIN versions'[k]
                        /\ versions'[k] \in [DOMAIN versions'[k] -> Value \cup {None}]
  <2>1. CASE Commit(t)
    BY <2>1 DEF Commit, Inv, TypeOK
  <2>2. CASE Rollback(t)
    <3> SUFFICES ASSUME NEW k \in Key
                 PROVE  /\ DOMAIN versions' = Key
                        /\ DOMAIN versions'[k] \subseteq DOMAIN versions[k]
                        /\ \A v \in DOMAIN versions[k] : v # x => v \in DOMAIN versions'[k]
                        /\ versions'[k] \in [DOMAIN versions'[k] -> Value \cup {None}]
      BY <2>2 DEF Rollback
    <3>1. versions'[k] = versions[k] \/ versions'[k] = Remove(versions[k], x)
      BY <2>2 DEF Rollback
    <3> QED
      BY <2>2, <3>1 DEF Rollback, Inv, TypeOK, Remove
  <2> QED
    BY <2>1, <2>2
<1>3. TypeOK'
  <2>1. \A k \in Key : DOMAIN versions'[k] \subseteq Version
    BY <1>2 DEF Inv, TypeOK
  <2> QED
    BY <1>1, <1>2, <2>1 DEF Inv, TypeOK
<1>4. Handles' /\ ActiveInSnapshots' /\ SnapshotsNested' /\ WritesOnTop'
  BY <1>1, <1>2 DEF Inv, Handles, ActiveInSnapshots, SnapshotsNested, WritesOnTop
<1>5. WriteRecordsExact'
  <2>1. \A w \in txn_writes' : w[1] \in active'
    BY <1>1 DEF Inv, WriteRecordsExact
  <2>2. ASSUME NEW v \in active', NEW k \in Key
        PROVE  <<v, k>> \in txn_writes' <=> v \in DOMAIN versions'[k]
    BY <1>1, <1>2 DEF Inv, WriteRecordsExact
  <2> QED
    BY <2>1, <2>2 DEF WriteRecordsExact
<1> QED
  BY <1>3, <1>4, <1>5 DEF Inv

\* Every step preserves the invariant.
LEMMA NextInv == Inv /\ [Next]_vars => Inv'
<1> SUFFICES ASSUME Inv, [Next]_vars
             PROVE  Inv'
  OBVIOUS
<1>1. CASE UNCHANGED vars
  BY <1>1 DEF vars, Inv, TypeOK, Handles, ActiveInSnapshots, SnapshotsNested, WritesOnTop,
              WriteRecordsExact, Version, TransactionState, Snapshot
<1>2. CASE Begin
  BY <1>2, BeginInv
<1>3. CASE BeginReadOnly \/ \E v \in 0..MaxVersion : BeginAsOf(v)
  BY <1>3, BeginReadOnlyInv
<1>4. CASE \E t \in txns : Commit(t) \/ Rollback(t)
  BY <1>4, EndInv
<1>5. CASE \E t \in txns, k \in Key, value \in Value \cup {None} : Write(t, k, value)
  BY <1>5, WriteInv
<1> QED
  BY <1>1, <1>2, <1>3, <1>4, <1>5 DEF Next

\* The invariant holds in every reachable state.
LEMMA Invariance == Spec => []Inv
BY InitInv, NextInv, PTL DEF Spec

-----------------------------------------------------------------------------
(* Theorems.                                                               *)

\* The records of the engine are well formed in every reachable state.
THEOREM TypeCorrect == Spec => []TypeOK
<1>1. Inv => TypeOK
  BY DEF Inv
<1> QED
  BY <1>1, Invariance, PTL

\* No update is lost: write_version() only ever writes on top of versions that
\* its transaction saw.
THEOREM NoLostUpdate == Spec => []WritesOnTop
<1>1. Inv => WritesOnTop
  BY DEF Inv
<1> QED
  BY <1>1, Invariance, PTL

\* The conflict check of write_version() finds a conflict whenever there is one,
\* although it looks at the latest version only.
THEOREM ConflictCheckExact == Spec => []LatestVersionDecides
<1>1. Inv => LatestVersionDecides
  BY ConflictExact DEF LatestVersionDecides
<1> QED
  BY <1>1, Invariance, PTL

\* rollback() finds a record of each version the transaction wrote and of nothing
\* else.
THEOREM RecordsExact == Spec => []WriteRecordsExact
<1>1. Inv => WriteRecordsExact
  BY DEF Inv
<1> QED
  BY <1>1, Invariance, PTL

-----------------------------------------------------------------------------
(* Snapshots.                                                              *)

\* The latest of some versions depends on the records of those versions only.
LEMMA SameLatest ==
    ASSUME NEW n \in Nat, NEW S \in SUBSET (0..n), NEW f, NEW g,
           \A v \in S : f[v] = g[v]
    PROVE  Latest(f, S) = Latest(g, S)
<1>1. CASE S = {}
  BY <1>1 DEF Latest
<1>2. CASE S # {}
  <2>1. Max(S) \in S
    BY <1>2, MaxOfVersions
  <2> QED
    BY <2>1 DEF Latest
<1> QED
  BY <1>1, <1>2

\* Versions that are visible to others do not change: those of an active
\* transaction, the only ones written or rolled back, are visible to nobody else.
LEMMA ActiveIsHidden ==
    ASSUME Inv, NEW t \in txns, NEW x \in active, IsVisible(t, x)
    PROVE  ~t.read_only /\ x = t.version
<1>1. x \in Nat /\ t.version \in Nat /\ x \notin t.active
  BY DEF Inv, TypeOK, TransactionState, Version, IsVisible
<1>2. CASE t.read_only
  BY <1>1, <1>2 DEF Inv, Handles, IsVisible
<1>3. CASE ~t.read_only
  BY <1>1, <1>3 DEF Inv, Handles, ActiveInSnapshots, IsVisible
<1> QED
  BY <1>2, <1>3

\* The steps that touch versions: only those of one active transaction.
LEMMA OtherVersionsKept ==
    ASSUME Inv, [Next]_vars
    PROVE  \/ UNCHANGED versions
           \/ \E x \in active : \A k \in Key : \A v : v # x =>
                /\ v \in DOMAIN versions'[k] <=> v \in DOMAIN versions[k]
                /\ v \in DOMAIN versions[k] => versions'[k][v] = versions[k][v]
<1>1. CASE \E t \in txns, k \in Key, value \in Value \cup {None} : Write(t, k, value)
  <2>1. PICK t \in txns, k \in Key, value \in Value \cup {None} : Write(t, k, value)
    BY <1>1
  <2>2. t.version \in active /\ DOMAIN versions = Key
    BY <2>1 DEF Write, Resumable, Inv, TypeOK
  <2> QED
    BY <2>1, <2>2 DEF Write, Put
<1>2. CASE \E t \in txns : Rollback(t)
  <2>1. PICK t \in txns : Rollback(t)
    BY <1>2
  <2>2. t.version \in active
    BY <2>1 DEF Rollback, Resumable
  <2> QED
    BY <2>1, <2>2 DEF Rollback, Remove
<1>3. CASE ~ \E t \in txns : \/ Rollback(t)
                             \/ \E k \in Key, value \in Value \cup {None} : Write(t, k, value)
  BY <1>3 DEF Next, vars, Begin, BeginReadOnly, BeginAsOf, Commit
<1> QED
  BY <1>1, <1>2, <1>3

\* No step changes what a handed-out state sees of others.
LEMMA ViewKept ==
    ASSUME Inv, [Next]_vars, NEW t \in txns, NEW k \in Key
    PROVE  View(t, k)' = View(t, k)
<1>1. CASE UNCHANGED versions
  BY <1>1 DEF View, Seen, IsVisible
<1>2. CASE ~UNCHANGED versions
  <2>1. PICK x \in active : \A v : v # x =>
                /\ v \in DOMAIN versions'[k] <=> v \in DOMAIN versions[k]
                /\ v \in DOMAIN versions[k] => versions'[k][v] = versions[k][v]
    BY <1>2, OtherVersionsKept
  <2>2. ~(IsVisible(t, x) /\ (t.read_only \/ x # t.version))
    BY ActiveIsHidden
  <2>3. Seen(t, k)' = Seen(t, k)
    BY <2>1, <2>2 DEF Seen, IsVisible
  <2>4. \A v \in Seen(t, k) : versions'[k][v] = versions[k][v]
    BY <2>1, <2>2 DEF Seen
  <2>5. next_version \in Nat /\ Seen(t, k) \in SUBSET (0..next_version)
    BY DEF Seen, Inv, TypeOK, Version
  <2>6. Latest(versions'[k], Seen(t, k)) = Latest(versions[k], Seen(t, k))
    BY <2>4, <2>5, SameLatest
  <2> QED
    BY <2>3, <2>6 DEF View
<1> QED
  BY <1>1, <1>2

\* What a transaction sees of others never changes.
THEOREM SnapshotsKept == Spec => SnapshotsStable
<1>1. Inv /\ [Next]_vars => [\A t \in txns, k \in Key : View(t, k)' = View(t, k)]_vars
  BY ViewKept
<1> QED
  BY <1>1, Invariance, PTL DEF Spec, SnapshotsStable

-----------------------------------------------------------------------------
(* Refinement of SnapshotIsolation.                                        *)

\* An upper bound that is in the set is its maximum.
LEMMA MaxIs ==
    ASSUME NEW n \in Nat, NEW S \in SUBSET (0..n), NEW x \in S, \A y \in S : y <= x
    PROVE  Max(S) = x
<1>1. Max(S) \in S /\ x <= Max(S)
  BY MaxOfVersions
<1>2. Max(S) <= x /\ Max(S) \in 0..n /\ x \in 0..n
  BY <1>1
<1> QED
  BY <1>1, <1>2

\* get() of a read-write transaction reads its own write or its snapshot.
THEOREM ReadsFromSnapshot == Spec => []ReadsSeeSnapshot
<1>1. ASSUME Inv, NEW t \in txns, NEW k \in Key, ~t.read_only, Resumable(t)
      PROVE  Get(t, k) = IF t.version \in DOMAIN versions[k]
                         THEN [by |-> t.version, value |-> versions[k][t.version]]
                         ELSE Snaps[t.version][k]
  <2> DEFINE x == t.version
             S == {v \in DOMAIN versions[k] : v <= x /\ IsVisible(t, v)}
  <2>1. /\ x \in Version /\ x \in active /\ t.active = Snapshot(x)
        /\ Snapshot(x) \subseteq 1..(x - 1)
        /\ next_version \in Nat /\ DOMAIN versions[k] \subseteq Version
    BY <1>1, SnapshotType DEF Inv, Handles, Resumable, TypeOK
  <2>2. \A v : IsVisible(t, v) <=> v \notin Snapshot(x) /\ v <= x
    BY <1>1, <2>1 DEF IsVisible
  <2>3. S \in SUBSET (0..next_version)
    BY <2>1 DEF Version
  <2>4. CASE x \in DOMAIN versions[k]
    <3>1. x \in S
      BY <2>1, <2>2, <2>4 DEF Version
    <3>2. Max(S) = x
      BY <2>1, <2>3, <3>1, MaxIs
    <3> QED
      BY <2>4, <3>1, <3>2 DEF Get, Latest
  <2>5. CASE x \notin DOMAIN versions[k]
    <3>1. S = SeenBy(x, k)
      BY <2>1, <2>2, <2>5 DEF SeenBy, Version
    <3> QED
      BY <2>1, <2>5, <3>1 DEF Get, Snaps
  <2> QED
    BY <2>4, <2>5
<1>2. Inv => ReadsSeeSnapshot
  BY <1>1 DEF ReadsSeeSnapshot
<1> QED
  BY <1>2, Invariance, PTL

\* The stored active set of a version never changes.
LEMMA SnapshotKept ==
    ASSUME Inv, [Next]_vars, NEW t \in Version
    PROVE  Snapshot(t)' = Snapshot(t) /\ t \in Version'
<1>1. CASE Begin
  BY <1>1, BeginSnapshots DEF Inv, TypeOK, Begin, Version
<1>2. CASE ~Begin
  BY <1>2 DEF Next, vars, BeginReadOnly, BeginAsOf, Commit, Rollback, Write, Snapshot, Version
<1> QED
  BY <1>1, <1>2

\* Nor does what a time travel query to it sees.
LEMMA SnapKept ==
    ASSUME Inv, [Next]_vars, NEW t \in Version, NEW k \in Key
    PROVE  Latest(versions'[k], SeenBy(t, k)') = Latest(versions[k], SeenBy(t, k))
<1>1. Snapshot(t)' = Snapshot(t)
  BY SnapshotKept
<1>2. CASE UNCHANGED versions
  BY <1>1, <1>2 DEF SeenBy
<1>3. CASE ~UNCHANGED versions
  <2>1. PICK x \in active : \A v : v # x =>
                /\ v \in DOMAIN versions'[k] <=> v \in DOMAIN versions[k]
                /\ v \in DOMAIN versions[k] => versions'[k][v] = versions[k][v]
    BY <1>3, OtherVersionsKept
  <2>2. ~(x < t /\ x \notin Snapshot(t))
    BY DEF Inv, ActiveInSnapshots
  <2>3. SeenBy(t, k)' = SeenBy(t, k)
    BY <1>1, <2>1, <2>2 DEF SeenBy
  <2>4. \A v \in SeenBy(t, k) : versions'[k][v] = versions[k][v]
    BY <2>1, <2>2 DEF SeenBy
  <2>5. next_version \in Nat /\ SeenBy(t, k) \in SUBSET (0..next_version)
    BY DEF SeenBy, Inv, TypeOK, Version
  <2>6. Latest(versions'[k], SeenBy(t, k)) = Latest(versions[k], SeenBy(t, k))
    BY <2>4, <2>5, SameLatest
  <2> QED
    BY <2>3, <2>6
<1> QED
  BY <1>2, <1>3

\* SnapKept for all versions at once, as the refinement mapping states it.
LEMMA SnapsKept ==
    ASSUME Inv, [Next]_vars, Version' = Version
    PROVE  Snaps' = Snaps
BY SnapKept DEF Snaps

\* An empty engine is the empty abstract store.
LEMMA InitRefines == Init => SI!Init
BY DEF Init, SI!Init, SI!NoWrites, Store, Snaps, Uncommitted, Version, Committed, Latest

\* begin() takes an abstract snapshot: what is committed is what the stored active
\* set leaves visible.
LEMMA BeginRefines ==
    ASSUME Inv, Begin
    PROVE  SI!Begin
<1> DEFINE x == next_version
<1>1. /\ x \in Nat \ {0} /\ Version = 1..(x - 1) /\ Version' = 1..x
      /\ next_version' = x + 1 /\ UNCHANGED versions
      /\ active' = active \cup {x}
      /\ active \subseteq Version
      /\ \A k \in Key : DOMAIN versions[k] \subseteq Version
  BY DEF Inv, TypeOK, Begin, Version
<1>2. \A v : v = x => Snapshot(v)' = active
  BY BeginSnapshots DEF Inv
<1>3. Store' = Store
  <2>1. \A k \in Key : Committed(k)' = Committed(k)
    BY <1>1 DEF Committed
  <2> QED
    BY <1>1, <2>1 DEF Store
<1>4. Snaps' = [u \in 1..x |-> IF u = x THEN Store ELSE Snaps[u]]
  <2>1. \A u \in Version, k \in Key :
            Latest(versions'[k], SeenBy(u, k)') = Snaps[u][k]
    BY SnapKept DEF Next, Snaps
  <2>2. \A u, k : u = x /\ k \in Key => SeenBy(u, k)' = Committed(k)
    BY <1>1, <1>2 DEF SeenBy, Committed
  <2>3. \A u, k : u = x /\ k \in Key => Latest(versions'[k], SeenBy(u, k)') = Store[k]
    BY <1>1, <2>2 DEF Store
  <2>4. Snaps' = [u \in 1..x |-> [k \in Key |-> Latest(versions'[k], SeenBy(u, k)')]]
    BY <1>1 DEF Snaps
  <2>5. \A u \in 1..x : u = x \/ u \in Version
    BY <1>1
  <2>6. ASSUME NEW u \in 1..x
        PROVE  [k \in Key |-> Latest(versions'[k], SeenBy(u, k)')]
                 = IF u = x THEN Store ELSE Snaps[u]
    <3>1. CASE u = x
      BY <2>3, <3>1 DEF Store
    <3>2. CASE u \in Version /\ u # x
      BY <2>1, <3>2 DEF Snaps
    <3> QED
      BY <2>5, <3>1, <3>2
  <2> QED
    BY <2>4, <2>6
<1>5. Uncommitted' = [u \in 1..x |-> IF u = x THEN SI!NoWrites ELSE Uncommitted[u]]
  <2>1. \A u \in Version : Pending(u)' = Pending(u)
    BY <1>1 DEF Pending
  <2>2. \A u : u = x => Pending(u)' = {}
    BY <1>1 DEF Pending
  <2>3. Uncommitted' = [u \in 1..x |-> [k \in Pending(u)' |-> versions[k][u]]]
    BY <1>1 DEF Uncommitted
  <2>4. ASSUME NEW u \in 1..x
        PROVE  [k \in Pending(u)' |-> versions[k][u]]
                 = IF u = x THEN SI!NoWrites ELSE Uncommitted[u]
    <3>1. CASE u = x
      BY <2>2, <3>1 DEF SI!NoWrites
    <3>2. CASE u # x
      BY <1>1, <2>1, <3>2 DEF Uncommitted
    <3> QED
      BY <3>1, <3>2
  <2> QED
    BY <2>3, <2>4
<1> QED
  BY <1>1, <1>3, <1>4, <1>5 DEF SI!Begin

\* Committed versions stay committed and keep their values as long as only an
\* uncommitted one is touched.
LEMMA StoreKept ==
    ASSUME Inv, \A k \in Key : Committed(k)' = Committed(k),
           \A k \in Key : \A v \in Committed(k) : versions'[k][v] = versions[k][v]
    PROVE  Store' = Store
<1>1. \A k \in Key : Committed(k) \in SUBSET (0..next_version)
  BY DEF Committed, Inv, TypeOK, Version
<1>2. \A k \in Key : Latest(versions'[k], Committed(k)) = Latest(versions[k], Committed(k))
  BY <1>1, SameLatest DEF Inv, TypeOK
<1>3. \A k \in Key : Latest(versions'[k], Committed(k)') = Latest(versions[k], Committed(k))
  BY <1>2
<1> QED
  BY <1>3 DEF Store

\* write_version() is an abstract write: without a conflict, nobody else has the key
\* pending and nobody has committed it since the snapshot.
LEMMA WriteRefines ==
    ASSUME Inv, NEW t \in txns, NEW k \in Key, NEW value \in Value \cup {None},
           Write(t, k, value)
    PROVE  SI!Write(t.version, k, value)
<1> DEFINE x == t.version
<1>1. /\ UNCHANGED <<next_version, active>> /\ UNCHANGED Version
      /\ versions' = [versions EXCEPT ![k] = Put(versions[k], x, value)]
      /\ DOMAIN versions = Key
      /\ \A l \in Key : DOMAIN versions[l] \subseteq Version
      /\ next_version \in Nat \ {0} /\ active \subseteq Version
  BY DEF Write, Inv, TypeOK, Version
<1>2. /\ x \in Version /\ x \in active
      /\ \A v \in DOMAIN versions[k] : /\ v <= x /\ v \notin Snapshot(x)
                                       /\ v # x => v \notin active
  BY WriteIsLatest
<1>3. /\ \A l \in Key \ {k} : versions'[l] = versions[l]
      /\ versions'[k] = Put(versions[k], x, value)
  BY <1>1
<1>4. Store[k] = Snaps[x][k]
  <2>1. Committed(k) = SeenBy(x, k)
    BY <1>1, <1>2 DEF Committed, SeenBy, Version
  <2> QED
    BY <1>2, <2>1 DEF Store, Snaps
<1>5. \A u \in active \ {x} : k \notin DOMAIN Uncommitted[u]
  BY <1>1, <1>2 DEF Uncommitted, Pending
<1>6. Uncommitted' = [Uncommitted EXCEPT ![x] =
            [l \in DOMAIN Uncommitted[x] \cup {k} |-> IF l = k THEN value ELSE Uncommitted[x][l]]]
  <2>1. \A u \in Version \ {x} : Pending(u)' = Pending(u)
    BY <1>1, <1>3 DEF Pending, Put
  <2>2. Pending(x)' = Pending(x) \cup {k}
    BY <1>1, <1>2, <1>3 DEF Pending, Put
  <2>3. \A u \in Version \ {x}, l \in Key : u \in DOMAIN versions[l] => versions'[l][u] = versions[l][u]
    BY <1>3 DEF Put
  <2>4. \A l \in Key \ {k} : versions'[l][x] = versions[l][x]
    BY <1>3
  <2>5. versions'[k][x] = value
    BY <1>3 DEF Put
  <2>6. DOMAIN Uncommitted = Version /\ DOMAIN Uncommitted' = Version
    BY <1>1 DEF Uncommitted
  <2>7. ASSUME NEW u \in Version \ {x}
        PROVE  Uncommitted'[u] = Uncommitted[u]
    <3>1. Uncommitted'[u] = [l \in Pending(u) |-> versions'[l][u]]
      BY <1>1, <2>1 DEF Uncommitted
    <3>2. \A l \in Pending(u) : l \in Key /\ u \in DOMAIN versions[l]
      BY DEF Pending
    <3> QED
      BY <3>1, <3>2, <2>3 DEF Uncommitted
  <2>8. Uncommitted'[x] = [l \in DOMAIN Uncommitted[x] \cup {k} |->
                              IF l = k THEN value ELSE Uncommitted[x][l]]
    <3>1. Uncommitted'[x] = [l \in Pending(x) \cup {k} |-> versions'[l][x]]
      BY <1>1, <1>2, <2>2 DEF Uncommitted
    <3>2. Uncommitted[x] = [l \in Pending(x) |-> versions[l][x]]
      BY <1>2 DEF Uncommitted
    <3>3. Pending(x) \subseteq Key
      BY DEF Pending
    <3> QED
      BY <3>1, <3>2, <3>3, <2>4, <2>5
  <2> QED
    BY <2>6, <2>7, <2>8, <1>2 DEF Uncommitted
<1>7. Store' = Store
  <2>1. \A l \in Key : Committed(l)' = Committed(l)
    BY <1>1, <1>2, <1>3 DEF Committed, Put
  <2>2. \A l \in Key : \A v \in Committed(l) : versions'[l][v] = versions[l][v]
    BY <1>2, <1>3 DEF Committed, Put
  <2> QED
    BY <2>1, <2>2, StoreKept
<1>8. Snaps' = Snaps
  BY <1>1, SnapsKept DEF Next
<1> QED
  BY <1>1, <1>2, <1>4, <1>5, <1>6, <1>7, <1>8 DEF SI!Write

\* Leaving the active set empties the pending writes of x and of nobody else.
LEMMA UncommittedEnds ==
    ASSUME Inv, NEW x \in active, active' = active \ {x}, Version' = Version,
           \A k \in Key : \A v : v # x =>
                /\ v \in DOMAIN versions'[k] <=> v \in DOMAIN versions[k]
                /\ v \in DOMAIN versions[k] => versions'[k][v] = versions[k][v]
    PROVE  Uncommitted' = [Uncommitted EXCEPT ![x] = SI!NoWrites]
<1>1. x \in Version /\ DOMAIN Uncommitted = Version /\ DOMAIN Uncommitted' = Version
  BY DEF Inv, TypeOK, Uncommitted
<1>2. Uncommitted'[x] = SI!NoWrites
  <2>1. Pending(x)' = {}
    BY DEF Pending
  <2>2. Uncommitted'[x] = [l \in {} |-> versions'[l][x]]
    BY <1>1, <2>1 DEF Uncommitted
  <2> QED
    BY <2>2 DEF SI!NoWrites
<1>3. ASSUME NEW u \in Version \ {x}
      PROVE  Uncommitted'[u] = Uncommitted[u]
  <2>1. Pending(u)' = Pending(u)
    BY DEF Pending
  <2>2. Uncommitted'[u] = [l \in Pending(u) |-> versions'[l][u]]
    BY <2>1 DEF Uncommitted
  <2>3. \A l \in Pending(u) : l \in Key /\ u \in DOMAIN versions[l]
    BY DEF Pending
  <2> QED
    BY <2>2, <2>3 DEF Uncommitted
<1> QED
  BY <1>1, <1>2, <1>3 DEF Uncommitted

\* commit() publishes all pending writes at once.
LEMMA CommitRefines ==
    ASSUME Inv, NEW t \in txns, Commit(t)
    PROVE  SI!Commit(t.version)
<1> DEFINE x == t.version
<1>1. /\ UNCHANGED <<next_version, versions>> /\ UNCHANGED Version
      /\ x \in active /\ active' = active \ {x} /\ x \in Version
      /\ \A k \in Key : DOMAIN versions[k] \subseteq Version
      /\ next_version \in Nat \ {0}
  BY DEF Commit, Resumable, Inv, TypeOK, Version
<1>2. Snaps' = Snaps
  BY <1>1, SnapsKept DEF Next
<1>3. Uncommitted' = [Uncommitted EXCEPT ![x] = SI!NoWrites]
  BY <1>1, UncommittedEnds
<1>4. Uncommitted[x] = [k \in Pending(x) |-> versions[k][x]]
  BY <1>1 DEF Uncommitted
<1>5. ASSUME NEW k \in Key
      PROVE  Latest(versions[k], Committed(k)')
               = IF k \in DOMAIN Uncommitted[x]
                 THEN [by |-> x, value |-> Uncommitted[x][k]] ELSE Store[k]
  <2>1. CASE x \in DOMAIN versions[k]
    <3>1. Committed(k)' = Committed(k) \cup {x}
      BY <1>1, <2>1 DEF Committed
    <3>2. \A v \in DOMAIN versions[k] : v <= x
      BY <1>1, <2>1 DEF Inv, WritesOnTop, Version
    <3>3. Committed(k) \cup {x} \in SUBSET (0..next_version)
      BY <1>1 DEF Committed, Version
    <3>4. \A v \in Committed(k) \cup {x} : v <= x
      BY <2>1, <3>2 DEF Committed
    <3>5. Max(Committed(k) \cup {x}) = x
      BY <1>1, <3>3, <3>4, MaxIs
    <3>6. Latest(versions[k], Committed(k)') = [by |-> x, value |-> versions[k][x]]
      BY <3>1, <3>5 DEF Latest
    <3>7. k \in Pending(x)
      BY <1>1, <2>1 DEF Pending
    <3> QED
      BY <1>4, <3>6, <3>7
  <2>2. CASE x \notin DOMAIN versions[k]
    <3>1. Committed(k)' = Committed(k)
      BY <1>1, <2>2 DEF Committed
    <3>2. k \notin Pending(x)
      BY <2>2 DEF Pending
    <3> QED
      BY <1>4, <3>1, <3>2 DEF Store
  <2> QED
    BY <2>1, <2>2
<1>6. Store' = [k \in Key |-> IF k \in DOMAIN Uncommitted[x]
                              THEN [by |-> x, value |-> Uncommitted[x][k]] ELSE Store[k]]
  BY <1>1, <1>5 DEF Store
<1> QED
  BY <1>1, <1>2, <1>3, <1>6 DEF SI!Commit

\* rollback() leaves no trace in what is committed.
LEMMA RollbackRefines ==
    ASSUME Inv, NEW t \in txns, Rollback(t)
    PROVE  SI!Rollback(t.version)
<1> DEFINE x == t.version
<1>1. /\ UNCHANGED next_version /\ UNCHANGED Version
      /\ x \in active /\ active' = active \ {x}
  BY DEF Rollback, Resumable, Version
<1>2. Snaps' = Snaps
  BY <1>1, SnapsKept DEF Next
<1>3. \A k \in Key :
        /\ x \notin DOMAIN versions'[k]
        /\ \A v : v # x => /\ v \in DOMAIN versions'[k] <=> v \in DOMAIN versions[k]
                           /\ v \in DOMAIN versions[k] => versions'[k][v] = versions[k][v]
  BY <1>1 DEF Rollback, Remove, Inv, WriteRecordsExact
<1>4. Uncommitted' = [Uncommitted EXCEPT ![x] = SI!NoWrites]
  BY <1>1, <1>3, UncommittedEnds
<1>5. Store' = Store
  <2>1. \A k \in Key : Committed(k)' = Committed(k)
    BY <1>1, <1>3 DEF Committed
  <2>2. \A k \in Key : \A v \in Committed(k) : versions'[k][v] = versions[k][v]
    BY <1>1, <1>3 DEF Committed
  <2> QED
    BY <2>1, <2>2, StoreKept
<1> QED
  BY <1>1, <1>2, <1>4, <1>5 DEF SI!Rollback

\* Read-only transactions are not in the abstract state: beginning one stutters.
LEMMA ReadOnlyStutters ==
    ASSUME UNCHANGED <<next_version, active, snapshots, versions>>
    PROVE  UNCHANGED SI!siVars
<1>1. UNCHANGED Version /\ \A v : Snapshot(v)' = Snapshot(v)
  BY DEF Version, Snapshot
<1>2. UNCHANGED Store
  BY DEF Store, Committed
<1>3. UNCHANGED Snaps
  BY <1>1 DEF Snaps, SeenBy
<1>4. UNCHANGED Uncommitted
  BY <1>1 DEF Uncommitted, Pending
<1> QED
  BY <1>2, <1>3, <1>4 DEF SI!siVars

\* Every step is an abstract step or changes nothing abstract.
LEMMA NextRefines == Inv /\ [Next]_vars => [SI!Next]_(SI!siVars)
<1> SUFFICES ASSUME Inv, [Next]_vars
             PROVE  SI!Next \/ UNCHANGED SI!siVars
  OBVIOUS
<1>1. CASE Begin
  BY <1>1, BeginRefines DEF SI!Next
<1>2. CASE BeginReadOnly \/ (\E v \in 0..MaxVersion : BeginAsOf(v)) \/ UNCHANGED vars
  BY <1>2, ReadOnlyStutters DEF BeginReadOnly, BeginAsOf, vars
<1>3. ASSUME NEW t \in txns, Commit(t) \/ Rollback(t)
      PROVE  SI!Next
  <2>1. t.version \in active
    BY <1>3 DEF Commit, Rollback, Resumable
  <2> QED
    BY <1>3, <2>1, CommitRefines, RollbackRefines DEF SI!Next
<1>4. ASSUME NEW t \in txns, NEW k \in Key, NEW value \in Value \cup {None},
             Write(t, k, value)
      PROVE  SI!Next
  <2>1. t.version \in active
    BY <1>4 DEF Write, Resumable
  <2> QED
    BY <1>4, <2>1, WriteRefines DEF SI!Next
<1> QED
  BY <1>1, <1>2, <1>3, <1>4 DEF Next

\* The MVCC engine implements snapshot isolation, for any keys, values and number
\* of transactions.
THEOREM Refinement == Spec => ProvidesSnapshotIsolation
BY InitRefines, NextRefines, Invariance, PTL DEF Spec, SI!Spec, ProvidesSnapshotIsolation

=============================================================================
