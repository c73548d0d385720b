-------------------------------- MODULE Scan --------------------------------
(***************************************************************************)
(* Scans and reads of an MVCC transaction (src/storage/mvcc.rs) over an    *)
(* engine whose keys are encoded with KeyCode, consumed from either end.   *)
(*                                                                         *)
(* The engine is locked while a scan is open, so it does not change.  It   *)
(* holds versions of SQL keys and one record of every other kind.  The     *)
(* value of a version is the pair of its key and version, so that what a   *)
(* scan returns can be told apart; a deleted one is a tombstone.           *)
(***************************************************************************)
EXTENDS KeyCode, TLC

CONSTANT Cases   \* a store (a set of key, version, live), a transaction and a query

VARIABLES store, txn, query,
          opened, iter, \* the ScanIterator
          front, back,  \* what it returned from each end
          result,       \* what it should return
          ended         \* the ends that have returned None or an error

vars == <<store, txn, query, opened, iter, result, front, back, ended>>

(***************************************************************************)
(* The engine.                                                             *)
(***************************************************************************)
Tombstone == <<"tombstone">>

SqlBytes(key) == Serialize(SqlKey, key)

OtherKeys == {<<0>>, <<1, 1>>, <<2, 1>>, <<3, 1, <<1>>>>, <<5, << >>>>}

Entries(S) ==
  {[key |-> VersionKey(SqlBytes(r.key), r.version),
    value |-> IF r.live THEN <<r.key, r.version>> ELSE Tombstone] : r \in S}
  \cup {[key |-> Serialize(MVCCKey, k), value |-> Tombstone] : k \in OtherKeys}

End   == [kind |-> "end"]
Error == [kind |-> "error"]

(* An entry with its key decoded, which the iterators do one by one.       *)
Decoded(e) ==
  LET d == Deserialize(MVCCKey, e.key)
  IN  IF ~d.ok \/ d.values[1] # VersionIndex THEN Error
      ELSE [kind |-> "item", key |-> d.values[2], version |-> d.values[3], value |-> e.value]

(* Engine::scan(): the entries of a range in the order of their keys.      *)
EngineScan(S, start, end) ==
  LET entries == {e \in Entries(S) : InRange(e.key, start, end)}
      sorted  == SortSeq(FoldSet(LAMBDA e, seq : Append(seq, e), << >>, entries),
                         LAMBDA a, b : Less(a.key, b.key))
  IN  [i \in DOMAIN sorted |-> Decoded(sorted[i])]

(* Scan::iter(): a range scan, or a scan by the prefix of SQL keys.        *)
Select(S, q) ==
  IF q.kind = "prefix"
  THEN LET prefix == VersionPrefix(Serialize(SqlPrefix, q.prefix))
       IN  EngineScan(S, Included(prefix), AfterPrefix(prefix))
  ELSE LET Encoded(bound) == IF bound = Unbounded THEN bound ELSE <<bound[1], SqlBytes(bound[2])>>
       IN  EngineScan(S, ScanStart(Encoded(q.start)), ScanEnd(Encoded(q.end)))

(***************************************************************************)
(* VersionIterator.                                                        *)
(***************************************************************************)
IsVisible(t, v) ==
  v \notin t.active /\ IF t.read_only THEN v < t.version ELSE v <= t.version

(* The next entry from one end that is visible, or an error.               *)
Emitted(t, e) == e = Error \/ IsVisible(t, e.version)

VersionNext(t, inner) ==
  LET i == SelectInSeq(inner, LAMBDA e : Emitted(t, e))
  IN  IF i = 0 THEN [item |-> End, inner |-> << >>]
      ELSE [item |-> inner[i], inner |-> SubSeq(inner, i + 1, Len(inner))]

VersionNextBack(t, inner) ==
  LET i == SelectLastInSeq(inner, LAMBDA e : Emitted(t, e))
  IN  IF i = 0 THEN [item |-> End, inner |-> << >>]
      ELSE [item |-> inner[i], inner |-> SubSeq(inner, 1, i - 1)]

(***************************************************************************)
(* std::iter::Peekable over it: peeked is empty or holds one item.         *)
(***************************************************************************)
PeekNext(t, it) ==
  IF it.peeked # << >> THEN [item |-> it.peeked[1], it |-> [it EXCEPT !.peeked = << >>]]
  ELSE LET n == VersionNext(t, it.inner)
       IN  [item |-> n.item, it |-> [it EXCEPT !.inner = n.inner]]

Peek(t, it) ==
  IF it.peeked # << >> THEN it
  ELSE LET n == VersionNext(t, it.inner)
       IN  [it EXCEPT !.peeked = <<n.item>>, !.inner = n.inner]

(* An item that was peeked at the front comes last from the back.          *)
PeekNextBack(t, it) ==
  LET n == VersionNextBack(t, it.inner)
  IN  IF it.peeked = <<End>> THEN [item |-> End, it |-> it]
      ELSE IF n.item = End /\ it.peeked # << >>
      THEN [item |-> it.peeked[1], it |-> [it EXCEPT !.peeked = <<End>>, !.inner = n.inner]]
      ELSE [item |-> n.item, it |-> [it EXCEPT !.inner = n.inner]]

(***************************************************************************)
(* What scans and reads promise, in terms of keys that are not encoded.    *)
(***************************************************************************)
(* The order of values: by type, and then by the value of the type.        *)
PrimitiveLess(type, a, b) ==
  LET Real(bits) == IF bits < Words \div 2 THEN bits ELSE Words \div 2 - 1 - bits
  IN  CASE type = "bool" -> ~a /\ b
        [] type = "i64"  -> a < b
        [] type = "f64"  -> Real(a) < Real(b)
        [] type = "bytes" -> Less(a, b)

TupleLess(schema, a, b, FieldLess(_, _, _)) ==
  \/ a[1] < b[1]
  \/ /\ a[1] = b[1]
     /\ \E i \in 2 .. Len(a) : /\ \A j \in 2 .. i - 1 : a[j] = b[j]
                               /\ FieldLess(schema[a[1] + 1][i - 1], a[i], b[i])

FieldLess(type, a, b) ==
  IF type = "value" THEN TupleLess(ValueSchema, a, b, PrimitiveLess)
  ELSE PrimitiveLess(type, a, b)

KeyLess(a, b) == TupleLess(SqlKey, a, b, FieldLess)

Matches(q, k) ==
  IF q.kind = "prefix" THEN IsPrefix(q.prefix, k)
  ELSE /\ q.start # Unbounded => KeyLess(q.start[2], k) \/ (q.start = Included(k))
       /\ q.end # Unbounded   => KeyLess(k, q.end[2])   \/ (q.end = Included(k))

(* The newest version of a key that a transaction sees.                    *)
Seen(S, t, k) == {r.version : r \in {r \in S : r.key = k /\ IsVisible(t, r.version)}}
Latest(S, t, k) ==
  LET seen == Seen(S, t, k)
  IN  IF seen = {} \/ \E r \in S : r.key = k /\ r.version = Max(seen) /\ ~r.live
      THEN Tombstone ELSE <<k, Max(seen)>>

Result ==
  LET all  == {r.key : r \in store}
      live == {k \in all : Matches(query, k) /\ Latest(store, txn, k) # Tombstone}
  IN  SortSeq(FoldSet(LAMBDA k, seq : Append(seq, Latest(store, txn, k)), << >>, live),
              LAMBDA a, b : KeyLess(a[1], b[1]))

(***************************************************************************)
(* ScanIterator.                                                           *)
(***************************************************************************)
(* The newest version is the last of its key from the front.               *)
RECURSIVE TryNext(_, _)
TryNext(t, it) ==
  LET n == PeekNext(t, it)
      p == Peek(t, n.it)
      next == p.peeked[1]
  IN  IF n.item.kind # "item" THEN n
      ELSE IF next.kind = "item" /\ next.key = n.item.key THEN TryNext(t, p)
      ELSE IF next = Error THEN [item |-> Error, it |-> p]
      ELSE IF n.item.value = Tombstone THEN TryNext(t, p)
      ELSE [item |-> n.item, it |-> p]

(* A reverse scan that keeps no record of the last key.                    *)
RECURSIVE TryNextBackForgetful(_, _)
TryNextBackForgetful(t, it) ==
  LET n == PeekNextBack(t, it)
  IN  IF n.item.kind = "item" /\ n.item.value = Tombstone THEN TryNextBackForgetful(t, n.it)
      ELSE n

(* From the back it is the first one; the others are skipped.              *)
RECURSIVE TryNextBack(_, _)
TryNextBack(t, it) ==
  LET n == PeekNextBack(t, it)
      marked == [n.it EXCEPT !.last_back = <<n.item.key>>]
  IN  IF n.item.kind # "item" THEN n
      ELSE IF it.last_back = <<n.item.key>> THEN TryNextBack(t, n.it)
      ELSE IF n.item.value = Tombstone THEN TryNextBack(t, marked)
      ELSE [item |-> n.item, it |-> marked]

(* scan() or scan_prefix(), and iter().                                    *)
Open ==
  /\ ~opened
  /\ opened' = TRUE
  /\ iter' = [iter EXCEPT !.inner = Select(store, query)]
  /\ result' = Result
  /\ UNCHANGED <<store, txn, query, front, back, ended>>

Advance(end, r) ==
  /\ opened /\ end \notin ended
  /\ iter' = r.it
  /\ ended' = IF r.item.kind = "item" THEN ended ELSE ended \cup {end, r.item.kind}
  /\ UNCHANGED <<store, txn, query, opened, result>>

NextFront ==
  \E r \in {TryNext(txn, iter)} :
    /\ Advance("front", r)
    /\ front' = IF r.item.kind = "item" THEN Append(front, r.item.value) ELSE front
    /\ UNCHANGED back

NextBack ==
  \E r \in {TryNextBack(txn, iter)} :
    /\ Advance("back", r)
    /\ back' = IF r.item.kind = "item" THEN Append(back, r.item.value) ELSE back
    /\ UNCHANGED front

Init ==
  /\ \E c \in Cases : store = c.store /\ txn = c.txn /\ query = c.query
  /\ opened = FALSE /\ iter = [inner |-> << >>, peeked |-> << >>, last_back |-> << >>]
  /\ result = << >> /\ front = << >> /\ back = << >> /\ ended = {}

Next == Open \/ NextFront \/ NextBack

Spec == Init /\ [][Next]_vars

(* Transaction::get(): the versions of a key up to the transaction's, from *)
(* the newest (in the variant, from the oldest).                           *)
GetOldest(S, t, key) ==
  LET k    == SqlBytes(key)
      scan == EngineScan(S, Included(VersionKey(k, 0)), Included(VersionKey(k, t.version)))
      i    == SelectInSeq(scan, LAMBDA e : IsVisible(t, e.version))
  IN  IF i = 0 THEN Tombstone ELSE scan[i].value
Get(S, t, key) ==
  LET k    == SqlBytes(key)
      scan == EngineScan(S, Included(VersionKey(k, 0)), Included(VersionKey(k, t.version)))
      i    == SelectLastInSeq(scan, LAMBDA e : IsVisible(t, e.version))
  IN  IF i = 0 THEN Tombstone ELSE scan[i].value

(***************************************************************************)
(* Properties.                                                             *)
(***************************************************************************)
(* Key::decode() gives back the key that Key::encode() was given, for the  *)
(* SQL key and for the versioned key it is wrapped in.                     *)
RoundTrip ==
  ~opened => \A r \in store :
    LET d == Deserialize(MVCCKey, VersionKey(SqlBytes(r.key), r.version))
        k == Deserialize(SqlKey, SqlBytes(r.key))
    IN  /\ d.ok /\ d.values = <<VersionIndex, SqlBytes(r.key), r.version>>
        /\ k.ok /\ k.values = r.key

(* Some key has an older version that the transaction sees as well.        *)
Rewritten == \E r, s \in store : /\ r.key = s.key /\ r.version < s.version
                                 /\ IsVisible(txn, r.version) /\ IsVisible(txn, s.version)

(* A scan returns the newest version that the transaction sees of exactly  *)
(* the keys asked for, tombstones left out: from the front in the order of *)
(* the keys and from the back reversed.  No scan meets a record of another *)
(* kind or one it cannot decode.  When both try_next() and try_next_back() *)
(* are used, in any order, each is exact until they have met, and none     *)
(* stops before that.  Past that point the front has nothing to return,    *)
(* which is said here of scans from the front alone and of keys without    *)
(* older visible versions.                                                 *)
ScanExact ==
  LET n == Len(result) - Len(back)
  IN  /\ "error" \notin ended
      /\ IsPrefix(back, Reverse(result))
      /\ IsPrefix(SubSeq(front, 1, Min({n, Len(front)})), result)
      /\ back = << >> \/ ~Rewritten => Len(front) <= n
      /\ ended # {} => Len(front) >= n

(* get() returns what a scan would.                                        *)
PointReads ==
  ~opened => \A r \in store : Get(store, txn, r.key) = Latest(store, txn, r.key)

=============================================================================
