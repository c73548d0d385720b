------------------------------- MODULE KeyCode -------------------------------
(***************************************************************************)
(* The KeyCode encoding (src/encoding/keycode.rs), the keys encoded with   *)
(* it (Key and KeyPrefix of src/storage/mvcc.rs and src/sql/engine/kv.rs), *)
(* and the ranges of an engine that scans select (src/storage/engine.rs).  *)
(*                                                                         *)
(* An enum is a tuple of the index of its variant and its fields.  A float *)
(* is the number its bits spell.  The number of byte values and the bytes  *)
(* of an integer are parameters, 256 and 8 in the code.                    *)
(***************************************************************************)
EXTENDS Integers, Sequences, FiniteSets, SequencesExt

CONSTANTS Byte,   \* the number of values of a byte
          Width   \* the number of bytes of an integer

ASSUME KeyCodeAssumption ==
  /\ Byte \in Nat /\ Byte % 2 = 0 /\ Byte > 6
  /\ Width \in Nat \ {0}

FF    == Byte - 1
Words == Byte ^ Width
U64Max == Words - 1

(***************************************************************************)
(* Serializer.                                                             *)
(***************************************************************************)
BigEndian(n) == [i \in 1 .. Width |-> (n \div Byte ^ (Width - i)) % Byte]

FlipSign(bytes) == <<(bytes[1] + Byte \div 2) % Byte>> \o Tail(bytes)
FlipAll(bytes)  == [i \in DOMAIN bytes |-> FF - bytes[i]]
Negative(bytes) == bytes[1] >= Byte \div 2

SerializeI64(n) == FlipSign(BigEndian(n % Words))

SerializeF64(bits) ==
  LET bytes == BigEndian(bits) IN IF Negative(bytes) THEN FlipAll(bytes) ELSE FlipSign(bytes)

(* Zero bytes that are not escaped look like the terminator.               *)
Unescaped(b) == <<b>>
Escape(b) == IF b = 0 THEN <<0, FF>> ELSE <<b>>

SerializeBytes(v) == FlattenSeq([i \in DOMAIN v |-> Escape(v[i])]) \o <<0, 0>>

SerializePrimitive(type, v) ==
  CASE type = "bool"  -> <<IF v THEN 1 ELSE 0>>
    [] type = "u64"   -> BigEndian(v)
    [] type = "i64"   -> SerializeI64(v)
    [] type = "f64"   -> SerializeF64(v)
    [] type = "bytes" -> SerializeBytes(v)

(* The field types of the variants of an enum, and a variant of it.        *)
ValueSchema == << << >>, <<"bool">>, <<"i64">>, <<"f64">>, <<"bytes">> >>

FieldTypes(schema, v) == schema[v[1] + 1]

SerializeVariant(v, fields) == <<v[1]>> \o FlattenSeq(fields)

SerializeField(type, v) ==
  LET types == FieldTypes(ValueSchema, v)
  IN  IF type # "value" THEN SerializePrimitive(type, v)
      ELSE SerializeVariant(v, [i \in DOMAIN types |-> SerializePrimitive(types[i], v[i + 1])])

Serialize(schema, key) ==
  LET types == FieldTypes(schema, key)
  IN  SerializeVariant(key, [i \in DOMAIN types |-> SerializeField(types[i], key[i + 1])])

(***************************************************************************)
(* Deserializer: what is decoded so far, the input left, and whether an    *)
(* error was met.                                                          *)
(***************************************************************************)
Input(bytes) == [ok |-> TRUE, values |-> << >>, rest |-> bytes]
Failed(d) == [d EXCEPT !.ok = FALSE]
Push(d, v, rest) == [d EXCEPT !.values = Append(@, v), !.rest = rest]

FromBigEndian(bytes) == FoldLeft(LAMBDA n, b : n * Byte + b, 0, bytes)
Signed(n) == IF n < Words \div 2 THEN n ELSE n - Words
FromF64(bytes) == FromBigEndian(IF Negative(bytes) THEN FlipSign(bytes) ELSE FlipAll(bytes))

FromBytes(type, bytes) ==
  CASE type = "bool" -> bytes[1] = 1
    [] type = "u64"  -> FromBigEndian(bytes)
    [] type = "i64"  -> Signed(FromBigEndian(FlipSign(bytes)))
    [] type = "f64"  -> FromF64(bytes)

(* take_bytes(): the bytes of a fixed-size type, if there are enough.      *)
TakeBytes(d, type) ==
  LET n == IF type = "bool" THEN 1 ELSE Width
  IN  IF Len(d.rest) < n THEN Failed(d)
      ELSE Push(d, FromBytes(type, SubSeq(d.rest, 1, n)), SubSeq(d.rest, n + 1, Len(d.rest)))

(* decode_next_bytes(): a zero byte begins an escape or the terminator.    *)
DecodeNextBytes(d) ==
  LET Scan(st, b) ==
        CASE st.mode \in {"done", "bad"}           -> st
          [] st.mode = "zero" /\ b = 0             -> [st EXCEPT !.mode = "done", !.taken = @ + 1]
          [] st.mode = "zero" /\ b = FF            -> [mode |-> "plain", taken |-> st.taken + 1,
                                                       decoded |-> Append(st.decoded, 0)]
          [] st.mode = "zero" /\ b \notin {0, FF}  -> [st EXCEPT !.mode = "bad"]
          [] st.mode = "plain" /\ b = 0            -> [st EXCEPT !.mode = "zero", !.taken = @ + 1]
          [] st.mode = "plain" /\ b # 0            -> [st EXCEPT !.taken = @ + 1,
                                                              !.decoded = Append(@, b)]
      end == FoldLeft(Scan, [mode |-> "plain", taken |-> 0, decoded |-> << >>], d.rest)
  IN  IF end.mode # "done" THEN Failed(d)
      ELSE Push(d, end.decoded, SubSeq(d.rest, end.taken + 1, Len(d.rest)))

DeserializePrimitive(d, type) ==
  CASE ~d.ok -> d
    [] d.ok /\ type = "bytes" -> DecodeNextBytes(d)
    [] d.ok /\ type = "bool" /\ d.rest # << >> /\ Head(d.rest) > 1 -> Failed(d)
    [] OTHER -> TakeBytes(d, type)

(* The index of the variant; its fields follow.                            *)
DeserializeVariant(schema, d) ==
  IF d.rest = << >> \/ Head(d.rest) >= Len(schema) THEN Failed(d)
  ELSE Push(d, Head(d.rest), Tail(d.rest))

TypesToCome(schema, d) == IF d.ok THEN FieldTypes(schema, d.values) ELSE << >>

DeserializeField(d, type) ==
  LET tag == DeserializeVariant(ValueSchema, Input(d.rest))
      v   == FoldLeft(DeserializePrimitive, tag, TypesToCome(ValueSchema, tag))
  IN  IF type # "value" THEN DeserializePrimitive(d, type)
      ELSE IF ~d.ok \/ ~v.ok THEN Failed(d) ELSE Push(d, v.values, v.rest)

(* deserialize(): bytes that are left over are an error.                   *)
Deserialize(schema, bytes) ==
  LET tag == DeserializeVariant(schema, Input(bytes))
      d   == FoldLeft(DeserializeField, tag, TypesToCome(schema, tag))
  IN  IF d.rest = << >> THEN d ELSE Failed(d)

(***************************************************************************)
(* Keys: NextVersion, TxnActive, TxnActiveSnapshot, TxnWrite, Version and  *)
(* Unversioned of MVCC; Table, Index and Row of SQL.                       *)
(***************************************************************************)
MVCCKey    == << << >>, <<"u64">>, <<"u64">>, <<"u64", "bytes">>, <<"bytes", "u64">>, <<"bytes">> >>
MVCCPrefix == << << >>, << >>, << >>, <<"u64">>, <<"bytes">>, << >> >>
VersionIndex == 4

SqlKey    == << <<"bytes">>, <<"bytes", "bytes", "value">>, <<"bytes", "value">> >>
SqlPrefix == << << >>, <<"bytes", "bytes">>, <<"bytes">> >>

VersionKey(key, v) == Serialize(MVCCKey, <<VersionIndex, key, v>>)

(***************************************************************************)
(* The engine's order, and the ranges scans select.                        *)
(***************************************************************************)
Less(a, b) ==
  \E i \in 1 .. Len(b) :
    /\ \A j \in 1 .. i - 1 : j <= Len(a) /\ a[j] = b[j]
    /\ i > Len(a) \/ a[i] < b[i]

Included(k) == <<"included", k>>
Excluded(k) == <<"excluded", k>>
Unbounded   == <<"unbounded">>

InRange(k, start, end) ==
  /\ CASE start[1] = "included"  -> ~Less(k, start[2])
       [] start[1] = "excluded"  -> Less(start[2], k)
       [] start[1] = "unbounded" -> TRUE
  /\ CASE end[1] = "included"    -> ~Less(end[2], k)
       [] end[1] = "excluded"    -> Less(k, end[2])
       [] end[1] = "unbounded"   -> TRUE

(* The end of the range of keys that begin with a prefix, in the engine's  *)
(* scan_prefix(): the last byte that is not 0xff, plus one.              *)
AfterPrefix(prefix) ==
  LET i == SelectLastInSeq(prefix, LAMBDA b : b # FF)
  IN  IF i = 0 THEN Unbounded
      ELSE Excluded(Append(SubSeq(prefix, 1, i - 1), prefix[i] + 1))

(* Transaction::scan_prefix(): the terminator is cut off the prefix.       *)
VersionPrefix(key) ==
  LET prefix == Serialize(MVCCPrefix, <<VersionIndex, key>>)
  IN  SubSeq(prefix, 1, Len(prefix) - 2)

(* Transaction::scan(): the bounds of a range of keys.                     *)
ScanStart(bound) ==
  CASE bound[1] = "excluded"  -> Excluded(VersionKey(bound[2], U64Max))
    [] bound[1] = "included"  -> Included(VersionKey(bound[2], 0))
    [] bound[1] = "unbounded" -> Included(VersionKey(<< >>, 0))

ScanEnd(bound) ==
  CASE bound[1] = "excluded"  -> Excluded(VersionKey(bound[2], 0))
    [] bound[1] = "included"  -> Included(VersionKey(bound[2], U64Max))
    [] bound[1] = "unbounded" -> Excluded(Serialize(MVCCPrefix, <<VersionIndex + 1>>))

=============================================================================
