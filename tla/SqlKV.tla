-------------------------------- MODULE SqlKV --------------------------------
(***************************************************************************)
(* The SQL engine over a key/value engine (src/sql/engine/kv.rs, with the  *)
(* validation of src/sql/schema.rs and the records of src/storage/mvcc.rs) *)
(* as functions of the content of the engine.                              *)
(*                                                                         *)
(* An engine is a function from engine keys to values.  A call of a        *)
(* transaction is a record of the engine it leaves (db), the writes it     *)
(* made in their order (ops) and its result (res), "ok" or the kind of the *)
(* error; an error leaves the writes made before it.  The order of the     *)
(* writes is kept because a process can stop between any two of them.      *)
(***************************************************************************)
EXTENDS Types, FiniteSets, FiniteSetsExt, SequencesExt

CONSTANT None  \* an absent value, and the tombstone of a version

(***************************************************************************)
(* The engine.                                                             *)
(***************************************************************************)
Set(k, v) == [key |-> k, value |-> v, present |-> TRUE]
Unset(k)  == [key |-> k, value |-> None, present |-> FALSE]

Write(db, op) ==
  LET keys == IF op.present THEN DOMAIN db \cup {op.key} ELSE DOMAIN db \ {op.key}
  IN  [k \in keys |-> IF k = op.key THEN op.value ELSE db[k]]

Lookup(db, k, default) == IF k \in DOMAIN db THEN db[k] ELSE default

Call(db) == [db |-> db, ops |-> << >>, res |-> "ok"]
Ok(c) == c.res = "ok"
Fail(c, error) == [c EXCEPT !.res = error]
Emit(c, ops) == [c EXCEPT !.db = FoldLeft(Write, @, ops), !.ops = @ \o ops]

(***************************************************************************)
(* MVCC transactions.                                                      *)
(***************************************************************************)
NextVersion(db) == Lookup(db, <<"next">>, 1)
Active(db) == {k[2] : k \in {x \in DOMAIN db : x[1] = "active"}}
Writes(db, v) == {k[3] : k \in {x \in DOMAIN db : x[1] = "write" /\ x[2] = v}}
VersionsOf(db, k) == {x[3] : x \in {x \in DOMAIN db : x[1] = "version" /\ x[2] = k}}

Txn(version, read_only, active) ==
  [version |-> version, read_only |-> read_only, active |-> active]

Visible(txn, v) ==
  v \notin txn.active /\ IF txn.read_only THEN v < txn.version ELSE v <= txn.version

(* The state begin() returns, and the writes that begin it.                *)
NewTxn(db) == Txn(NextVersion(db), FALSE, Active(db))

Begin(db) ==
  LET v == NextVersion(db)
  IN  Emit(Call(db), <<Set(<<"next">>, v + 1)>>
                       \o (IF Active(db) = {} THEN << >>
                           ELSE <<Set(<<"snapshot", v>>, Active(db))>>)
                       \o <<Set(<<"active", v>>, None)>>)

(* begin_read_only(); as_of is a version or None.                          *)
ReadOnlyTxn(db, as_of) ==
  IF as_of = None THEN Txn(NextVersion(db), TRUE, Active(db))
  ELSE Txn(as_of, TRUE, Lookup(db, <<"snapshot", as_of>>, {}))

AsOfExists(db, as_of) == as_of = None \/ as_of < NextVersion(db)

Resumable(db, txn) == txn.read_only \/ txn.version \in Active(db)

(* A set in one fixed order, as a scan finds its keys.                     *)
Listed(S) == FoldSet(LAMBDA x, seq : Append(seq, x), << >>, S)

(* A commit that ends the transaction before it removes its records.       *)
CommitActiveFirst(c, txn) ==
  IF txn.read_only THEN c
  ELSE LET keys == Listed(Writes(c.db, txn.version))
       IN  Emit(c, <<Unset(<<"active", txn.version>>)>>
                     \o [i \in DOMAIN keys |-> Unset(<<"write", txn.version, keys[i]>>)])

Commit(c, txn) ==
  IF txn.read_only THEN c
  ELSE LET keys == Listed(Writes(c.db, txn.version))
       IN  Emit(c, [i \in DOMAIN keys |-> Unset(<<"write", txn.version, keys[i]>>)]
                     \o <<Unset(<<"active", txn.version>>)>>)

(* A rollback that removes the records first and then the versions.        *)
RollbackRecordsFirst(c, txn) ==
  LET keys == Listed(Writes(c.db, txn.version))
  IN  Emit(c, [i \in DOMAIN keys |-> Unset(<<"write", txn.version, keys[i]>>)]
                \o <<Unset(<<"active", txn.version>>)>>
                \o [i \in DOMAIN keys |-> Unset(<<"version", keys[i], txn.version>>)])

Rollback(c, txn) ==
  IF txn.read_only THEN c
  ELSE LET Undo(ops, k) == ops \o <<Unset(<<"version", k, txn.version>>),
                                    Unset(<<"write", txn.version, k>>)>>
           keys == Listed(Writes(c.db, txn.version))
       IN  Emit(c, Append(FoldLeft(Undo, << >>, keys), Unset(<<"active", txn.version>>)))

(* Writes that do not look for newer versions.                             *)
NoConflict(db, txn, k) == FALSE

(* write_version(): only the newest version of the key can conflict.       *)
Conflict(db, txn, k) ==
  LET from == IF txn.active = {} THEN txn.version + 1 ELSE Min(txn.active)
      seen == {v \in VersionsOf(db, k) : v >= from}
  IN  seen # {} /\ ~Visible(txn, Max(seen))

WriteVersion(c, txn, k, value) ==
  IF ~Ok(c) THEN c
  ELSE IF txn.read_only THEN Fail(c, "read_only")
  ELSE IF Conflict(c.db, txn, k) THEN Fail(c, "serialization")
  ELSE Emit(c, <<Set(<<"write", txn.version, k>>, None),
                 Set(<<"version", k, txn.version>>, value)>>)

Get(db, txn, k) ==
  LET seen == {v \in VersionsOf(db, k) : Visible(txn, v)}
  IN  IF seen = {} THEN None ELSE db[<<"version", k, Max(seen)>>]

(* scan_prefix(): the visible keys of a kind whose tail begins with rest.  *)
Keys(db, txn, kind, rest) ==
  LET all == {x[2] : x \in {x \in DOMAIN db : x[1] = "version"}}
      Match(k) == k[1] = kind /\ \A i \in DOMAIN rest : k[i + 1] = rest[i]
  IN  {k \in all : Match(k) /\ Get(db, txn, k) # None}

(***************************************************************************)
(* Schemas.                                                                *)
(***************************************************************************)
ReadTable(db, txn, t) == Get(db, txn, <<"table", t>>)
ReadRow(db, txn, t, id) == Get(db, txn, <<"row", t, id>>)
Tables(db, txn) == {Get(db, txn, k) : k \in Keys(db, txn, "table", << >>)}
Rows(db, txn, t) == {Get(db, txn, k) : k \in Keys(db, txn, "row", <<t>>)}

PrimaryKey(table) == CHOOSE i \in DOMAIN table.columns : table.columns[i].primary_key
RowKey(table, row) == row[PrimaryKey(table)]
Indexed(table) == SelectSeq([i \in DOMAIN table.columns |-> i],
                            LAMBDA i : table.columns[i].index)

(* table_references(): pairs of a table and a position of its columns.     *)
TableReferences(db, txn, t) ==
  UNION {{<<u, i>> : i \in {i \in DOMAIN u.columns : u.columns[i].references = t}}
         : u \in Tables(db, txn)}

(* Column::validate().                                                     *)
ValidColumn(db, txn, table, col) ==
  LET target == IF col.references = table.name THEN table
                ELSE ReadTable(db, txn, col.references)
  IN  /\ col.primary_key => ~col.nullable /\ col.unique
      /\ IF col.default = None THEN ~col.nullable
         ELSE IF col.default = Null THEN col.nullable
         ELSE DataType(col.default) = col.datatype
      /\ col.references # None =>
           /\ target # None
           /\ col.datatype = target.columns[PrimaryKey(target)].datatype

(* Table::validate().                                                      *)
ValidTable(db, txn, table) ==
  /\ Cardinality({i \in DOMAIN table.columns : table.columns[i].primary_key}) = 1
  /\ \A i \in DOMAIN table.columns : ValidColumn(db, txn, table, table.columns[i])

(* Column::validate_value().  Strings above the limit have rank TooLong.   *)
TooLong == 1024

ValidValue(db, txn, table, i, pk, v) ==
  LET col == table.columns[i]
  IN  /\ IF v = Null THEN col.nullable ELSE DataType(v) = col.datatype
      /\ ~(DataType(v) = "string" /\ v[2] > TooLong)
      /\ col.references # None /\ v # Null =>
           \/ col.references = table.name /\ v = pk
           \/ ReadRow(db, txn, col.references, v) # None
      /\ col.unique /\ ~col.primary_key /\ v # Null =>
           \A row \in Rows(db, txn, table.name) :
             row[i] = v => RowKey(table, row) = pk

(* Table::validate_row().                                                  *)
ValidRow(db, txn, table, row) ==
  /\ Len(row) = Len(table.columns)
  /\ \A i \in DOMAIN row : ValidValue(db, txn, table, i, RowKey(table, row), row[i])

(***************************************************************************)
(* Rows and indexes.                                                       *)
(***************************************************************************)
IndexLoad(db, txn, t, col, v) ==
  LET ids == Get(db, txn, <<"index", t, col, v>>) IN IF ids = None THEN {} ELSE ids

IndexSave(c, txn, t, col, v, ids) ==
  WriteVersion(c, txn, <<"index", t, col, v>>, IF ids = {} THEN None ELSE ids)

(* Adds a row to the index of a column, or removes it.                     *)
Index(c, txn, table, i, v, id) ==
  LET col == table.columns[i].name
  IN  IndexSave(c, txn, table.name, col, v,
                IndexLoad(c.db, txn, table.name, col, v) \cup {id})

(* An update or a delete that leaves the old index entry.                  *)
KeepIndexed(c, txn, table, i, v, id) == c

Unindex(c, txn, table, i, v, id) ==
  LET col == table.columns[i].name
  IN  IndexSave(c, txn, table.name, col, v,
                IndexLoad(c.db, txn, table.name, col, v) \ {id})

Create(c, txn, t, row) ==
  LET table == ReadTable(c.db, txn, t)
      id    == RowKey(table, row)
  IN  IF ~Ok(c) THEN c
      ELSE IF \/ table = None
              \/ ~ValidRow(c.db, txn, table, row)
              \/ ReadRow(c.db, txn, t, id) # None
      THEN Fail(c, "value")
      ELSE FoldLeft(LAMBDA d, i : Index(d, txn, table, i, row[i], id),
                    WriteVersion(c, txn, <<"row", t, id>>, row), Indexed(table))

(* A delete that does not look for references.                             *)
NeverReferenced(db, txn, table, id) == FALSE

(* A row of a table, itself excepted, refers to the row id.                *)
Referenced(db, txn, table, id) ==
  \E ref \in TableReferences(db, txn, table.name) :
    \E row \in Rows(db, txn, ref[1].name) :
      /\ row[ref[2]] = id
      /\ ref[1].name = table.name => RowKey(table, row) # id

Delete(c, txn, t, id) ==
  LET table == ReadTable(c.db, txn, t)
      row   == ReadRow(c.db, txn, t, id)
      clear == IF row = None THEN c
               ELSE FoldLeft(LAMBDA d, i : Unindex(d, txn, table, i, row[i], id),
                             c, Indexed(table))
  IN  IF ~Ok(c) THEN c
      ELSE IF table = None \/ Referenced(c.db, txn, table, id) THEN Fail(c, "value")
      ELSE WriteVersion(clear, txn, <<"row", t, id>>, None)

(* The indexes are moved first, and the row is validated after that.       *)
Update(c, txn, t, id, row) ==
  LET table == ReadTable(c.db, txn, t)
      old   == ReadRow(c.db, txn, t, id)
      Move(d, i) == IF old[i] = row[i] THEN d
                    ELSE Index(Unindex(d, txn, table, i, old[i], id), txn, table, i, row[i], id)
      moved == IF Indexed(table) = << >> THEN c
               ELSE FoldLeft(Move, c, Indexed(table))
  IN  IF ~Ok(c) THEN c
      ELSE IF table = None THEN Fail(c, "value")
      ELSE IF RowKey(table, row) # id THEN Create(Delete(c, txn, t, id), txn, t, row)
      ELSE IF ~Ok(moved) THEN moved
      ELSE IF ~ValidRow(moved.db, txn, table, row) THEN Fail(moved, "value")
      ELSE WriteVersion(moved, txn, <<"row", t, id>>, row)

CreateTable(c, txn, table) ==
  IF ReadTable(c.db, txn, table.name) # None \/ ~ValidTable(c.db, txn, table)
  THEN Fail(c, "value")
  ELSE WriteVersion(c, txn, <<"table", table.name>>, table)

DeleteTable(c, txn, t) ==
  LET table == ReadTable(c.db, txn, t)
      ids   == {RowKey(table, row) : row \in Rows(c.db, txn, t)}
      empty == FoldLeft(LAMBDA d, id : Delete(d, txn, t, id), c, Listed(ids))
  IN  IF \/ table = None
         \/ \E ref \in TableReferences(c.db, txn, t) : ref[1].name # t
      THEN Fail(c, "value")
      ELSE WriteVersion(empty, txn, <<"table", t>>, None)

(***************************************************************************)
(* State::mutate() of src/sql/engine/raft.rs: one mutation of the          *)
(* replicated state machine.  Every mutation but Begin resumes its         *)
(* transaction first.                                                      *)
(***************************************************************************)
Mutate(db, m) ==
  LET c == Call(db)
  IN  IF m.kind = "begin" THEN Begin(db)
      ELSE IF ~Resumable(db, m.txn) THEN Fail(c, "internal")
      ELSE   CASE m.kind = "commit"       -> Commit(c, m.txn)
               [] m.kind = "rollback"     -> Rollback(c, m.txn)
               [] m.kind = "create"       -> Create(c, m.txn, m.table, m.row)
               [] m.kind = "delete"       -> Delete(c, m.txn, m.table, m.id)
               [] m.kind = "update"       -> Update(c, m.txn, m.table, m.id, m.row)
               [] m.kind = "create_table" -> CreateTable(c, m.txn, m.schema)
               [] m.kind = "delete_table" -> DeleteTable(c, m.txn, m.table)

(* A state machine that records an entry before it applies it.             *)
ApplyRecordingFirst(db, i, m) ==
  LET first == Emit(Call(db), <<Set(<<"applied">>, i)>>)
      c     == IF m.kind = "noop" THEN Call(first.db) ELSE Mutate(first.db, m)
  IN  IF c.res = "internal" THEN c ELSE [c EXCEPT !.ops = first.ops \o @]

(* State::apply() of entry i: an internal error is not recorded as applied, *)
(* any other error is.                                                     *)
Apply(db, i, m) ==
  LET c == IF m.kind = "noop" THEN Call(db) ELSE Mutate(db, m)
  IN  IF c.res = "internal" THEN c
      ELSE Emit(c, <<Set(<<"applied">>, i)>>)

AppliedIndex(db) == Lookup(db, <<"applied">>, 0)

=============================================================================
