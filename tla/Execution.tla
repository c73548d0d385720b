----------------------------- MODULE Execution -----------------------------
(***************************************************************************)
(* The executors (src/sql/execution).  Executing a node gives its columns  *)
(* and its rows, or None when execute() fails.  Rows are pulled one at a   *)
(* time and may fail singly, after execute() has returned: such a row is   *)
(* None in the sequence, and fails whoever pulls it.                       *)
(*                                                                         *)
(* A database is a catalog and, for each table, its rows in the order of   *)
(* their primary keys.  Rows that come out of a hash table have no order   *)
(* in the code; here they keep that of their source.                       *)
(***************************************************************************)
EXTENDS Optimizer

Result(columns, rows) == [columns |-> columns, rows |-> rows]

(* collect::<Result<Vec<_>>>(): all the rows, or the error of one.         *)
Fails(rows) == \E i \in DOMAIN rows : rows[i] = None

(* The values of expressions in a row, or None.                            *)
EvaluateAll(es, row) ==
  LET vs == FoldLeft(LAMBDA acc, e : Append(acc, Evaluate(e, row)), <<>>, es)
  IN  IF Error \in Range(vs) THEN None ELSE vs

(* The rows a predicate is true of; one it neither holds nor fails to hold *)
(* of, nor is NULL, is an error in the place of the row.                   *)
Verdict(predicate, row) ==
  IF row = None THEN Error ELSE IF predicate = None THEN True ELSE Evaluate(predicate, row)

Keep(rows, row, verdict) == CASE verdict = True -> Append(rows, row)
                              [] verdict \in {False, Null} -> rows
                              [] OTHER -> Append(rows, None)

FilterRows(predicate, rows) ==
  FoldLeft(LAMBDA acc, row : Keep(acc, row, Verdict(predicate, row)), <<>>, rows)

-----------------------------------------------------------------------------
(* Sources: source.rs, through the scan and the reads of the engine.       *)

ColumnAt(table, name) == CHOOSE i \in DOMAIN table.columns : table.columns[i].name = name

(* The rows of the keys in turn: a key given twice is read twice.          *)
KeyRows(db, n) ==
  LET pk == PrimaryKeyAt(db.catalog[n.table])
  IN  FoldLeft(LAMBDA acc, key :
                 acc \o SelectSeq(db.rows[n.table], LAMBDA row : row[pk] = key),
               <<>>, n.keys)

(* The rows of a set of primary keys, which the index lists by value.      *)
IndexRows(db, n) ==
  LET i == ColumnAt(db.catalog[n.table], n.column)
  IN  SelectSeq(db.rows[n.table], LAMBDA row : row[i] \in Range(n.values))

SourceRows(db, n) == CASE n.node = "Scan"        -> FilterRows(n.filter, db.rows[n.table])
                       [] n.node = "KeyLookup"   -> KeyRows(db, n)
                       [] n.node = "IndexLookup" -> IndexRows(db, n)

TableColumns(table) == [i \in DOMAIN table.columns |-> table.columns[i].name]

ReadSource(db, n) ==
  IF Fails(SourceRows(db, n)) THEN None
  ELSE Result(TableColumns(db.catalog[n.table]), SourceRows(db, n))

-----------------------------------------------------------------------------
(* Filter, Projection, Order, Limit and Offset: query.rs.                  *)

ProjectedColumn(columns, e, label) ==
  IF label # None THEN label
  ELSE IF e.op = "Field" /\ e.index < Len(columns) THEN columns[e.index + 1] ELSE None

ProjectRow(es, row) ==
  IF row = None THEN None ELSE EvaluateAll([i \in DOMAIN es |-> es[i][1]], row)

ProjectRows(es, s) ==
  Result([i \in DOMAIN es |-> ProjectedColumn(s.columns, es[i][1], es[i][2])],
         FoldLeft(LAMBDA acc, row : Append(acc, ProjectRow(es, row)), <<>>, s.rows))

(* Values that do not compare are passed over; rows that do not differ     *)
(* keep their order.                                                       *)
Before(directions, a, b) ==
  LET differ == {i \in DOMAIN directions : PartialCmp(a[1][i], b[1][i]) \in {"less", "greater"}}
  IN  IF differ = {} THEN a[3] < b[3]
      ELSE PartialCmp(a[1][Min(differ)], b[1][Min(differ)])
             = (IF directions[Min(differ)] = "Ascending" THEN "less" ELSE "greater")

SortRows(keys, directions, rows) ==
  LET items == FoldLeft(LAMBDA acc, i : Append(acc, <<keys[i], rows[i], i>>), <<>>,
                        [i \in DOMAIN rows |-> i])
      sorted == SortSeq(items, LAMBDA a, b : Before(directions, a, b))
  IN  [i \in DOMAIN rows |-> sorted[i][2]]

OrderRows(orders, s) ==
  LET keys == FoldLeft(LAMBDA acc, row : Append(acc, ProjectRow(orders, row)), <<>>, s.rows)
  IN  IF Fails(keys) THEN None
      ELSE [s EXCEPT !.rows = SortRows(keys, [i \in DOMAIN orders |-> orders[i][2]], @)]

TakeRows(s, n) == [s EXCEPT !.rows = SubSeq(@, 1, IF n < Len(@) THEN n ELSE Len(@))]

(* skip(): an error among the rows skipped is skipped with them.           *)
SkipRows(s, n) == [s EXCEPT !.rows = SubSeq(@, n + 1, Len(@))]

-----------------------------------------------------------------------------
(* Aggregation: aggregation.rs.                                            *)

(* Max and Min: a value of another type than the one kept, NULL included,  *)
(* leaves NULL.                                                            *)
Extreme(order, kept, v) == IF kept = None THEN v
                           ELSE IF DataType(kept) # DataType(v) THEN Null
                           ELSE IF PartialCmp(v, kept) = order THEN v ELSE kept

(* Integers are added unchecked.                                           *)
AddUp(sum, v) ==
  IF sum = None THEN IF IsNumber(v) THEN v ELSE Null
  ELSE IF ~IsNumber(v) \/ DataType(sum) # DataType(v) THEN Null
  ELSE IF DataType(v) = "integer" THEN Wrapped(sum[2] + v[2]) ELSE Float(sum[2] + v[2])

OrNull(v) == IF v = None THEN Null ELSE v

SumOf(vs)   == OrNull(FoldLeft(AddUp, None, vs))
CountOf(vs) == Integer(Len(SelectSeq(vs, LAMBDA v : v # Null)))

(* The average of integers is an integer; that of floats is not modelled.  *)
AverageOf(vs) == CASE SumOf(vs) = Null -> Null
                   [] DataType(SumOf(vs)) = "integer" ->
                        Integer(Quotient(SumOf(vs)[2], CountOf(vs)[2]))

Accumulate(aggregate, vs) ==
  CASE aggregate = "Count"   -> CountOf(vs)
    [] aggregate = "Sum"     -> SumOf(vs)
    [] aggregate = "Average" -> AverageOf(vs)
    [] aggregate = "Max" -> OrNull(FoldLeft(LAMBDA m, v : Extreme("greater", m, v), None, vs))
    [] aggregate = "Min" -> OrNull(FoldLeft(LAMBDA m, v : Extreme("less", m, v), None, vs))

Bucket(row, n) == SubSeq(row, n + 1, Len(row))

Buckets(rows, n) == FoldLeft(LAMBDA acc, row : IF Contains(acc, Bucket(row, n)) THEN acc
                                               ELSE Append(acc, Bucket(row, n)), <<>>, rows)

AggregateBucket(aggregates, rows, bucket) ==
  LET members == SelectSeq(rows, LAMBDA row : Bucket(row, Len(aggregates)) = bucket)
  IN  [i \in DOMAIN aggregates |->
         Accumulate(aggregates[i], [j \in DOMAIN members |-> members[j][i]])] \o bucket

(* Hashing NULL does not return (Value::Null hashes itself), so a NULL in  *)
(* a bucket ends the statement without an answer.                          *)
AggregateRows(aggregates, s) ==
  LET n == Len(aggregates)
      buckets == Buckets(s.rows, n)
      all == IF buckets = <<>> /\ n = Len(s.columns) THEN <<<<>>>> ELSE buckets
  IN  IF \E i \in DOMAIN all : Null \in Range(all[i]) THEN None
      ELSE Result([i \in DOMAIN s.columns |-> IF i <= n THEN None ELSE s.columns[i]],
                  FoldLeft(LAMBDA acc, b : Append(acc, AggregateBucket(aggregates, s.rows, b)),
                           <<>>, all))

-----------------------------------------------------------------------------
(* Joins: join.rs.                                                         *)

Nulls(columns) == [i \in DOMAIN columns |-> Null]

(* The rows of one left row.  Errors do not count as hits.                 *)
LoopRow(n, row, right) ==
  LET hits == FoldLeft(LAMBDA acc, r : Keep(acc, row \o r, Verdict(n.predicate, row \o r)),
                       <<>>, right.rows)
  IN  IF n.outer /\ \A i \in DOMAIN hits : hits[i] = None
      THEN Append(hits, row \o Nulls(right.columns)) ELSE hits

(* A failure that is never passed: more errors than any OFFSET skips.      *)
FailForever == [i \in 1..(MaxInteger + 1) |-> None]

(* No row follows a failed left row.                                       *)
LoopRows(n, left, right) ==
  LET failed == {i \in DOMAIN left.rows : left.rows[i] = None}
      rows == IF failed = {} THEN left.rows ELSE SubSeq(left.rows, 1, Min(failed) - 1)
  IN  FoldLeft(LAMBDA acc, row : acc \o LoopRow(n, row, right), <<>>, rows)
        \o (IF failed = {} THEN <<>> ELSE FailForever)

(* One right row per key, the last.                                        *)
Hashed(rows, field, key) ==
  LET same == {i \in DOMAIN rows : rows[i][field + 1] = key}
  IN  IF same = {} THEN None ELSE rows[Max(same)]

HasField(row, field) == field \in 0..(Len(row) - 1)

(* A field that is not in the row is an error.  Hashing NULL does not      *)
(* return; looking it up in an empty table does not hash it.               *)
HashRow(n, row, right) ==
  IF row = None THEN <<None>>
  ELSE IF ~HasField(row, n.left_field) THEN <<None>>
  ELSE IF row[n.left_field + 1] = Null /\ right.rows # <<>> THEN FailForever
  ELSE LET hit == Hashed(right.rows, n.right_field, row[n.left_field + 1])
       IN  IF hit # None THEN <<row \o hit>>
           ELSE IF n.outer THEN <<row \o Nulls(right.columns)>> ELSE <<>>

HashRows(n, left, right) ==
  FoldLeft(LAMBDA acc, row : acc \o HashRow(n, row, right), <<>>, left.rows)

Unhashable(rows, field) ==
  \E i \in DOMAIN rows : IF HasField(rows[i], field) THEN rows[i][field + 1] = Null ELSE TRUE

JoinRows(n, left, right) ==
  IF left = None \/ right = None THEN None
  ELSE IF Fails(right.rows) THEN None
  ELSE IF n.node = "NestedLoopJoin"
  THEN Result(left.columns \o right.columns, LoopRows(n, left, right))
  ELSE IF Unhashable(right.rows, n.right_field) THEN None
  ELSE Result(left.columns \o right.columns, HashRows(n, left, right))

-----------------------------------------------------------------------------
(* Insert, Update and Delete: mutation.rs.  The result is what is handed   *)
(* to create(), update() and delete() of the transaction, row by row.      *)

PadRow(table, row) ==
  LET rest == [i \in 1..(Len(table.columns) - Len(row)) |-> table.columns[Len(row) + i].default]
  IN  IF \E i \in DOMAIN rest : rest[i] = None THEN None ELSE row \o rest

MakeRow(table, columns, values) ==
  LET names == [i \in DOMAIN table.columns |-> table.columns[i].name]
      value(i) == IF Contains(columns, names[i])
                  THEN values[CHOOSE j \in DOMAIN columns : columns[j] = names[i]]
                  ELSE table.columns[i].default
      row == [i \in DOMAIN names |-> value(i)]
  IN  IF \/ Len(columns) # Len(values)
         \/ ~(Range(columns) \subseteq Range(names))
         \/ Cardinality(Range(columns)) # Len(columns)
      THEN None
      ELSE IF \E i \in DOMAIN row : row[i] = None THEN None ELSE row

InsertRow(table, columns, es) ==
  LET values == EvaluateAll(es, <<>>)
  IN  IF values = None THEN None
      ELSE IF columns = <<>> THEN PadRow(table, values) ELSE MakeRow(table, columns, values)

InsertRows(db, n) ==
  FoldLeft(LAMBDA acc, es : Append(acc, InsertRow(db.catalog[n.table], n.columns, es)),
           <<>>, n.expressions)

(* A row's key and its new values; a key is updated once.                  *)
UpdateRow(n, pk, row) ==
  IF row = None THEN None
  ELSE LET values == EvaluateAll([i \in DOMAIN n.expressions |-> n.expressions[i][2]], row)
           set(i) == {k \in DOMAIN n.expressions : n.expressions[k][1] = i - 1}
       IN  IF values = None THEN None
           ELSE <<row[pk]>> \o [i \in DOMAIN row |-> IF set(i) = {} THEN row[i]
                                                     ELSE values[Max(set(i))]]

UpdateRows(db, n, s) ==
  LET pk == PrimaryKeyAt(db.catalog[n.table])
      done(acc, row) == \E i \in DOMAIN acc : acc[i] # None /\ row # None /\ acc[i][1] = row[pk]
  IN  FoldLeft(LAMBDA acc, row : IF done(acc, row) THEN acc ELSE Append(acc, UpdateRow(n, pk, row)),
               <<>>, s.rows)

DeleteRows(db, n, s) ==
  LET pk == PrimaryKeyAt(db.catalog[n.table])
  IN  FoldLeft(LAMBDA acc, row : Append(acc, IF row = None THEN None ELSE <<row[pk]>>),
               <<>>, s.rows)

-----------------------------------------------------------------------------
(* Executor::build() and execute().                                        *)

Collected(rows) == IF Fails(rows) THEN None ELSE Result(<<>>, rows)

OverSource(db, n, s) ==
  IF s = None THEN None
  ELSE CASE n.node = "Filter"      -> [s EXCEPT !.rows = FilterRows(n.predicate, @)]
         [] n.node = "Projection"  -> ProjectRows(n.expressions, s)
         [] n.node = "Order"       -> OrderRows(n.orders, s)
         [] n.node = "Limit"       -> TakeRows(s, n.limit)
         [] n.node = "Offset"      -> SkipRows(s, n.offset)
         [] n.node = "Aggregation" -> IF Fails(s.rows) THEN None
                                      ELSE AggregateRows(n.aggregates, s)
         [] n.node = "Update"      -> Collected(UpdateRows(db, n, s))
         [] n.node = "Delete"      -> Collected(DeleteRows(db, n, s))

RECURSIVE Execute(_, _)
Execute(db, n) ==
  CASE n.node = "Nothing" -> Result(<<>>, <<<<>>>>)
    [] n.node \in {"Scan", "KeyLookup", "IndexLookup"} -> ReadSource(db, n)
    [] n.node = "Insert" -> IF n.table \notin DOMAIN db.catalog THEN None
                            ELSE Collected(InsertRows(db, n))
    [] n.node \in {"NestedLoopJoin", "HashJoin"} ->
         JoinRows(n, Execute(db, n.left), Execute(db, n.right))
    [] OTHER -> OverSource(db, n, Execute(db, n.source))

(* The rows a client gets, or None: the session pulls all of them.         *)
Answer(result) == IF result = None THEN None
                  ELSE IF Fails(result.rows) THEN None ELSE result.rows

=============================================================================
