------------------------------ MODULE Language ------------------------------
(***************************************************************************)
(* The SQL reference of the repository (docs/sql.md), as far as statements *)
(* on tables go: how a statement is written, and which rows answer it.     *)
(* It says what the other modules of the SQL layer are compared with, and  *)
(* models none of their code.  It knows rows by the names of their         *)
(* columns: there are no scopes, plans or column indexes here.             *)
(***************************************************************************)
EXTENDS Parser

(* How a client writes a statement: parentheses only where the documented  *)
(* table of precedences calls for them.                                    *)

Levels == <<{"Or"}, {"And"}, {"Equal", "NotEqual", "Like"},
            {"GreaterThan", "GreaterThanOrEqual", "LessThan", "LessThanOrEqual"},
            {"Add", "Subtract"}, {"Multiply", "Divide", "Modulo"}, {"Exponentiate"},
            {"Factorial", "IsNull"}, {"Not", "Negate", "Assert"}>>

Symbol == [And |-> "AND", Or |-> "OR", Equal |-> "=", NotEqual |-> "!=", Like |-> "LIKE",
           GreaterThan |-> ">", GreaterThanOrEqual |-> ">=", LessThan |-> "<",
           LessThanOrEqual |-> "<=", Add |-> "+", Subtract |-> "-", Multiply |-> "*",
           Divide |-> "/", Modulo |-> "%", Exponentiate |-> "^", Not |-> "NOT",
           Negate |-> "-", Assert |-> "+"]

IsNotNull(e) == e.op = "Not" /\ e.args[1].op = "IsNull"

Level(e) == IF e.op \in {"Literal", "Name", "Function"} THEN 10
            ELSE IF IsNotNull(e) THEN 8
            ELSE CHOOSE i \in DOMAIN Levels : e.op \in Levels[i]

Words(ws) == [i \in DOMAIN ws |-> Keyword(ws[i])]

Separated(seqs) == FoldLeft(LAMBDA acc, s : IF acc = <<>> THEN s ELSE acc \o Words(<<",">>) \o s,
                            <<>>, seqs)

LiteralToken(v) == CASE v = True -> Keyword("TRUE") [] v = False -> Keyword("FALSE")
                     [] v = Null -> Keyword("NULL")
                     [] v = Infinity -> Keyword("INFINITY") [] v = NaN -> Keyword("NAN")
                     [] OTHER -> v

Parenthesized(ts) == Words(<<"(">>) \o ts \o Words(<<")">>)

(* The tokens of an expression in a place that binds at a level.           *)
RECURSIVE Write(_, _)
Bare(e) ==
  CASE e.op = "Literal" -> <<LiteralToken(e.value)>>
    [] e.op = "Name" -> IF e.table = None THEN <<Ident(e.name)>>
                        ELSE <<Ident(e.table), Keyword("."), Ident(e.name)>>
    [] e.op = "Function" ->
         <<Ident(e.name)>> \o Parenthesized(
           Separated([i \in DOMAIN e.args |->
                        IF e.name = "count" /\ e.args[i] = Literal(True) THEN Words(<<"*">>)
                        ELSE Write(e.args[i], 1)]))
    [] IsNotNull(e) -> Write(e.args[1].args[1], 8) \o Words(<<"IS", "NOT", "NULL">>)
    [] Level(e) = 9 -> Words(<<Symbol[e.op]>>) \o Write(e.args[1], 9)
    [] Level(e) = 8 -> Write(e.args[1], 8)
                         \o Words(IF e.op = "IsNull" THEN <<"IS", "NULL">> ELSE <<"!">>)
    [] OTHER -> Write(e.args[1], IF Level(e) = 7 THEN 8 ELSE Level(e)) \o Words(<<Symbol[e.op]>>)
                  \o Write(e.args[2], IF Level(e) = 7 THEN 7 ELSE Level(e) + 1)

Write(e, level) == IF Level(e) < level THEN Parenthesized(Bare(e)) ELSE Bare(e)

Phrase(words, e) == IF e = None THEN <<>> ELSE Words(words) \o Write(e, 1)

Phrases(words, seqs) == IF seqs = <<>> THEN <<>> ELSE Words(words) \o Separated(seqs)

Labelled(label) == IF label = None THEN <<>> ELSE <<Keyword("AS"), Ident(label)>>

RECURSIVE FromTokens(_)
FromTokens(item) ==
  IF item.type = "Table" THEN <<Ident(item.name)>> \o Labelled(item.alias)
  ELSE FromTokens(item.left)
         \o Words(CASE item.join = "Cross" -> <<"CROSS", "JOIN">>
                    [] item.join = "Inner" -> <<"JOIN">>
                    [] item.join = "Left"  -> <<"LEFT", "JOIN">>
                    [] item.join = "Right" -> <<"RIGHT", "OUTER", "JOIN">>)
         \o FromTokens(item.right) \o Phrase(<<"ON">>, item.predicate)

SelectTokens(s) ==
  Words(<<"SELECT">>)
    \o (IF s.select = <<>> THEN Words(<<"*">>)
        ELSE Separated([i \in DOMAIN s.select |-> Write(s.select[i][1], 1)
                                                    \o Labelled(s.select[i][2])]))
    \o Phrases(<<"FROM">>, [i \in DOMAIN s.from |-> FromTokens(s.from[i])])
    \o Phrase(<<"WHERE">>, s.where)
    \o Phrases(<<"GROUP", "BY">>, [i \in DOMAIN s.group_by |-> Write(s.group_by[i], 1)])
    \o Phrase(<<"HAVING">>, s.having)
    \o Phrases(<<"ORDER", "BY">>,
               [i \in DOMAIN s.order |->
                  Write(s.order[i][1], 1)
                    \o Words(IF s.order[i][2] = "Descending" THEN <<"DESC">> ELSE <<>>)])
    \o Phrase(<<"LIMIT">>, s.limit) \o Phrase(<<"OFFSET">>, s.offset)

InsertTokens(s) ==
  Words(<<"INSERT", "INTO">>) \o <<Ident(s.table)>>
    \o (IF s.columns = None THEN <<>>
        ELSE Parenthesized(Separated([i \in DOMAIN s.columns |-> <<Ident(s.columns[i])>>])))
    \o Phrases(<<"VALUES">>, [i \in DOMAIN s.values |->
                                Parenthesized(Separated([j \in DOMAIN s.values[i] |->
                                                           Write(s.values[i][j], 1)]))])

TypeToken == [boolean |-> "BOOLEAN", string |-> "STRING", float |-> "FLOAT", integer |-> "INTEGER"]

ColumnTokens(c) ==
  <<Ident(c.name), Keyword(TypeToken[c.datatype])>>
    \o Words(CASE c.nullable = None -> <<>>
               [] c.nullable = TRUE -> <<"NULL">>
               [] c.nullable = FALSE -> <<"NOT", "NULL">>)
    \o Phrase(<<"DEFAULT">>, c.default)
    \o Words(IF c.primary_key THEN <<"PRIMARY", "KEY">> ELSE <<>>)
    \o Words(IF c.unique THEN <<"UNIQUE">> ELSE <<>>)
    \o (IF c.references = None THEN <<>> ELSE <<Keyword("REFERENCES"), Ident(c.references)>>)
    \o Words(IF c.index THEN <<"INDEX">> ELSE <<>>)

BeginTokens(s) ==
  Words(<<"BEGIN">>) \o Words(IF s.read_only THEN <<"TRANSACTION", "READ", "ONLY">> ELSE <<>>)
    \o (IF s.as_of = None THEN <<>>
        ELSE Words(<<"AS", "OF", "SYSTEM", "TIME">>) \o <<Integer(s.as_of)>>)

RECURSIVE Tokens(_)
Tokens(s) ==
  CASE s.type = "Select" -> SelectTokens(s)
    [] s.type = "Insert" -> InsertTokens(s)
    [] s.type = "Update" ->
         Words(<<"UPDATE">>) \o <<Ident(s.table)>>
           \o Phrases(<<"SET">>, [i \in DOMAIN s.set |-> <<Ident(s.set[i][1])>>
                                                           \o Phrase(<<"=">>, s.set[i][2])])
           \o Phrase(<<"WHERE">>, s.where)
    [] s.type = "Delete" -> Words(<<"DELETE", "FROM">>) \o <<Ident(s.table)>>
                              \o Phrase(<<"WHERE">>, s.where)
    [] s.type = "CreateTable" ->
         Words(<<"CREATE", "TABLE">>) \o <<Ident(s.name)>>
           \o Parenthesized(Separated([i \in DOMAIN s.columns |-> ColumnTokens(s.columns[i])]))
    [] s.type = "DropTable" ->
         Words(<<"DROP", "TABLE">>) \o Words(IF s.if_exists THEN <<"IF", "EXISTS">> ELSE <<>>)
           \o <<Ident(s.name)>>
    [] s.type = "Begin"    -> BeginTokens(s)
    [] s.type = "Commit"   -> Words(<<"COMMIT", ";">>)
    [] s.type = "Rollback" -> Words(<<"ROLLBACK">>)
    [] s.type = "Explain"  -> Words(<<"EXPLAIN">>) \o Tokens(s.statement)

-----------------------------------------------------------------------------
(* What an expression means.  A row is a sequence of cells, each the name  *)
(* of its table and column and a value.  A group is the rows that agree on *)
(* the grouping expressions, or None outside of an aggregation.            *)

Cell(table, name, value) == <<table, name, value>>

Named(row, e) == {i \in DOMAIN row : row[i][2] = e.name /\ (e.table = None \/ row[i][1] = e.table)}

(* A name means a column when it is the only one it can mean.              *)
Means(row, e) == IF Cardinality(Named(row, e)) = 1 THEN Min(Named(row, e)) ELSE None

Aggregates == {"avg", "count", "max", "min", "sum"}

AggregateValue(name, vs) ==
  CASE name = "count" -> Integer(Cardinality({i \in DOMAIN vs : vs[i] # Null}))
    [] vs = <<>> \/ Null \in Range(vs) -> Null
    [] name = "max" -> CHOOSE v \in Range(vs) : \A w \in Range(vs) : Rank(w) <= Rank(v)
    [] name = "min" -> CHOOSE v \in Range(vs) : \A w \in Range(vs) : Rank(w) >= Rank(v)
    [] name = "sum" -> Integer(FoldLeft(LAMBDA n, v : n + v[2], 0, vs))
    [] name = "avg" -> Integer(Quotient(FoldLeft(LAMBDA n, v : n + v[2], 0, vs), Len(vs)))

OperatorValue(op, vs) ==
  CASE op \in {"NotEqual", "GreaterThanOrEqual", "LessThanOrEqual"} ->
         NotOf(Compare(CASE op = "NotEqual" -> "Equal"
                         [] op = "GreaterThanOrEqual" -> "LessThan"
                         [] op = "LessThanOrEqual" -> "GreaterThan", vs[1], vs[2]))
    [] OTHER -> Operate(op, vs)

(* The value of an expression in a row, or in a group of rows.  Of a group *)
(* only its grouping expressions and its aggregates have a value.          *)
RECURSIVE Value(_, _, _)
GroupedBy(group, e) ==
  {i \in DOMAIN group.by : \/ group.by[i] = e
                           \/ /\ group.by[i].op = "Name" /\ e.op = "Name"
                              /\ Means(group.cells, e) # None
                              /\ Means(group.cells, e) = Means(group.cells, group.by[i])}

AggregateOf(group, e) ==
  IF group = None \/ Len(e.args) # 1 THEN Error
  ELSE LET vs == FoldLeft(LAMBDA acc, row : Append(acc, Value(e.args[1], row, None)),
                          <<>>, group.rows)
       IN  IF Error \in Range(vs) THEN Error ELSE AggregateValue(e.name, vs)

Value(e, row, group) ==
  IF group # None /\ GroupedBy(group, e) # {}
  THEN group.key[Min(GroupedBy(group, e))]
  ELSE CASE e.op = "Literal" -> e.value
         [] e.op = "Name" -> IF group # None \/ Means(row, e) = None THEN Error
                             ELSE row[Means(row, e)][3]
         [] e.op = "Function" -> IF e.name \in Aggregates THEN AggregateOf(group, e) ELSE Error
         [] OTHER -> LET vs == [i \in DOMAIN e.args |-> Value(e.args[i], row, group)]
                     IN  IF \E i \in DOMAIN vs : vs[i] = Error THEN Error
                         ELSE OperatorValue(e.op, vs)

Values(es, row, group) ==
  FoldLeft(LAMBDA acc, e : Append(acc, Value(e, row, group)), <<>>, es)

-----------------------------------------------------------------------------
(* FROM and WHERE.  None is a statement that is in error.                  *)

TableRows(db, item) ==
  LET label == IF item.alias = None THEN item.name ELSE item.alias
      columns == db.catalog[item.name].columns
  IN  [cells |-> [i \in DOMAIN columns |-> Cell(label, columns[i].name, Null)],
       labels |-> <<label>>,
       rows |-> FoldLeft(LAMBDA acc, r :
                           Append(acc, [i \in DOMAIN columns |-> Cell(label, columns[i].name, r[i])]
                                         \o <<>>),
                         <<>>, db.rows[item.name])]

(* The pairs of rows a predicate is true of; a row without one is kept     *)
(* with NULLs on the other side, if the join keeps the rows of its side.   *)
Pairs(left, right, predicate) ==
  {<<i, j>> \in (DOMAIN left.rows) \X (DOMAIN right.rows) :
     predicate = None \/ Value(predicate, left.rows[i] \o right.rows[j], None) = True}

InError(left, right, predicate) ==
  \/ Value(predicate, left.cells \o right.cells, None) = Error
  \/ \E i \in DOMAIN left.rows : \E j \in DOMAIN right.rows :
       Value(predicate, left.rows[i] \o right.rows[j], None) \notin Ternary

JoinedRows(left, right, pairs, keepLeft, keepRight) ==
  FoldLeft(LAMBDA acc, i :
             acc \o FoldLeft(LAMBDA hits, j : IF <<i, j>> \in pairs
                                              THEN Append(hits, left.rows[i] \o right.rows[j])
                                              ELSE hits,
                             <<>>, [j \in DOMAIN right.rows |-> j])
                 \o (IF keepLeft /\ ~\E j \in DOMAIN right.rows : <<i, j>> \in pairs
                     THEN <<left.rows[i] \o right.cells>> ELSE <<>>),
           <<>>, [i \in DOMAIN left.rows |-> i])
    \o FoldLeft(LAMBDA acc, j : IF keepRight /\ ~\E i \in DOMAIN left.rows : <<i, j>> \in pairs
                                THEN Append(acc, left.cells \o right.rows[j]) ELSE acc,
                <<>>, [j \in DOMAIN right.rows |-> j])

JoinOf(join, predicate, left, right) ==
  IF left = None \/ right = None THEN None
  ELSE IF Range(left.labels) \cap Range(right.labels) # {} THEN None
  ELSE IF predicate # None /\ InError(left, right, predicate) THEN None
  ELSE [cells |-> left.cells \o right.cells, labels |-> left.labels \o right.labels,
        rows |-> JoinedRows(left, right, Pairs(left, right, predicate),
                            join = "Left", join = "Right")]

RECURSIVE FromRows(_, _)
FromRows(db, item) ==
  IF item.type = "Table"
  THEN IF item.name \in DOMAIN db.catalog THEN TableRows(db, item) ELSE None
  ELSE JoinOf(item.join, item.predicate, FromRows(db, item.left), FromRows(db, item.right))

AllRows(db, from) ==
  FoldLeft(LAMBDA left, item : JoinOf("Cross", None, left, FromRows(db, item)),
           [cells |-> <<>>, labels |-> <<>>, rows |-> <<<<>>>>], from)

Where(source, predicate) ==
  IF source = None \/ predicate = None THEN source
  ELSE IF Value(predicate, source.cells, None) = Error THEN None
  ELSE IF \E i \in DOMAIN source.rows : Value(predicate, source.rows[i], None) \notin Ternary
  THEN None
  ELSE [source EXCEPT !.rows = SelectSeq(@, LAMBDA row : Value(predicate, row, None) = True)]

-----------------------------------------------------------------------------
(* SELECT.  A label of the select list may stand for its expression in     *)
(* HAVING and ORDER BY, and alone in GROUP BY.                             *)

LabelledBy(select, e) ==
  {i \in DOMAIN select : e.op = "Name" /\ select[i][2] # None /\ e = Name(None, select[i][2])}

RECURSIVE Unlabel(_, _)
Unlabel(select, e) ==
  IF LabelledBy(select, e) # {} THEN select[Min(LabelledBy(select, e))][1]
  ELSE IF e.op \in {"Literal", "Name"} THEN e
  ELSE [e EXCEPT !.args = FoldLeft(LAMBDA acc, a : Append(acc, Unlabel(select, a)), <<>>, @)]

Grouping(s) == [i \in DOMAIN s.group_by |->
                  IF LabelledBy(s.select, s.group_by[i]) = {} THEN s.group_by[i]
                  ELSE s.select[Min(LabelledBy(s.select, s.group_by[i]))][1]]

Ordering(s) == [i \in DOMAIN s.order |-> Unlabel(s.select, s.order[i][1])]

Having(s) == IF s.having = None THEN Literal(True) ELSE Unlabel(s.select, s.having)

RECURSIVE HasAggregate(_)
HasAggregate(e) ==
  CASE e.op \in {"Literal", "Name"} -> FALSE
    [] e.op = "Function" -> e.name \in Aggregates
    [] OTHER -> \E i \in DOMAIN e.args : HasAggregate(e.args[i])

Aggregating(s) == \/ s.group_by # <<>>
                  \/ \E i \in DOMAIN s.select : HasAggregate(s.select[i][1])
                  \/ HasAggregate(Having(s))
                  \/ \E i \in DOMAIN s.order : HasAggregate(Ordering(s)[i])

(* The groups of the rows; all rows are one group without GROUP BY.        *)
Keys(by, rows) == FoldLeft(LAMBDA acc, row : Append(acc, Values(by, row, None)), <<>>, rows)

GroupOf(by, source, keys, key) ==
  [by |-> by, cells |-> source.cells, key |-> key,
   rows |-> FoldLeft(LAMBDA acc, i : IF keys[i] = key THEN Append(acc, source.rows[i]) ELSE acc,
                     <<>>, [i \in DOMAIN keys |-> i])]

GroupsBy(by, source, keys) ==
  LET distinct == IF by = <<>> THEN {<<>>} ELSE Range(keys)
  IN  {GroupOf(by, source, keys, key) : key \in distinct}

(* What the select list is computed from: pairs of a row and a group.      *)
Units(s, source) ==
  IF ~Aggregating(s) THEN [i \in DOMAIN source.rows |-> <<source.rows[i], None>>]
  ELSE FoldSet(LAMBDA g, acc : Append(acc, <<<<>>, g>>), <<>>,
               GroupsBy(Grouping(s), source, Keys(Grouping(s), source.rows)))

(* A row, or a group of one row, that has only NULLs: an expression that   *)
(* is in error of it is in error, whether or not there are rows.           *)
Probe(s, source) ==
  IF ~Aggregating(s) THEN <<source.cells, None>>
  ELSE <<<<>>, [by |-> Grouping(s), cells |-> source.cells,
                key |-> [i \in DOMAIN s.group_by |-> Null], rows |-> <<source.cells>>]>>

(* The sort keys and the values of a unit.                                 *)
Selected(s, unit) ==
  <<Values(Ordering(s), unit[1], unit[2]),
    IF s.select = <<>> THEN [i \in DOMAIN unit[1] |-> unit[1][i][3]] \o <<>>
    ELSE Values([i \in DOMAIN s.select |-> s.select[i][1]], unit[1], unit[2])>>

SelectUnits(s, units) ==
  LET verdicts == FoldLeft(LAMBDA acc, u : Append(acc, Value(Having(s), u[1], u[2])), <<>>, units)
      kept == FoldLeft(LAMBDA acc, i : IF verdicts[i] = True THEN Append(acc, Selected(s, units[i]))
                                       ELSE acc,
                       <<>>, [i \in DOMAIN units |-> i])
  IN  IF ~(Range(verdicts) \subseteq Ternary) THEN None
      ELSE IF \E i \in DOMAIN kept : Error \in Range(kept[i][1]) \cup Range(kept[i][2]) THEN None
      ELSE kept

(* A count given by a constant expression.                                 *)
Count(e, default) == IF e = None THEN default ELSE Value(e, <<>>, None)[2]

-----------------------------------------------------------------------------
(* The rows that answer a statement: what they are, how they are sorted,   *)
(* and how many are skipped and taken.                                     *)

Rows(rows) == [rows |-> rows, directions |-> <<>>, offset |-> 0, limit |-> Len(rows)]

Plain(rows) == Rows([i \in DOMAIN rows |-> <<<<>>, rows[i]>>])

SelectAnswer(s, source) ==
  IF source = None THEN None
  ELSE IF s.select = <<>> /\ s.from = <<>> THEN None
  ELSE LET kept == SelectUnits(s, Units(s, source))
       IN  IF \/ kept = None
              \/ Error \in Range(Values(Grouping(s), source.cells, None))
              \/ Value(Having(s), Probe(s, source)[1], Probe(s, source)[2]) = Error
              \/ SelectUnits([s EXCEPT !.having = None], <<Probe(s, source)>>) = None
           THEN None
           ELSE [rows |-> kept, directions |-> [i \in DOMAIN s.order |-> s.order[i][2]],
                 offset |-> Count(s.offset, 0), limit |-> Count(s.limit, Len(kept))]

KeyAt(table) == CHOOSE i \in DOMAIN table.columns : table.columns[i].primary_key

(* The rows a DELETE or an UPDATE is about.                                *)
Target(db, s) ==
  IF s.table \notin DOMAIN db.catalog THEN None
  ELSE Where(TableRows(db, [name |-> s.table, alias |-> None]), s.where)

DeleteAnswer(db, s, target) ==
  IF target = None THEN None
  ELSE Plain([i \in DOMAIN target.rows |-> <<target.rows[i][KeyAt(db.catalog[s.table])][3]>>])

NewValue(s, row, i) ==
  LET set == {k \in DOMAIN s.set : s.set[k][1] = row[i][2]}
  IN  IF set = {} THEN row[i][3] ELSE Value(s.set[Min(set)][2], row, None)

UpdateAnswer(db, s, target) ==
  IF target = None THEN None
  ELSE LET table == db.catalog[s.table]
           new(row) == [i \in 1..(Len(row) + 1) |-> IF i = 1 THEN row[KeyAt(table)][3]
                                                    ELSE NewValue(s, row, i - 1)]
           rows == [k \in DOMAIN target.rows |-> new(target.rows[k])]
       IN  IF \/ \E k \in DOMAIN s.set : \A i \in DOMAIN table.columns :
                                           table.columns[i].name # s.set[k][1]
              \/ \E k \in DOMAIN rows : Error \in Range(rows[k])
           THEN None ELSE Plain(rows)

(* A value goes to the column it is given for, by name or by position; the *)
(* columns left take their defaults.                                       *)
GivenFor(table, s, i) ==
  IF s.columns = None THEN i
  ELSE LET at == {k \in DOMAIN s.columns : s.columns[k] = table.columns[i].name}
       IN  IF at = {} THEN 0 ELSE Min(at)

NamesColumns(table, names) ==
  /\ Range(names) \subseteq {table.columns[i].name : i \in DOMAIN table.columns}
  /\ Cardinality(Range(names)) = Len(names)

InsertAnswer(db, s) ==
  IF s.table \notin DOMAIN db.catalog THEN None
  ELSE LET table == db.catalog[s.table]
           new(values) == [i \in DOMAIN table.columns |->
                             IF GivenFor(table, s, i) \in DOMAIN values
                             THEN Value(values[GivenFor(table, s, i)], <<>>, None)
                             ELSE table.columns[i].default]
           rows == [k \in DOMAIN s.values |-> new(s.values[k])]
       IN  IF \/ \E k \in DOMAIN rows : \/ \E i \in DOMAIN rows[k] :
                                             rows[k][i] = None \/ rows[k][i] = Error
                                        \/ s.columns # None /\ Len(s.columns) # Len(s.values[k])
              \/ s.columns # None /\ ~NamesColumns(table, s.columns)
           THEN None ELSE Plain(rows)

(* The rows that answer a statement on tables, None for one in error.      *)
Reference(db, s) ==
  CASE s.type = "Select" -> SelectAnswer(s, Where(AllRows(db, s.from), s.where))
    [] s.type = "Delete" -> DeleteAnswer(db, s, Target(db, s))
    [] s.type = "Update" -> UpdateAnswer(db, s, Target(db, s))
    [] s.type = "Insert" -> InsertAnswer(db, s)

(* Rows sort by the first key that differs.                                *)
SortsBefore(directions, a, b) ==
  \E i \in DOMAIN directions :
    /\ \A k \in 1..(i - 1) : PartialCmp(a[k], b[k]) = "equal"
    /\ PartialCmp(a[i], b[i]) = (IF directions[i] = "Ascending" THEN "less" ELSE "greater")

(* The places a row can have in the sorted order, whatever that of rows    *)
(* with equal keys.                                                        *)
Places(ref, i) ==
  (Cardinality({j \in DOMAIN ref.rows : SortsBefore(ref.directions, ref.rows[j][1],
                                                    ref.rows[i][1])}) + 1)
  .. (Len(ref.rows) - Cardinality({j \in DOMAIN ref.rows :
                                     SortsBefore(ref.directions, ref.rows[i][1],
                                                 ref.rows[j][1])}))

Lesser(a, b) == IF a < b THEN a ELSE b

(* Whether rows are an answer: as many as there should be, none more often *)
(* than it should be, each where it can be.                                *)
IsAnswer(ref, rows) ==
  /\ Len(rows) = Lesser(ref.limit, IF ref.offset > Len(ref.rows) THEN 0
                                   ELSE Len(ref.rows) - ref.offset)
  /\ \A p \in DOMAIN rows :
       /\ Cardinality({k \in DOMAIN rows : rows[k] = rows[p]})
            <= Cardinality({i \in DOMAIN ref.rows : ref.rows[i][2] = rows[p]})
       /\ \E i \in DOMAIN ref.rows : ref.rows[i][2] = rows[p] /\ p + ref.offset \in Places(ref, i)

=============================================================================
