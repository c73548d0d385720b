------------------------------ MODULE Planner ------------------------------
(***************************************************************************)
(* The planner (src/sql/plan/planner.rs): from a syntax tree to a tree of  *)
(* plan nodes (src/sql/plan/mod.rs).  A scope maps the names visible to    *)
(* the node being built to column indexes, which start at zero.  A failed  *)
(* operation gives None.  A catalog maps table names to schemas.           *)
(***************************************************************************)
EXTENDS Parser

(* Plan nodes.                                                             *)
Nothing == [node |-> "Nothing"]
Scan(table, alias, filter) ==
  [node |-> "Scan", table |-> table, alias |-> alias, filter |-> filter]
KeyLookup(table, alias, keys) ==
  [node |-> "KeyLookup", table |-> table, alias |-> alias, keys |-> keys]
IndexLookup(table, alias, column, values) ==
  [node |-> "IndexLookup", table |-> table, alias |-> alias, column |-> column,
   values |-> values]
Filter(source, predicate) ==
  [node |-> "Filter", source |-> source, predicate |-> predicate]
Projection(source, expressions) ==
  [node |-> "Projection", source |-> source, expressions |-> expressions]
Aggregation(source, aggregates) ==
  [node |-> "Aggregation", source |-> source, aggregates |-> aggregates]
Order(source, orders) == [node |-> "Order", source |-> source, orders |-> orders]
Offset(source, n)     == [node |-> "Offset", source |-> source, offset |-> n]
Limit(source, n)      == [node |-> "Limit", source |-> source, limit |-> n]
NestedLoopJoin(left, size, right, predicate, outer) ==
  [node |-> "NestedLoopJoin", left |-> left, left_size |-> size, right |-> right,
   predicate |-> predicate, outer |-> outer]
HashJoin(left, left_field, right, right_field, outer) ==
  [node |-> "HashJoin", left |-> left, left_field |-> left_field, right |-> right,
   right_field |-> right_field, outer |-> outer]

-----------------------------------------------------------------------------
(* Scopes.                                                                 *)

EmptyScope == [constant |-> FALSE, tables |-> {}, columns |-> <<>>,
               qualified |-> <<>>, unqualified |-> <<>>, ambiguous |-> {}]

ConstantScope == [EmptyScope EXCEPT !.constant = TRUE]

(* A column added with the first one of its name still found by the name.  *)
AddColumnFirst(scope, table, label) ==
  [scope EXCEPT
     !.columns = Append(@, <<table, label>>),
     !.qualified = IF label = None \/ table = None THEN @
                   ELSE (<<table, label>> :> Len(scope.columns)) @@ @,
     !.unqualified = IF label = None \/ label \in DOMAIN @ THEN @
                     ELSE (label :> Len(scope.columns)) @@ @]

(* add_column(): a name used twice is ambiguous without its table.         *)
AddColumn(scope, table, label) ==
  [scope EXCEPT
     !.columns = Append(@, <<table, label>>),
     !.qualified = IF label = None \/ table = None THEN @
                   ELSE (<<table, label>> :> Len(scope.columns)) @@ @,
     !.unqualified = IF label = None \/ label \in scope.ambiguous THEN @
                     ELSE IF label \in DOMAIN @ THEN Restrict(@, DOMAIN @ \ {label})
                     ELSE (label :> Len(scope.columns)) @@ @,
     !.ambiguous = IF label \in DOMAIN scope.unqualified THEN @ \cup {label} ELSE @]

AddTable(scope, label, table) ==
  IF scope.constant \/ label \in scope.tables THEN None
  ELSE LET s == FoldLeft(LAMBDA acc, c : AddColumn(acc, label, c.name), scope, table.columns)
       IN  [s EXCEPT !.tables = @ \cup {label}]

Merge(scope, other) ==
  IF scope.constant \/ scope.tables \cap other.tables # {} THEN None
  ELSE LET s == FoldLeft(LAMBDA acc, c : AddColumn(acc, c[1], c[2]), scope, other.columns)
       IN  [s EXCEPT !.tables = @ \cup other.tables]

Size(scope) == Len(scope.columns)

(* get_label(): a column's table and name, when it has a name.             *)
GetLabel(scope, i) == IF scope.columns[i + 1][2] = None THEN None ELSE scope.columns[i + 1]

Resolve(scope, table, name) ==
  IF scope.constant THEN None
  ELSE IF table # None
  THEN IF table \in scope.tables /\ <<table, name>> \in DOMAIN scope.qualified
       THEN scope.qualified[<<table, name>>] ELSE None
  ELSE IF name \in DOMAIN scope.unqualified THEN scope.unqualified[name] ELSE None

(* project(): the scope of a projection's output.                          *)
ProjectColumn(scope, new, e, label) ==
  IF label # None THEN AddColumn(new, None, label)
  ELSE IF e.op # "Field" THEN AddColumn(new, None, None)
  ELSE IF e.label = None
  THEN IF e.index < Size(scope)
       THEN AddColumn(new, scope.columns[e.index + 1][1], scope.columns[e.index + 1][2])
       ELSE AddColumn(new, None, None)
  ELSE IF e.label[1] # None THEN AddColumn(new, e.label[1], e.label[2])
  ELSE IF e.label[2] \in DOMAIN scope.unqualified
  THEN AddColumn(new, scope.columns[scope.unqualified[e.label[2]] + 1][1],
                      scope.columns[scope.unqualified[e.label[2]] + 1][2])
  ELSE new

Project(scope, expressions) ==
  FoldLeft(LAMBDA new, e : ProjectColumn(scope, new, e[1], e[2]),
           [EmptyScope EXCEPT !.tables = scope.tables], expressions)

-----------------------------------------------------------------------------
(* Expressions.                                                            *)

(* >=, <= and != are built from the operators of plan expressions.         *)
BuildOperation(op, args) ==
  IF \E i \in DOMAIN args : args[i] = None THEN None
  ELSE CASE op = "GreaterThanOrEqual" ->
              Binary("Or", [op |-> "GreaterThan", args |-> args], [op |-> "Equal", args |-> args])
         [] op = "LessThanOrEqual" ->
              Binary("Or", [op |-> "LessThan", args |-> args], [op |-> "Equal", args |-> args])
         [] op = "NotEqual" -> Unary("Not", [op |-> "Equal", args |-> args])
         [] OTHER -> [op |-> op, args |-> args]

RECURSIVE BuildExpression(_, _)
BuildExpression(scope, e) ==
  CASE e.op = "Literal" -> Constant(e.value)
    [] e.op = "Column" -> IF scope.constant \/ e.index >= Size(scope) THEN None
                          ELSE Field(e.index, GetLabel(scope, e.index))
    [] e.op = "Name" -> IF Resolve(scope, e.table, e.name) = None THEN None
                        ELSE Field(Resolve(scope, e.table, e.name), <<e.table, e.name>>)
    [] e.op = "Function" -> None
    [] OTHER -> BuildOperation(e.op, [i \in DOMAIN e.args |-> BuildExpression(scope, e.args[i])])

(* Expressions with labels, all of them or None.                           *)
BuildAll(scope, es) ==
  LET built == [i \in DOMAIN es |-> <<BuildExpression(scope, es[i][1]), es[i][2]>>]
  IN  IF \E i \in DOMAIN es : built[i][1] = None THEN None ELSE built

(* evaluate_constant(): an error is Error.                                 *)
EvaluateConstant(e) ==
  IF BuildExpression(ConstantScope, e) = None THEN Error
  ELSE Evaluate(BuildExpression(ConstantScope, e), <<>>)

-----------------------------------------------------------------------------
(* FROM.  A built item is its node and the scope after it.                 *)

Built(scope, node) == [scope |-> scope, node |-> node]

(* A right outer join is a left outer join with the sides exchanged, and   *)
(* the columns put back in order by a projection.                          *)
SwapSides(scope, size) ==
  [i \in 1..Size(scope) |->
     LET j == IF i <= Size(scope) - size THEN size + i - 1 ELSE i - 1 - (Size(scope) - size)
     IN  <<Field(j, GetLabel(scope, j)), None>>]

BuildJoin(item, left, right) ==
  LET size == Size(left.scope)
      predicate == IF item.predicate = None THEN None
                   ELSE BuildExpression(right.scope, item.predicate)
      join == NestedLoopJoin(left.node, size, right.node, predicate,
                             item.join \in {"Left", "Right"})
  IN  IF item.predicate # None /\ predicate = None THEN None
      ELSE IF item.join # "Right" THEN Built(right.scope, join)
      ELSE Built(Project(right.scope, SwapSides(right.scope, size)),
                 Projection(join, SwapSides(right.scope, size)))

RECURSIVE BuildFromItem(_, _, _)
BuildFromItem(catalog, scope, item) ==
  IF item.type = "Table"
  THEN IF item.name \notin DOMAIN catalog THEN None
       ELSE LET s == AddTable(scope, IF item.alias = None THEN item.name ELSE item.alias,
                              catalog[item.name])
            IN  IF s = None THEN None ELSE Built(s, Scan(item.name, item.alias, None))
  ELSE LET left == BuildFromItem(catalog, scope,
                                 IF item.join = "Right" THEN item.right ELSE item.left)
       IN  IF left = None THEN None
           ELSE LET right == BuildFromItem(catalog, left.scope,
                                           IF item.join = "Right" THEN item.left ELSE item.right)
                IN  IF right = None THEN None ELSE BuildJoin(item, left, right)

(* build_from_clause(): the items are crossed with each other.             *)
CrossJoin(left, right) ==
  IF left = None \/ right = None THEN None
  ELSE LET s == Merge(left.scope, right.scope)
       IN  IF s = None THEN None
           ELSE Built(s, NestedLoopJoin(left.node, Size(left.scope), right.node, None, FALSE))

BuildFromClause(catalog, from) ==
  FoldLeft(LAMBDA left, item : CrossJoin(left, BuildFromItem(catalog, EmptyScope, item)),
           BuildFromItem(catalog, EmptyScope, Head(from)), Tail(from))

-----------------------------------------------------------------------------
(* Aggregates, groups and hidden columns.                                  *)

AggregateFromName == [f \in {"avg", "count", "max", "min", "sum"} |->
                        CASE f = "avg" -> "Average" [] f = "count" -> "Count"
                          [] f = "max" -> "Max" [] f = "min" -> "Min" [] f = "sum" -> "Sum"]

IsAggregateCall(e) == e.op = "Function" /\ e.name \in DOMAIN AggregateFromName

IsAstLeaf(e) == e.op \in {"Literal", "Name", "Column"}

WithAstArgs(e, args) == IF e.op = "Function" THEN Function(e.name, args)
                        ELSE [op |-> e.op, args |-> args]

RECURSIVE IsAggregate(_)
IsAggregate(e) ==
  IsAggregateCall(e) \/ (~IsAstLeaf(e) /\ \E i \in DOMAIN e.args : IsAggregate(e.args[i]))

(* Replaces the calls of aggregates in e by columns, on the way down, and  *)
(* adds each to a list: of pairs of an aggregate and its argument.         *)
RECURSIVE ExtractFrom(_, _)
ExtractFrom(e, aggregates) ==
  IF IsAggregateCall(e) /\ Len(e.args) = 1
  THEN [e |-> Column(Len(aggregates)),
        list |-> Append(aggregates, <<AggregateFromName[e.name], e.args[1]>>)]
  ELSE IF IsAstLeaf(e) THEN [e |-> e, list |-> aggregates]
  ELSE LET r == FoldLeft(LAMBDA acc, a : LET x == ExtractFrom(a, acc.list)
                                         IN  [args |-> Append(acc.args, x.e), list |-> x.list],
                         [args |-> <<>>, list |-> aggregates], e.args)
       IN  [e |-> WithAstArgs(e, r.args), list |-> r.list]

ExtractAggregates(select) ==
  LET r == FoldLeft(LAMBDA acc, s : LET x == ExtractFrom(s[1], acc.list)
                                    IN  [select |-> Append(acc.select, <<x.e, s[2]>>),
                                         list |-> x.list],
                    [select |-> <<>>, list |-> <<>>], select)
  IN  IF \E i \in DOMAIN r.list : IsAggregate(r.list[i][2]) THEN None ELSE r

FirstIndex(S) == IF S = {} THEN None ELSE Min(S)

(* The select column a group refers to: by its label, or by being equal.   *)
GroupPosition(select, g) ==
  LET labelled == {i \in DOMAIN select : g.op = "Name" /\ g.table = None
                                            /\ select[i][2] = g.name}
      equal == {i \in DOMAIN select : select[i][1] = g}
  IN  IF labelled # {} THEN Min(labelled) ELSE FirstIndex(equal)

ExtractGroup(acc, g, offset) ==
  LET i == GroupPosition(acc.select, g)
  IN  IF i = None THEN [acc EXCEPT !.groups = Append(@, <<g, None>>)]
      ELSE [select |-> [acc.select EXCEPT ![i] = <<Column(offset + Len(acc.groups)), @[2]>>],
            groups |-> Append(acc.groups, acc.select[i])]

ExtractGroups(select, group_by, offset) ==
  LET r == FoldLeft(LAMBDA acc, g : ExtractGroup(acc, g, offset),
                    [select |-> select, groups |-> <<>>], group_by)
  IN  IF \E i \in DOMAIN r.groups : IsAggregate(r.groups[i][1]) THEN None ELSE r

(* inject_hidden(): an expression of HAVING or ORDER BY refers to select   *)
(* columns by position; what it needs and they lack is added to them.      *)
RECURSIVE ReplaceLabel(_, _, _)
ReplaceLabel(e, label, i) ==
  IF e = Name(None, label) THEN Column(i)
  ELSE IF IsAstLeaf(e) THEN e
  ELSE WithAstArgs(e, [k \in DOMAIN e.args |-> ReplaceLabel(e.args[k], label, i)])

ReplaceSelected(e, select) ==
  FoldLeft(LAMBDA x, i : IF x = select[i][1] THEN Column(i - 1)
                         ELSE IF select[i][2] # None THEN ReplaceLabel(x, select[i][2], i - 1)
                         ELSE x,
           e, [i \in DOMAIN select |-> i])

(* An aggregate of a select column that is itself an aggregate fails; so   *)
(* does (by a panic) one without an argument.                              *)
BadAggregate(e, select) ==
  \/ e.args = <<>>
  \/ e.args[1].op = "Column" /\ IsAggregate(select[e.args[1].index + 1][1])

RECURSIVE Hide(_, _)
Hide(e, select) ==
  IF IsAggregateCall(e) \/ e.op = "Name"
  THEN IF IsAggregateCall(e) /\ BadAggregate(e, select) THEN None
       ELSE [e |-> Column(Len(select)), select |-> Append(select, <<e, None>>)]
  ELSE IF IsAstLeaf(e) THEN [e |-> e, select |-> select]
  ELSE LET r == FoldLeft(LAMBDA acc, a :
                           IF acc = None THEN None
                           ELSE LET x == Hide(a, acc.select)
                                IN  IF x = None THEN None
                                    ELSE [args |-> Append(acc.args, x.e), select |-> x.select],
                         [args |-> <<>>, select |-> select], e.args)
       IN  IF r = None THEN None ELSE [e |-> WithAstArgs(e, r.args), select |-> r.select]

InjectHidden(e, select) == Hide(ReplaceSelected(e, select), select)

-----------------------------------------------------------------------------
(* SELECT.  Each step takes what is built so far, or None.                 *)

AddFilter(b, e) ==
  IF b = None \/ e = None THEN b
  ELSE LET predicate == BuildExpression(b.scope, e)
       IN  IF predicate = None THEN None ELSE Built(b.scope, Filter(b.node, predicate))

BuildBase(catalog, s) ==
  IF s.from # <<>> THEN BuildFromClause(catalog, s.from)
  ELSE IF s.select = <<>> THEN None ELSE Built(EmptyScope, Nothing)

(* The select list with its hidden columns, and the clauses that use them. *)
InjectOrder(acc, o) ==
  IF acc = None THEN None
  ELSE LET x == InjectHidden(o[1], acc.select)
       IN  IF x = None THEN None
           ELSE [acc EXCEPT !.select = x.select, !.order = Append(@, <<x.e, o[2]>>)]

InjectAll(s) ==
  IF s.select = <<>> THEN [select |-> <<>>, having |-> s.having, order |-> s.order]
  ELSE LET h == IF s.having = None THEN [e |-> None, select |-> s.select]
                ELSE InjectHidden(s.having, s.select)
       IN  IF h = None THEN None
           ELSE FoldLeft(LAMBDA acc, o : InjectOrder(acc, o),
                         [select |-> h.select, having |-> h.e, order |-> <<>>], s.order)

(* build_aggregation(): arguments and groups are projected first; behind   *)
(* the aggregation only the groups can be named.                           *)
BuildAggregation(b, groups, aggregates) ==
  LET n == Len(aggregates)
      expressions == BuildAll(b.scope, [i \in DOMAIN aggregates |-> <<aggregates[i][2], None>>]
                                         \o groups)
  IN  IF expressions = None THEN None
      ELSE Built(Project(b.scope, [i \in DOMAIN expressions |->
                                     IF i <= n THEN <<Constant(Null), None>> ELSE expressions[i]]),
                 Aggregation(Projection(b.node, expressions),
                             [i \in DOMAIN aggregates |-> aggregates[i][1]]))

AddProjection(b, select) ==
  IF b = None THEN None
  ELSE LET expressions == BuildAll(b.scope, select)
       IN  IF expressions = None THEN None
           ELSE Built(Project(b.scope, expressions), Projection(b.node, expressions))

AddSelect(b, select, group_by) ==
  IF b = None \/ select = <<>> THEN b
  ELSE LET a == ExtractAggregates(select)
           g == IF a = None THEN None ELSE ExtractGroups(a.select, group_by, Len(a.list))
       IN  IF g = None THEN None
           ELSE AddProjection(IF a.list = <<>> /\ g.groups = <<>> THEN b
                              ELSE BuildAggregation(b, g.groups, a.list), g.select)

AddOrder(b, order) ==
  IF b = None \/ order = <<>> THEN b
  ELSE LET orders == BuildAll(b.scope, order)
       IN  IF orders = None THEN None ELSE Built(b.scope, Order(b.node, orders))

IsCount(v) == DataType(v) = "integer" /\ v[2] >= 0

AddOffset(b, e) ==
  IF b = None \/ e = None THEN b
  ELSE IF ~IsCount(EvaluateConstant(e)) THEN None
  ELSE Built(b.scope, Offset(b.node, EvaluateConstant(e)[2]))

AddLimit(b, e) ==
  IF b = None \/ e = None THEN b
  ELSE IF ~IsCount(EvaluateConstant(e)) THEN None
  ELSE Built(b.scope, Limit(b.node, EvaluateConstant(e)[2]))

(* Removes the hidden columns, which are the last ones.                    *)
RemoveHidden(b, hidden) ==
  IF b = None THEN None
  ELSE IF hidden = 0 THEN b.node
  ELSE Projection(b.node, [i \in 1..(Size(b.scope) - hidden) |-> <<Field(i - 1, None), None>>])

BuildSelect(catalog, s) ==
  LET x == InjectAll(s)
  IN  IF x = None THEN None
      ELSE RemoveHidden(
             AddLimit(AddOffset(AddOrder(AddFilter(AddSelect(AddFilter(BuildBase(catalog, s),
                                                                       s.where),
                                                             x.select, s.group_by),
                                                   x.having),
                                         x.order), s.offset), s.limit),
             Len(x.select) - Len(s.select))

-----------------------------------------------------------------------------
(* The other statements.                                                   *)

(* The scan that feeds a DELETE or an UPDATE.                              *)
BuildTarget(catalog, table, where) ==
  IF table \notin DOMAIN catalog THEN None
  ELSE LET b == AddFilter(Built(AddTable(EmptyScope, table, catalog[table]), None), where)
       IN  IF b = None THEN None
           ELSE Built(b.scope, Scan(table, None, IF where = None THEN None ELSE b.node.predicate))

BuildDelete(catalog, s) ==
  LET b == BuildTarget(catalog, s.table, s.where)
  IN  IF b = None THEN None ELSE [node |-> "Delete", table |-> s.table, source |-> b.node]

BuildUpdate(catalog, s) ==
  LET b == BuildTarget(catalog, s.table, s.where)
      set == IF b = None THEN None
             ELSE [i \in DOMAIN s.set |-> <<Resolve(b.scope, None, s.set[i][1]),
                                            BuildExpression(b.scope, s.set[i][2])>>]
  IN  IF b = None THEN None
      ELSE IF \E i \in DOMAIN set : set[i][1] = None \/ set[i][2] = None THEN None
      ELSE [node |-> "Update", table |-> s.table, source |-> b.node, expressions |-> set]

BuildInsert(s) ==
  LET rows == [i \in DOMAIN s.values |->
                 [j \in DOMAIN s.values[i] |-> BuildExpression(ConstantScope, s.values[i][j])]]
  IN  IF \E i \in DOMAIN rows : \E j \in DOMAIN rows[i] : rows[i][j] = None THEN None
      ELSE [node |-> "Insert", table |-> s.table, expressions |-> rows,
            columns |-> IF s.columns = None THEN <<>> ELSE s.columns]

(* A column's schema: only a primary key is not nullable by default, and   *)
(* a nullable column defaults to NULL.                                     *)
BuildColumn(c) ==
  LET nullable == IF c.nullable = None THEN ~c.primary_key ELSE c.nullable
  IN  [name |-> c.name, datatype |-> c.datatype, primary_key |-> c.primary_key,
       nullable |-> nullable, index |-> c.index /\ ~c.primary_key,
       unique |-> c.unique \/ c.primary_key, references |-> c.references,
       default |-> IF c.default # None THEN EvaluateConstant(c.default)
                   ELSE IF nullable THEN Null ELSE None]

BuildCreateTable(s) ==
  LET columns == [i \in DOMAIN s.columns |-> BuildColumn(s.columns[i])]
  IN  IF \E i \in DOMAIN columns : columns[i].default = Error THEN None
      ELSE [node |-> "CreateTable", schema |-> [name |-> s.name, columns |-> columns]]

(* Planner::build(): transaction control and EXPLAIN are the session's.    *)
BuildStatement(catalog, s) ==
  CASE s.type = "Select"      -> BuildSelect(catalog, s)
    [] s.type = "Delete"      -> BuildDelete(catalog, s)
    [] s.type = "Update"      -> BuildUpdate(catalog, s)
    [] s.type = "Insert"      -> BuildInsert(s)
    [] s.type = "CreateTable" -> BuildCreateTable(s)
    [] s.type = "DropTable"   -> [node |-> "DropTable", table |-> s.name,
                                  if_exists |-> s.if_exists]
    [] OTHER -> None

=============================================================================
