----------------------------- MODULE Optimizer -----------------------------
(***************************************************************************)
(* The plan optimizers (src/sql/plan/optimizer.rs), in the order in which  *)
(* Plan::optimize() runs them, and the traversals of plan trees they use   *)
(* (src/sql/plan/mod.rs).                                                  *)
(***************************************************************************)
EXTENDS Planner

(* transform(): the nodes below a node.                                    *)
Children(n) == IF "source" \in DOMAIN n THEN <<n.source>>
               ELSE IF "left" \in DOMAIN n THEN <<n.left, n.right>> ELSE <<>>

WithChildren(n, cs) ==
  IF "source" \in DOMAIN n THEN [n EXCEPT !.source = cs[1]]
  ELSE IF "left" \in DOMAIN n THEN [n EXCEPT !.left = cs[1], !.right = cs[2]] ELSE n

(* The expressions of a node, not those below it.                          *)
Expressions(n) ==
  CASE n.node \in {"Filter", "NestedLoopJoin"} -> {n.predicate} \ {None}
    [] n.node = "Scan" -> {n.filter} \ {None}
    [] n.node = "Order" -> {n.orders[i][1] : i \in DOMAIN n.orders}
    [] n.node = "Projection" -> {n.expressions[i][1] : i \in DOMAIN n.expressions}
    [] n.node = "Update" -> {n.expressions[i][2] : i \in DOMAIN n.expressions}
    [] n.node = "Insert" -> UNION {Range(n.expressions[i]) : i \in DOMAIN n.expressions}
    [] OTHER -> {}

(* transform_expressions(): f maps each of them to its replacement.        *)
MapExpressions(n, f) ==
  CASE n.node = "Filter" -> [n EXCEPT !.predicate = f[@]]
    [] n.node = "NestedLoopJoin" /\ n.predicate # None -> [n EXCEPT !.predicate = f[@]]
    [] n.node = "Scan" /\ n.filter # None -> [n EXCEPT !.filter = f[@]]
    [] n.node = "Order" ->
         [n EXCEPT !.orders = [i \in DOMAIN @ |-> <<f[@[i][1]], @[i][2]>>]]
    [] n.node = "Projection" ->
         [n EXCEPT !.expressions = [i \in DOMAIN @ |-> <<f[@[i][1]], @[i][2]>>]]
    [] n.node = "Update" ->
         [n EXCEPT !.expressions = [i \in DOMAIN @ |-> <<@[i][1], f[@[i][2]]>>]]
    [] n.node = "Insert" ->
         [n EXCEPT !.expressions = [i \in DOMAIN @ |-> [j \in DOMAIN @[i] |-> f[@[i][j]]]]]
    [] OTHER -> n

-----------------------------------------------------------------------------
(* ConstantFolder.  An error of evaluation stays in the tree as a constant *)
(* and fails the whole pass.                                               *)

ContainsNoField(e) == Fields(e) = {}

RECURSIVE FoldExpression(_)
FoldExpression(e) ==
  IF ContainsNoField(e) THEN Constant(Evaluate(e, <<>>))
  ELSE WithArgs(e, [i \in DOMAIN Args(e) |-> FoldExpression(Args(e)[i])])

RECURSIVE FoldNodes(_)
FoldNodes(n) ==
  MapExpressions(WithChildren(n, [i \in DOMAIN Children(n) |-> FoldNodes(Children(n)[i])]),
                 [e \in Expressions(n) |-> FoldExpression(e)])

RECURSIVE HasError(_), NodeFails(_)
HasError(e) == \/ e.op = "Constant" /\ e.value = Error
               \/ \E i \in DOMAIN Args(e) : HasError(Args(e)[i])

NodeFails(n) == \/ \E e \in Expressions(n) : HasError(e)
                \/ \E i \in DOMAIN Children(n) : NodeFails(Children(n)[i])

ConstantFolder(n) == IF NodeFails(FoldNodes(n)) THEN None ELSE FoldNodes(n)

-----------------------------------------------------------------------------
(* FilterPushdown.                                                         *)

(* A filter pushed over the one that is there.                             *)
PushdownReplacing(e, target) ==
  IF target.node = "Scan" THEN [target |-> [target EXCEPT !.filter = e], remainder |-> None]
  ELSE IF target.node \in {"NestedLoopJoin", "Filter"}
  THEN [target |-> [target EXCEPT !.predicate = e], remainder |-> None]
  ELSE [target |-> target, remainder |-> e]

(* pushdown(): the target with the expression in it, and what is left.     *)
Pushdown(e, target) ==
  CASE target.node = "Scan" ->
         [target |-> [target EXCEPT !.filter = IF @ = None THEN e ELSE Binary("And", e, @)],
          remainder |-> None]
    [] target.node = "NestedLoopJoin" ->
         [target |-> [target EXCEPT !.predicate = IF @ = None THEN e ELSE Binary("And", e, @)],
          remainder |-> None]
    [] target.node = "Filter" ->
         [target |-> [target EXCEPT !.predicate = Binary("And", @, e)], remainder |-> None]
    [] OTHER -> [target |-> target, remainder |-> e]

PushNothing(target) == [target |-> target, remainder |-> None]

PushVec(es, target) == IF es = <<>> THEN PushNothing(target)
                       ELSE Pushdown(FromCNFVec(es), target)

(* Field references to the right source, from its own first column.        *)
RECURSIVE Shift(_, _)
Shift(e, boundary) ==
  IF e.op = "Field" THEN Field(e.index - boundary, e.label)
  ELSE WithArgs(e, [i \in DOMAIN Args(e) |-> Shift(Args(e)[i], boundary)])

(* The first lookup of a field among conjuncts, or None.                   *)
FirstLookup(es, field) ==
  LET found == {i \in DOMAIN es : AsLookup(es[i], field) # None}
  IN  IF found = {} THEN None ELSE AsLookup(es[Min(found)], field)

IsEquijoin(e) == e.op = "Equal" /\ e.args[1].op = "Field" /\ e.args[2].op = "Field"

(* An equijoin carries a constant lookup on one side over to the other.    *)
Transfer(acc, e) ==
  IF ~IsEquijoin(e) THEN acc
  ELSE LET swap  == e.args[1].index > e.args[2].index
           l     == IF swap THEN e.args[2] ELSE e.args[1]
           r     == IF swap THEN e.args[1] ELSE e.args[2]
           lvals == FirstLookup(acc.left, l.index)
           rvals == FirstLookup(acc.right, r.index)
       IN  IF lvals # None
           THEN [acc EXCEPT !.right = Append(@, FromLookup(r.index, r.label, lvals))]
           ELSE IF rvals # None
           THEN [acc EXCEPT !.left = Append(@, FromLookup(l.index, l.label, rvals))]
           ELSE acc

(* pushdown_join(): conjuncts about one side go into that side.            *)
Remainder(r) == IF r.remainder = None THEN <<>> ELSE <<r.remainder>>

PushdownParts(n) ==
  LET cnf   == IntoCNFVec(n.predicate)
      isLeft(e)  == \A i \in Fields(e) : i < n.left_size
      isRight(e) == ~isLeft(e) /\ \A i \in Fields(e) : i >= n.left_size
      isBoth(e)  == ~isLeft(e) /\ ~isRight(e)
  IN  [left |-> SelectSeq(cnf, isLeft), right |-> SelectSeq(cnf, isRight),
       both |-> SelectSeq(cnf, isBoth)]

PushParts(n, both, parts) ==
  LET l == PushVec(parts.left, n.left)
      r == PushVec([i \in DOMAIN parts.right |-> Shift(parts.right[i], n.left_size)], n.right)
  IN  [n EXCEPT !.left = l.target, !.right = r.target,
                !.predicate = FromCNFVec(both \o Remainder(l) \o Remainder(r))]

PushdownJoin(n) ==
  LET parts == PushdownParts(n)
  IN  PushParts(n, parts.both,
                FoldLeft(LAMBDA acc, e : Transfer(acc, e),
                         [left |-> parts.left, right |-> parts.right], parts.both))

(* A filter that has been pushed down stays as a filter that is true.      *)
PushdownFilter(n) ==
  LET r == Pushdown(n.predicate, n.source)
  IN  Filter(r.target, IF r.remainder = None THEN Constant(True) ELSE r.remainder)

PushdownAt(n) == CASE n.node = "Filter" -> PushdownFilter(n)
                   [] n.node = "NestedLoopJoin" /\ n.predicate # None -> PushdownJoin(n)
                   [] OTHER -> n

RECURSIVE PushdownBelow(_)
PushdownBelow(n) ==
  WithChildren(n, [i \in DOMAIN Children(n) |-> PushdownBelow(PushdownAt(Children(n)[i]))])

FilterPushdown(n) == PushdownBelow(PushdownAt(n))

-----------------------------------------------------------------------------
(* IndexLookup: the first conjunct of a scan's filter that looks up the    *)
(* primary key, or else an indexed column, becomes a lookup.               *)

PrimaryKeyAt(table) == CHOOSE i \in DOMAIN table.columns : table.columns[i].primary_key

LookupColumns(table, e) ==
  {i \in DOMAIN table.columns :
     /\ table.columns[i].primary_key \/ table.columns[i].index
     /\ AsLookup(e, i - 1) # None}

WrapCNF(n, cnf) == IF cnf = <<>> THEN n ELSE Filter(n, FromCNFVec(cnf))

LookupBy(table, n, e) ==
  LET columns == LookupColumns(table, e)
  IN  IF PrimaryKeyAt(table) \in columns
      THEN KeyLookup(n.table, n.alias, AsLookup(e, PrimaryKeyAt(table) - 1))
      ELSE IndexLookup(n.table, n.alias, table.columns[Min(columns)].name,
                       AsLookup(e, Min(columns) - 1))

LookupAt(catalog, n) ==
  IF n.node # "Scan" \/ n.filter = None THEN n
  ELSE LET cnf == IntoCNFVec(n.filter)
           usable == {i \in DOMAIN cnf : LookupColumns(catalog[n.table], cnf[i]) # {}}
       IN  IF usable = {} THEN n
           ELSE WrapCNF(LookupBy(catalog[n.table], n, cnf[Min(usable)]),
                        RemoveAt(cnf, Min(usable)))

RECURSIVE IndexLookups(_, _)
IndexLookups(catalog, n) ==
  LookupAt(catalog, WithChildren(n, [i \in DOMAIN Children(n) |->
                                       IndexLookups(catalog, Children(n)[i])]))

-----------------------------------------------------------------------------
(* NoopCleaner and JoinType.                                               *)

IsConstant(e, values) == e.op = "Constant" /\ e.value \in values

(* Constants in conjunctions and disjunctions: NULL is taken for false.    *)
CleanOperation(e) ==
  IF e.op \notin LogicOps THEN e
  ELSE LET l == e.args[1]
           r == e.args[2]
           no == {False, Null}
       IN  CASE e.op = "And" /\ (IsConstant(l, no) \/ IsConstant(r, no)) -> Constant(False)
             [] e.op = "And" /\ IsConstant(l, {True}) -> r
             [] e.op = "And" /\ IsConstant(r, {True}) -> l
             [] e.op = "Or" /\ IsConstant(l, no) -> r
             [] e.op = "Or" /\ IsConstant(r, no) -> l
             [] e.op = "Or" /\ (IsConstant(l, {True}) \/ IsConstant(r, {True})) -> Constant(True)
             [] OTHER -> e

RECURSIVE CleanExpression(_)
CleanExpression(e) ==
  CleanOperation(WithArgs(e, [i \in DOMAIN Args(e) |-> CleanExpression(Args(e)[i])]))

DropNoop(n) == IF n.node = "Filter" /\ n.predicate = Constant(True) THEN n.source ELSE n

RECURSIVE NoopCleaner(_)
NoopCleaner(n) ==
  DropNoop(MapExpressions(WithChildren(n, [i \in DOMAIN Children(n) |->
                                             NoopCleaner(Children(n)[i])]),
                          [e \in Expressions(n) |-> CleanExpression(e)]))

(* A nested-loop join on one equality of fields becomes a hash join.  The  *)
(* right field is taken to be on the right: when neither is, its index     *)
(* underflows.                                                             *)
HashAt(n) ==
  IF n.node # "NestedLoopJoin" \/ n.predicate = None THEN n
  ELSE IF ~IsEquijoin(n.predicate) THEN n
  ELSE LET a == n.predicate.args[1].index
           b == n.predicate.args[2].index
       IN  IF a < n.left_size THEN HashJoin(n.left, a, n.right, b - n.left_size, n.outer)
           ELSE HashJoin(n.left, b, n.right, a - n.left_size, n.outer)

RECURSIVE JoinTypes(_)
JoinTypes(n) ==
  LET h == HashAt(n)
  IN  WithChildren(h, [i \in DOMAIN Children(h) |-> JoinTypes(Children(h)[i])])

=============================================================================
