------------------------------- MODULE MCQuery -------------------------------
(***************************************************************************)
(* Statements and databases for Query.  Every pair of operators is nested  *)
(* both ways for the parser; the clauses of a SELECT are combined for the  *)
(* planner, the optimizers and the executors.                              *)
(***************************************************************************)
EXTENDS Query

I(n) == Literal(Integer(n))
N(name) == Name(None, name)
T(name) == Name("t", name)
U(name) == Name("u", name)
V(name) == Name("v", name)
Cnt(e) == Function("count", <<e>>)
All == Literal(True)

-----------------------------------------------------------------------------
(* Databases: t and u share column names, u.tid may repeat, v may be empty *)

Col(name, datatype) ==
  [name |-> name, datatype |-> datatype, primary_key |-> FALSE, nullable |-> TRUE,
   default |-> Null, unique |-> FALSE, index |-> FALSE, references |-> None]
Pk == [Col("id", "integer") EXCEPT !.primary_key = TRUE, !.nullable = FALSE, !.default = None,
                                   !.unique = TRUE]
Indexed(name) == [Col(name, "integer") EXCEPT !.index = TRUE]

Catalog == [t |-> [name |-> "t", columns |-> <<Pk, Indexed("a"), Col("b", "boolean")>>],
            u |-> [name |-> "u", columns |-> <<Pk, Col("tid", "integer"), Indexed("a")>>],
            v |-> [name |-> "v", columns |-> <<Pk, Col("c", "integer")>>]]

Row3(id, x, y) == <<Integer(id), x, y>>

Repeated == [catalog |-> Catalog,
             rows |-> [t |-> <<Row3(1, Integer(1), True), Row3(2, Integer(1), Null),
                               Row3(3, Null, False)>>,
                       u |-> <<Row3(1, Integer(1), Integer(2)), Row3(2, Integer(1), Null),
                               Row3(3, Integer(3), Integer(1))>>,
                       v |-> <<>>]]
Distinct == [catalog |-> Catalog,
             rows |-> [t |-> <<Row3(1, Integer(2), True), Row3(2, Integer(0), False),
                               Row3(4, Integer(2), Null)>>,
                       u |-> <<Row3(1, Integer(2), Integer(2)), Row3(2, Integer(1), Integer(0))>>,
                       v |-> <<<<Integer(1), Integer(1)>>, <<Integer(2), Integer(4)>>>>]]

MCDatabases == {Repeated, Distinct}

-----------------------------------------------------------------------------
(* Statements.                                                             *)

Base == [type |-> "Select", select |-> <<>>, from |-> <<>>, where |-> None, group_by |-> <<>>,
         having |-> None, order |-> <<>>, limit |-> None, offset |-> None]

BinaryOps == {"Or", "And", "Equal", "NotEqual", "Like", "GreaterThan", "GreaterThanOrEqual",
              "LessThan", "LessThanOrEqual", "Add", "Subtract", "Multiply", "Divide", "Modulo",
              "Exponentiate"}

Nested(unary, binary, x, y, z) ==
  {Binary(o, Binary(p, x, y), z) : o, p \in binary}
    \cup {Binary(o, x, Binary(p, y, z)) : o, p \in binary}
    \cup {Unary(o, Binary(p, x, y)) : o \in unary, p \in binary}
    \cup {Binary(p, Unary(o, x), y) : o \in unary, p \in binary}
    \cup {Binary(p, x, Unary(o, y)) : o \in unary, p \in binary}
    \cup {Unary(o, Unary(p, x)) : o, p \in unary}

(* Written, but with no table to take the names from.                      *)
Written == {[Base EXCEPT !.select = <<<<e, None>>>>] :
              e \in Nested(UnaryOps, BinaryOps, N("x"), N("y"), N("z"))}
             \cup {[Base EXCEPT !.select = <<<<Literal(Infinity), None>>, <<Literal(NaN), "x">>>>]}

Tab(name) == [type |-> "Table", name |-> name, alias |-> None]
As(name, alias) == [type |-> "Table", name |-> name, alias |-> alias]
Joined(join, left, right, predicate) ==
  [type |-> "Join", join |-> join, left |-> left, right |-> right, predicate |-> predicate]

Is(l, r)  == Binary("Equal", l, r)
And(l, r) == Binary("And", l, r)
Or(l, r)  == Binary("Or", l, r)
Not(e)    == Unary("Not", e)
IsNull(e) == Unary("IsNull", e)
Items(es) == [i \in DOMAIN es |-> <<es[i], None>>]

(* Conditions on t.                                                        *)
Conditions ==
  {None, N("b"), Is(N("a"), I(1)), Or(Is(N("id"), I(1)), Is(I(2), N("id"))), IsNull(N("a")),
   Not(IsNull(N("b"))), And(Is(N("a"), I(2)), Binary("GreaterThan", N("id"), I(1))),
   Not(Or(Is(N("a"), I(1)), N("b"))), Not(And(N("b"), Not(Is(N("a"), I(2))))),
   Or(Is(N("id"), I(1)), And(N("b"), Is(N("a"), I(1)))),
   And(Or(Is(N("a"), I(1)), Is(N("a"), I(2))), Not(N("b"))),
   And(Is(N("id"), I(1)), Is(N("id"), I(2))), Or(N("b"), Literal(Null)),
   And(Is(I(1), I(1)), Is(N("a"), I(1))), Binary("GreaterThanOrEqual", N("a"), I(1)),
   Binary("NotEqual", N("a"), I(1)), Is(N("a"), Literal(Null)),
   Or(Is(N("id"), I(1)), Is(N("id"), I(1))), Is(N("id"), Literal(Float(2))),
   Literal(False), Literal(Null), N("a"), N("nope"), Is(Binary("Divide", I(2), N("a")), I(1)),
   Is(Binary("Divide", I(1), I(0)), I(1))}

Lists == {<<>>, Items(<<N("a")>>), <<<<N("id"), None>>, <<N("a"), "x">>>>,
          Items(<<Binary("Add", N("id"), N("a")), And(N("b"), Literal(Null))>>)}

FromT == [Base EXCEPT !.from = <<Tab("t")>>]

Computed ==
  {[FromT EXCEPT !.select = <<<<e, None>>>>] :
     e \in Nested({"Negate", "IsNull"}, {"Add", "Divide", "LessThan", "NotEqual", "Multiply"},
                  N("a"), I(2), N("id"))
           \cup Nested({"Not", "IsNull"}, {"And", "Or"}, N("b"), Literal(Null), Literal(True))
           \cup Nested({"Not"}, {"And", "Or"}, Literal(False), N("b"), Literal(Null))}

Filtered == {[FromT EXCEPT !.select = l, !.where = w] : l \in Lists, w \in Conditions}

(* x is a label in one of the lists, and no column.                        *)
Orders == {<<>>, <<<<N("a"), "Descending">>>>,
           <<<<Not(N("b")), "Ascending">>, <<N("id"), "Descending">>>>,
           <<<<Binary("Multiply", N("x"), N("id")), "Descending">>>>}

Sorted == {[FromT EXCEPT !.select = l, !.order = o, !.limit = n, !.offset = k] :
             l \in Lists, o \in Orders, n \in {None, I(1), I(2)}, k \in {None, I(1), I(9)}}

Grouped ==
  {[FromT EXCEPT !.select = l, !.group_by = g, !.having = h, !.order = o, !.where = w] :
     l \in {Items(<<Cnt(All)>>), <<<<N("a"), "x">>, <<Cnt(N("b")), "n">>>>,
            Items(<<Function("max", <<N("id")>>), Binary("Add", Function("min", <<N("a")>>), I(1))>>),
            Items(<<Function("sum", <<N("id")>>), Function("avg", <<N("a")>>)>>)},
     g \in {<<>>, <<N("a")>>, <<N("x")>>, <<N("id"), N("a")>>},
     h \in {None, Binary("GreaterThan", Cnt(All), I(1)), Is(I(1), I(2)),
            Binary("LessThan", N("n"), N("x"))},
     o \in {<<>>, <<<<Function("max", <<N("id")>>), "Descending">>>>,
            <<<<N("n"), "Descending">>, <<N("x"), "Ascending">>>>},
     w \in {None, Binary("LessThan", N("id"), I(1)), Not(IsNull(N("a")))}}

(* Joins.                                                                  *)
OnPredicates ==
  {Is(T("id"), U("tid")), Is(N("tid"), T("id")), And(Is(T("id"), U("tid")), Is(U("a"), I(2))),
   And(Is(T("id"), U("tid")), Is(T("id"), I(1))), Is(T("a"), U("a")), N("b"),
   Binary("LessThan", T("id"), U("tid")), Or(Is(T("id"), U("tid")), Is(U("id"), I(1))),
   Is(T("id"), T("a"))}

Froms ==
  {<<Tab("t"), Tab("u")>>, <<Joined("Cross", Tab("t"), Tab("u"), None)>>,
   <<Tab("t"), Joined("Right", Tab("u"), Tab("v"), Is(U("tid"), V("id")))>>,
   <<Joined("Left", Joined("Inner", Tab("t"), Tab("u"), Is(T("id"), U("tid"))), Tab("v"),
            Is(V("c"), T("id")))>>,
   <<Tab("v"), Joined("Inner", Tab("t"), Tab("u"), Is(T("id"), U("tid")))>>,
   <<Joined("Right", Joined("Cross", Tab("t"), Tab("u"), None), Tab("v"), Is(V("c"), T("id")))>>,
   <<Joined("Right", Joined("Inner", Tab("t"), Tab("u"), Is(T("id"), U("tid"))), Tab("v"),
            Is(V("c"), T("id")))>>}
  \cup {<<Joined(j, Tab("t"), Tab("u"), p)>> : j \in {"Inner", "Left", "Right"}, p \in OnPredicates}

Joining ==
  {[Base EXCEPT !.select = l, !.from = f, !.where = w] :
     l \in {<<>>, Items(<<T("id"), U("id")>>), Items(<<N("id")>>), Items(<<Cnt(U("a"))>>)},
     f \in Froms,
     w \in {None, Is(U("a"), I(2)), Is(T("a"), I(2)), Is(T("id"), U("tid")), IsNull(U("a"))}}

SelfJoin == [Base EXCEPT !.select = Items(<<Name("x", "id"), Name("y", "id")>>),
                         !.from = <<As("t", "x"), As("t", "y")>>,
                         !.where = Is(Name("x", "id"), Name("y", "a"))]

(* The other statements.                                                   *)
Writes ==
  {[type |-> "Delete", table |-> "t", where |-> w] : w \in Conditions}
    \cup {[type |-> "Update", table |-> "t", where |-> w,
           set |-> <<<<"a", Binary("Add", N("id"), N("a"))>>, <<"b", Not(N("b"))>>>>] :
            w \in Conditions}
    \cup {[type |-> "Insert", table |-> "t", columns |-> c, values |-> v] :
            c \in {None, <<"a", "id">>, <<"id">>, <<"id", "id">>, <<"b">>},
            v \in {<<<<I(7), I(1)>>>>, <<<<I(7)>>, <<Binary("Add", I(4), I(4))>>>>, <<<<N("a")>>>>}}
    \cup {[type |-> "Update", table |-> "t", where |-> None, set |-> <<<<"c", I(1)>>>>],
          [type |-> "Delete", table |-> "w", where |-> None]}

AstCol(name, datatype) == [name |-> name, datatype |-> datatype, primary_key |-> FALSE,
                           nullable |-> None, default |-> None, unique |-> FALSE,
                           index |-> FALSE, references |-> None]
Others ==
  {[type |-> "CreateTable", name |-> "w",
    columns |-> <<[AstCol("id", "integer") EXCEPT !.primary_key = TRUE, !.nullable = n],
                  [AstCol("c", d) EXCEPT !.index = TRUE, !.references = "t", !.default = e],
                  [AstCol("d", "string") EXCEPT !.unique = TRUE, !.nullable = TRUE]>>] :
     n \in {None, FALSE}, d \in {"boolean", "float", "integer"},
     e \in {None, Binary("Add", I(1), I(1)), N("x")}}
  \cup {[type |-> "DropTable", name |-> "t", if_exists |-> b] : b \in BOOLEAN}
  \cup {[type |-> "Begin", read_only |-> b, as_of |-> v] : b \in BOOLEAN, v \in {None, 3}}
  \cup {[type |-> "Commit"], [type |-> "Rollback"], [type |-> "Explain", statement |-> FromT]}

MCStatements == Written \cup Computed \cup Filtered \cup Sorted \cup Grouped \cup Joining \cup {SelfJoin}
                  \cup Writes \cup Others

(* Inner joins on their own.                                               *)
MCInnerJoins == {[Base EXCEPT !.from = <<Joined("Inner", Tab("t"), Tab("u"), p)>>] :
                   p \in {Is(T("id"), U("id")), Is(T("id"), U("tid")),
                          Binary("LessThan", T("id"), U("tid"))}}

MCMatches == {}

SampleValues == {Null, True, False, Integer(1)}
MCSamples == {<<x, y, z>> : x \in {Integer(1), Integer(2)}, y \in SampleValues, z \in SampleValues}

=============================================================================
