------------------------------- MODULE Parser -------------------------------
(***************************************************************************)
(* The recursive-descent SQL parser (src/sql/parser/mod.rs), from tokens   *)
(* to the statements of src/sql/parser/ast.rs.  A token is a tuple: a      *)
(* keyword or symbol, an identifier, or a literal value.  A parser state   *)
(* holds the tokens left and a stack of what has been parsed, so that a    *)
(* parsing function takes a state and leaves its result on the stack; an   *)
(* error is the state Fail, which every function leaves alone.             *)
(***************************************************************************)
EXTENDS Expression

Keyword(k) == <<k>>
Ident(n)   == <<"ident", n>>

(* The tokens that are written like a keyword here but are none.           *)
Symbols == {".", "=", ">", ">=", "<", "<=", "<>", "+", "-", "*", "/", "^", "%", "!", "!=",
            "?", "(", ")", ",", ";"}

(* The syntax tree.  NULL-valued Options are None; operators share the     *)
(* Unary and Binary nodes of plan expressions.                             *)
Literal(v)           == [op |-> "Literal", value |-> v]
Name(table, name)    == [op |-> "Name", table |-> table, name |-> name]
Column(i)            == [op |-> "Column", index |-> i]
Function(name, args) == [op |-> "Function", name |-> name, args |-> args]

-----------------------------------------------------------------------------
(* Parser states.                                                          *)

Parser(tokens) == [ok |-> TRUE, tokens |-> tokens, out |-> <<>>]
Fail           == [ok |-> FALSE, tokens |-> <<>>, out |-> <<>>]

At(p, t) == p.ok /\ p.tokens # <<>> /\ Head(p.tokens) = Keyword(t)
AtAny(p, tag) == p.ok /\ p.tokens # <<>> /\ Head(p.tokens)[1] \in tag

AtKeyword(p) ==
  /\ p.ok
  /\ p.tokens # <<>>
  /\ Len(Head(p.tokens)) = 1
  /\ Head(p.tokens)[1] \notin Symbols

Skip(p)      == [p EXCEPT !.tokens = Tail(@)]
SkipIf(p, t) == IF At(p, t) THEN Skip(p) ELSE p
Expect(p, t) == IF At(p, t) THEN Skip(p) ELSE Fail
ExpectEnd(p) == IF p.tokens = <<>> THEN p ELSE Fail

Top(p, k)       == p.out[Len(p.out) - k + 1]
Push(p, v)      == IF p.ok THEN [p EXCEPT !.out = Append(@, v)] ELSE p
Reduce(p, n, v) == IF p.ok
                   THEN [p EXCEPT !.out = Append(SubSeq(@, 1, Len(@) - n), v)]
                   ELSE p

(* Adds the item on top of the stack to the list below it.                 *)
Collect(p) == Reduce(p, 2, Append(Top(p, 2), Top(p, 1)))

(* Nodes made of what was parsed last.                                     *)
ReducePair(p)       == Reduce(p, 2, <<Top(p, 2), Top(p, 1)>>)
ReduceName(p)       == Reduce(p, 2, Name(Top(p, 2), Top(p, 1)))
ReduceFunction(p)   == Reduce(p, 2, Function(Top(p, 2), Top(p, 1)))
ReduceUnary(p, op)  == Reduce(p, 1, Unary(op, Top(p, 1)))
ReduceBinary(p, op) == Reduce(p, 2, Binary(op, Top(p, 2), Top(p, 1)))

NextIdent(p) == IF AtAny(p, {"ident"}) THEN Push(Skip(p), Head(p.tokens)[2]) ELSE Fail

-----------------------------------------------------------------------------
(* Operators.                                                              *)

PrefixOps  == [t \in {"NOT", "-", "+"} |->
                CASE t = "NOT" -> "Not" [] t = "-" -> "Negate" [] t = "+" -> "Assert"]
PrefixPrec == 9
PostfixPrec == 8

InfixOf(t) ==
  CASE t = "*" -> "Multiply"   [] t = "^" -> "Exponentiate"       [] t = "=" -> "Equal"
    [] t = "AND" -> "And"      [] t = ">" -> "GreaterThan"        [] t = "LIKE" -> "Like"
    [] t = "OR" -> "Or"        [] t = ">=" -> "GreaterThanOrEqual" [] t = "<>" -> "NotEqual"
    [] t = "<" -> "LessThan"   [] t = "<=" -> "LessThanOrEqual"   [] t = "-" -> "Subtract"
    [] t = "!=" -> "NotEqual"  [] t = "%" -> "Modulo"             [] t = "+" -> "Add"
    [] t = "/" -> "Divide"     [] OTHER -> None

InfixPrec(op) ==
  CASE op = "Or" -> 1
    [] op = "And" -> 2
    [] op \in {"Equal", "NotEqual", "Like"} -> 3
    [] op \in {"GreaterThan", "GreaterThanOrEqual", "LessThan", "LessThanOrEqual"} -> 4
    [] op \in {"Add", "Subtract"} -> 5
    [] op \in {"Multiply", "Divide", "Modulo"} -> 6
    [] op = "Exponentiate" -> 7

(* Exponentiation taken for left associative like the other operators.     *)
AssocLeft(op) == 1

InfixAssoc(op) == IF op = "Exponentiate" THEN 0 ELSE 1

InfixAt(p) == IF p.ok /\ p.tokens # <<>> /\ Len(Head(p.tokens)) = 1
              THEN InfixOf(Head(p.tokens)[1]) ELSE None

-----------------------------------------------------------------------------
(* Expressions: precedence climbing.                                       *)

RECURSIVE ParseExpression(_, _), Arguments(_, _)

(* A count of all rows counts a constant.                                  *)
Argument(p, name) == IF name = "count" /\ At(p, "*") THEN Push(Skip(p), Literal(True))
                     ELSE ParseExpression(p, 0)

Arguments(p, name) ==
  IF ~p.ok THEN p
  ELSE IF At(p, ")") THEN Skip(p)
  ELSE Arguments(Collect(Argument(IF Top(p, 1) = <<>> THEN p ELSE Expect(p, ","), name)), name)

(* A function call, a field of a table, or a field.                        *)
AfterIdent(p) ==
  CASE At(p, "(") -> ReduceFunction(Arguments(Push(Skip(p), <<>>), Top(p, 1)))
    [] At(p, ".") -> ReduceName(NextIdent(Skip(p)))
    [] OTHER      -> Reduce(p, 1, Name(None, Top(p, 1)))

ParseAtom(p) ==
  CASE AtAny(p, {"ident"}) -> AfterIdent(NextIdent(p))
    [] AtAny(p, {"integer", "float", "string"}) -> Push(Skip(p), Literal(Head(p.tokens)))
    [] At(p, "(")     -> Expect(ParseExpression(Skip(p), 0), ")")
    [] At(p, "TRUE")  -> Push(Skip(p), Literal(True))
    [] At(p, "FALSE") -> Push(Skip(p), Literal(False))
    [] At(p, "NULL")  -> Push(Skip(p), Literal(Null))
    [] At(p, "INFINITY") -> Push(Skip(p), Literal(Infinity))
    [] At(p, "NAN")   -> Push(Skip(p), Literal(NaN))
    [] OTHER -> Fail

ParsePrefix(p, min) ==
  IF AtAny(p, DOMAIN PrefixOps) /\ PrefixPrec >= min
  THEN ReduceUnary(ParseExpression(Skip(p), PrefixPrec), PrefixOps[Head(p.tokens)[1]])
  ELSE ParseAtom(p)

RECURSIVE ParsePostfix(_, _), ParseInfix(_, _)

(* ! and IS [NOT] NULL.                                                    *)
ParsePostfix(p, min) ==
  IF PostfixPrec < min THEN p
  ELSE CASE At(p, "!") -> ParsePostfix(ReduceUnary(Skip(p), "Factorial"), min)
         [] At(p, "IS") /\ At(Skip(p), "NOT") ->
              ParsePostfix(ReduceUnary(ReduceUnary(Expect(Skip(Skip(p)), "NULL"), "IsNull"),
                                       "Not"), min)
         [] At(p, "IS") /\ ~At(Skip(p), "NOT") ->
              ParsePostfix(ReduceUnary(Expect(Skip(p), "NULL"), "IsNull"), min)
         [] OTHER -> p

ParseInfix(p, min) ==
  IF InfixAt(p) = None THEN p
  ELSE IF InfixPrec(InfixAt(p)) < min THEN p
  ELSE ParseInfix(ReduceBinary(ParseExpression(Skip(p), InfixPrec(InfixAt(p))
                                                          + InfixAssoc(InfixAt(p))),
                               InfixAt(p)), min)

ParseExpression(p, min) == ParseInfix(ParsePostfix(ParsePrefix(p, min), min), min)

-----------------------------------------------------------------------------
(* Clauses.  Item parses one member of a comma-separated list of a kind;   *)
(* the loops that read such lists are List.                                *)

RECURSIVE Item(_, _), List(_, _), Joins(_), ColumnOptions(_)

ListAfter(kind, p) == IF At(p, ",") THEN List(kind, Skip(p)) ELSE p

List(kind, p) == ListAfter(kind, Collect(Item(kind, p)))

ListOf(kind, p) == List(kind, Push(p, <<>>))

(* An optional clause: parsed after its keyword, None without it.          *)
Clause(p, keyword) == IF At(p, keyword) THEN ParseExpression(Skip(p), 0) ELSE Push(p, None)

(* An optional name: after AS, or bare.                                    *)
Alias(p) == IF At(p, "AS") THEN NextIdent(Skip(p))
            ELSE IF AtAny(p, {"ident"}) THEN NextIdent(p)
            ELSE Push(p, None)

ReduceTable(p) == Reduce(p, 2, [type |-> "Table", name |-> Top(p, 2), alias |-> Top(p, 1)])

FromTable(p) == ReduceTable(Alias(NextIdent(p)))

JoinType(p) == CASE At(p, "CROSS") -> "Cross"
                 [] At(p, "INNER") \/ At(p, "JOIN") -> "Inner"
                 [] At(p, "LEFT")  -> "Left"
                 [] At(p, "RIGHT") -> "Right"
                 [] OTHER -> None

AfterJoinType(p) ==
  IF At(p, "JOIN") THEN Skip(p)
  ELSE IF At(p, "LEFT") \/ At(p, "RIGHT") THEN Expect(SkipIf(Skip(p), "OUTER"), "JOIN")
  ELSE Expect(Skip(p), "JOIN")

(* Joins chain to the left; all but a cross join have a predicate.         *)
JoinPredicate(p, type) == IF type = "Cross" THEN Push(p, None)
                          ELSE ParseExpression(Expect(p, "ON"), 0)

ReduceJoin(p, type) == Reduce(p, 3, [type |-> "Join", join |-> type, left |-> Top(p, 3),
                                     right |-> Top(p, 2), predicate |-> Top(p, 1)])

Joins(p) ==
  IF JoinType(p) = None THEN p
  ELSE Joins(ReduceJoin(JoinPredicate(FromTable(AfterJoinType(p)), JoinType(p)), JoinType(p)))

(* An asterisk before an expression that is not the first is skipped.      *)
SelectItem(p) == ReducePair(Alias(ParseExpression(SkipIf(p, "*"), 0)))

Direction(p) == CASE At(p, "ASC")  -> Push(Skip(p), "Ascending")
                  [] At(p, "DESC") -> Push(Skip(p), "Descending")
                  [] OTHER -> Push(p, "Ascending")

OrderItem(p) == ReducePair(Direction(ParseExpression(p, 0)))

Assignment(p) == ReducePair(ParseExpression(Expect(NextIdent(p), "="), 0))

DataTypeOf(t) == CASE t \in {"BOOL", "BOOLEAN"} -> "boolean"
                   [] t \in {"CHAR", "STRING", "TEXT", "VARCHAR"} -> "string"
                   [] t \in {"DOUBLE", "FLOAT"} -> "float"
                   [] t \in {"INT", "INTEGER"} -> "integer"
                   [] OTHER -> None

(* The options of a column, in any order, on the column on the stack.      *)
SetOption(p, option, value) == Reduce(p, 1, [Top(p, 1) EXCEPT ![option] = value])

(* An option whose value is on the stack.                                  *)
TakeOption(p, option) == Reduce(p, 2, [Top(p, 2) EXCEPT ![option] = Top(p, 1)])

ColumnOption(p, column) ==
  CASE At(p, "PRIMARY") -> SetOption(Expect(Skip(p), "KEY"), "primary_key", TRUE)
    [] At(p, "NULL")    -> IF column.nullable = FALSE THEN Fail
                           ELSE SetOption(Skip(p), "nullable", TRUE)
    [] At(p, "NOT")     -> IF column.nullable = TRUE THEN Fail
                           ELSE SetOption(Expect(Skip(p), "NULL"), "nullable", FALSE)
    [] At(p, "DEFAULT") -> TakeOption(ParseExpression(Skip(p), 0), "default")
    [] At(p, "UNIQUE")  -> SetOption(Skip(p), "unique", TRUE)
    [] At(p, "INDEX")   -> SetOption(Skip(p), "index", TRUE)
    [] At(p, "REFERENCES") -> TakeOption(NextIdent(Skip(p)), "references")
    [] OTHER -> Fail

ColumnOptions(p) ==
  IF ~p.ok \/ At(p, ",") \/ At(p, ")") \/ p.tokens = <<>> THEN p
  ELSE ColumnOptions(ColumnOption(p, Top(p, 1)))

NewColumn(p) ==
  IF ~p.ok \/ p.tokens = <<>> THEN Fail
  ELSE IF DataTypeOf(Head(p.tokens)[1]) = None THEN Fail
  ELSE Reduce(Skip(p), 1, [name |-> Top(p, 1), datatype |-> DataTypeOf(Head(p.tokens)[1]),
                           primary_key |-> FALSE, nullable |-> None, default |-> None,
                           unique |-> FALSE, index |-> FALSE, references |-> None])

ColumnSpec(p) == ColumnOptions(NewColumn(NextIdent(p)))

Item(kind, p) ==
  CASE kind = "expression" -> ParseExpression(p, 0)
    [] kind = "ident"      -> NextIdent(p)
    [] kind = "row"        -> Expect(ListOf("expression", Expect(p, "(")), ")")
    [] kind = "select"     -> SelectItem(p)
    [] kind = "from"       -> Joins(FromTable(p))
    [] kind = "order"      -> OrderItem(p)
    [] kind = "assignment" -> Assignment(p)
    [] kind = "column"     -> ColumnSpec(p)

SelectClause(p) == IF At(Skip(p), "*") THEN Push(Skip(Skip(p)), <<>>)
                   ELSE ListOf("select", Skip(p))
FromClause(p)   == IF At(p, "FROM") THEN ListOf("from", Skip(p)) ELSE Push(p, <<>>)
GroupBy(p)      == IF At(p, "GROUP") THEN ListOf("expression", Expect(Skip(p), "BY"))
                   ELSE Push(p, <<>>)
OrderBy(p)      == IF At(p, "ORDER") THEN ListOf("order", Expect(Skip(p), "BY"))
                   ELSE Push(p, <<>>)

-----------------------------------------------------------------------------
(* Statements.                                                             *)

ReduceSelect(p) ==
  Reduce(p, 8, [type |-> "Select", select |-> Top(p, 8), from |-> Top(p, 7), where |-> Top(p, 6),
                group_by |-> Top(p, 5), having |-> Top(p, 4), order |-> Top(p, 3),
                limit |-> Top(p, 2), offset |-> Top(p, 1)])

ParseSelect(p) ==
  ReduceSelect(Clause(Clause(OrderBy(Clause(GroupBy(Clause(FromClause(SelectClause(p)), "WHERE")),
                                            "HAVING")), "LIMIT"), "OFFSET"))

InsertColumns(p) == IF At(p, "(") THEN Expect(ListOf("ident", Skip(p)), ")") ELSE Push(p, None)

ReduceInsert(p) == Reduce(p, 3, [type |-> "Insert", table |-> Top(p, 3), columns |-> Top(p, 2),
                                 values |-> Top(p, 1)])

ParseInsert(p) ==
  ReduceInsert(ListOf("row", Expect(InsertColumns(NextIdent(Expect(Skip(p), "INTO"))), "VALUES")))

(* Each column is set at most once.                                        *)
SetsTwice(set) == \E i, j \in DOMAIN set : i # j /\ set[i][1] = set[j][1]

ReduceUpdate(p) ==
  IF ~p.ok THEN Fail
  ELSE IF SetsTwice(Top(p, 2)) THEN Fail
  ELSE Reduce(p, 3, [type |-> "Update", table |-> Top(p, 3), set |-> Top(p, 2),
                     where |-> Top(p, 1)])

ParseUpdate(p) ==
  ReduceUpdate(Clause(ListOf("assignment", Expect(NextIdent(Skip(p)), "SET")), "WHERE"))

ReduceDelete(p) == Reduce(p, 2, [type |-> "Delete", table |-> Top(p, 2), where |-> Top(p, 1)])

ParseDelete(p) == ReduceDelete(Clause(NextIdent(Expect(Skip(p), "FROM")), "WHERE"))

ReduceCreate(p) == Reduce(p, 2, [type |-> "CreateTable", name |-> Top(p, 2), columns |-> Top(p, 1)])

ParseCreateTable(p) ==
  ReduceCreate(Expect(ListOf("column", Expect(NextIdent(Expect(Skip(p), "TABLE")), "(")), ")"))

(* next_if_keyword() takes whatever keyword is there, so one other than IF *)
(* is consumed and ignored.                                                *)
IfExists(p) == IF At(p, "IF") THEN Push(Expect(Skip(p), "EXISTS"), TRUE)
               ELSE Push(IF AtKeyword(p) THEN Skip(p) ELSE p, FALSE)

ReduceDrop(p) == Reduce(p, 2, [type |-> "DropTable", name |-> Top(p, 1), if_exists |-> Top(p, 2)])

ParseDropTable(p) == ReduceDrop(NextIdent(IfExists(Expect(Skip(p), "TABLE"))))

AccessMode(p) ==
  IF ~At(p, "READ") THEN Push(p, FALSE)
  ELSE IF At(Skip(p), "ONLY") THEN Push(Skip(Skip(p)), TRUE)
  ELSE Push(Expect(Skip(p), "WRITE"), FALSE)

Version(p) == IF AtAny(p, {"integer"}) THEN Push(Skip(p), Head(p.tokens)[2]) ELSE Fail

AsOf(p) == IF ~At(p, "AS") THEN Push(p, None)
           ELSE Version(Expect(Expect(Expect(Skip(p), "OF"), "SYSTEM"), "TIME"))

ReduceBegin(p) == Reduce(p, 2, [type |-> "Begin", read_only |-> Top(p, 2), as_of |-> Top(p, 1)])

ParseBegin(p) == ReduceBegin(AsOf(AccessMode(SkipIf(Skip(p), "TRANSACTION"))))

ParsePlain(p) ==
  CASE At(p, "BEGIN")    -> ParseBegin(p)
    [] At(p, "COMMIT")   -> Push(Skip(p), [type |-> "Commit"])
    [] At(p, "ROLLBACK") -> Push(Skip(p), [type |-> "Rollback"])
    [] At(p, "CREATE")   -> ParseCreateTable(p)
    [] At(p, "DROP")     -> ParseDropTable(p)
    [] At(p, "DELETE")   -> ParseDelete(p)
    [] At(p, "INSERT")   -> ParseInsert(p)
    [] At(p, "SELECT")   -> ParseSelect(p)
    [] At(p, "UPDATE")   -> ParseUpdate(p)
    [] OTHER -> Fail

(* EXPLAIN takes any statement but another EXPLAIN.                        *)
ReduceExplain(p) == Reduce(p, 1, [type |-> "Explain", statement |-> Top(p, 1)])

ParseStatement(p) == IF At(p, "EXPLAIN") THEN ReduceExplain(ParsePlain(Skip(p))) ELSE ParsePlain(p)

(* parse(): the statement, or None when the parser reports an error.       *)
Parsed(p)     == IF p.ok THEN Top(p, 1) ELSE None
Parse(tokens) == Parsed(ExpectEnd(SkipIf(ParseStatement(Parser(tokens)), ";")))

=============================================================================
