----------------------------- MODULE Expression -----------------------------
(***************************************************************************)
(* Expressions of a plan (src/sql/types/expression.rs): evaluation, the    *)
(* normal forms the optimizers work on, and field lookups.  An expression  *)
(* is a tree of records: a constant, a field of the row (indexed from      *)
(* zero, as in the code), or an operator with its arguments.               *)
(*                                                                         *)
(* Integers are two's complement words that reach MaxInteger; the checked  *)
(* operations fail beyond it and the unchecked ones wrap, as a release     *)
(* build does.  Multiply, Divide, Modulo and Exponentiate are modelled on  *)
(* integers only (a float here is a whole number of halves), and LIKE by   *)
(* the pairs of strings the regex engine matches.                          *)
(***************************************************************************)
EXTENDS Types, FiniteSetsExt, SequencesExt

CONSTANTS None,        \* Rust's Option::None
          MaxInteger,  \* i64::MAX
          Matches      \* the pairs <<text, pattern>> for which LIKE is true

ASSUME ExpressionAssumption == MaxInteger \in Nat /\ Matches \subseteq Nat \X Nat

Constant(v)     == [op |-> "Constant", value |-> v]
Field(i, label) == [op |-> "Field", index |-> i, label |-> label]
Unary(op, e)    == [op |-> op, args |-> <<e>>]
Binary(op, l, r) == [op |-> op, args |-> <<l, r>>]

UnaryOps == {"Not", "IsNull", "Assert", "Factorial", "Negate"}
LogicOps == {"And", "Or"}
CompareOps == {"Equal", "GreaterThan", "LessThan"}
MathOps == {"Add", "Divide", "Exponentiate", "Modulo", "Multiply", "Subtract"}

IsLeaf(e) == e.op \in {"Constant", "Field"}

-----------------------------------------------------------------------------
(* Evaluation.  An error of evaluate() is a value of its own.              *)

Error == <<"error">>

True  == Boolean(TRUE)
False == Boolean(FALSE)

(* Boolean operands of three-valued logic.                                 *)
Ternary == {Null, True, False}

(* AND: false wins over NULL, NULL over true.                              *)
AndOf(a, b) == IF ~({a, b} \subseteq Ternary) THEN Error
               ELSE IF False \in {a, b} THEN False
               ELSE IF Null \in {a, b} THEN Null ELSE True

OrOf(a, b) == IF ~({a, b} \subseteq Ternary) THEN Error
              ELSE IF True \in {a, b} THEN True
              ELSE IF Null \in {a, b} THEN Null ELSE False

NotOf(a) == CASE a = Null -> Null
              [] a \in {True, False} -> Boolean(~a[2])
              [] OTHER -> Error

Compare(op, a, b) ==
  IF Null \in {a, b} THEN Null
  ELSE IF ~Comparable(a, b) THEN Error
  ELSE Boolean(CASE op = "Equal"       -> Rank(a) = Rank(b)
                 [] op = "GreaterThan" -> Rank(a) > Rank(b)
                 [] op = "LessThan"    -> Rank(a) < Rank(b))

Word == -(MaxInteger + 1) .. MaxInteger

Checked(n) == IF n \in Word THEN Integer(n) ELSE Error

Wrapped(n) == Integer(((n + MaxInteger + 1) % (2 * MaxInteger + 2)) - MaxInteger - 1)

(* Division rounds toward zero; the one quotient that does not fit (and    *)
(* its remainder) panics, which ends the statement like an error.          *)
Quotient(a, b) ==
  LET q == (IF a < 0 THEN -a ELSE a) \div (IF b < 0 THEN -b ELSE b)
  IN  IF (a < 0) = (b < 0) THEN q ELSE -q

IntegerMath(op, a, b) ==
  CASE op = "Add"          -> Checked(a + b)
    [] op = "Subtract"     -> Checked(a - b)
    [] op = "Multiply"     -> Checked(a * b)
    [] op = "Exponentiate" -> IF b = 0 THEN Integer(1) ELSE Checked(a ^ b)
    [] OTHER               -> IF b = 0 \/ Quotient(a, b) \notin Word THEN Error
                              ELSE IF op = "Divide" THEN Integer(Quotient(a, b))
                              ELSE Integer(a - b * Quotient(a, b))

Math(op, a, b) ==
  IF ~(\A v \in {a, b} : v = Null \/ IsNumber(v)) THEN Error
  ELSE IF Null \in {a, b} THEN Null
  ELSE IF DataType(a) = "integer" /\ DataType(b) = "integer"
       THEN IntegerMath(op, a[2], b[2])
  ELSE CASE op = "Add"      -> Float(AsFloat(a) + AsFloat(b))
         [] op = "Subtract" -> Float(AsFloat(a) - AsFloat(b))

Factorial(a) ==
  CASE a = Null -> Null
    [] DataType(a) = "integer" /\ a[2] >= 0 ->
         FoldSet(LAMBDA n, product : Wrapped(n * product[2]), Integer(1), 1..a[2])
    [] OTHER -> Error

Sign(op, a) ==
  CASE a = Null -> Null
    [] op = "Assert" /\ IsNumber(a) -> a
    [] op = "Negate" /\ DataType(a) = "integer" -> Wrapped(-a[2])
    [] op = "Negate" /\ DataType(a) = "float" -> Float(-a[2])
    [] OTHER -> Error

Like(a, b) ==
  IF ~(\A v \in {a, b} : DataType(v) \in {"string", "null"}) THEN Error
  ELSE IF a = Null /\ b = Null THEN Error
  ELSE IF Null \in {a, b} THEN Null
  ELSE Boolean(<<a[2], b[2]>> \in Matches)

Operate(op, vs) ==
  IF \E i \in DOMAIN vs : vs[i] = Error THEN Error
  ELSE CASE op = "And"        -> AndOf(vs[1], vs[2])
         [] op = "Or"         -> OrOf(vs[1], vs[2])
         [] op = "Not"        -> NotOf(vs[1])
         [] op = "IsNull"     -> Boolean(vs[1] = Null)
         [] op \in CompareOps -> Compare(op, vs[1], vs[2])
         [] op \in MathOps    -> Math(op, vs[1], vs[2])
         [] op = "Factorial"  -> Factorial(vs[1])
         [] op = "Like"       -> Like(vs[1], vs[2])
         [] OTHER             -> Sign(op, vs[1])

(* evaluate(): a field outside the row, or of no row, is NULL.             *)
RECURSIVE Evaluate(_, _)
Evaluate(e, row) ==
  CASE e.op = "Constant" -> e.value
    [] e.op = "Field"    -> IF e.index + 1 \in DOMAIN row THEN row[e.index + 1] ELSE Null
    [] OTHER             -> Operate(e.op, [i \in DOMAIN e.args |-> Evaluate(e.args[i], row)])

-----------------------------------------------------------------------------
(* Walking and normal forms.                                               *)

(* The fields an expression mentions: contains() with a field visitor.     *)
RECURSIVE Fields(_)
Fields(e) == IF IsLeaf(e) THEN {i \in {IF e.op = "Field" THEN e.index ELSE -1} : i >= 0}
             ELSE UNION {Fields(e.args[i]) : i \in DOMAIN e.args}

(* A De Morgan law applied without exchanging the connective.              *)
PushNotAlike(e) ==
  IF e.op # "Not" \/ e.args[1].op \notin {"And", "Or", "Not"} THEN e
  ELSE IF e.args[1].op = "Not" THEN e.args[1].args[1]
  ELSE Binary(e.args[1].op, Unary("Not", e.args[1].args[1]), Unary("Not", e.args[1].args[2]))

(* into_nnf(): one rewrite per node on the way down.  A negation that a    *)
(* rewrite brings to the node itself is not rewritten again.               *)
PushNot(e) ==
  IF e.op # "Not" \/ e.args[1].op \notin {"And", "Or", "Not"} THEN e
  ELSE CASE e.args[1].op = "And" ->
              Binary("Or", Unary("Not", e.args[1].args[1]), Unary("Not", e.args[1].args[2]))
         [] e.args[1].op = "Or" ->
              Binary("And", Unary("Not", e.args[1].args[1]), Unary("Not", e.args[1].args[2]))
         [] e.args[1].op = "Not" -> e.args[1].args[1]

WithArgs(e, args) == IF IsLeaf(e) THEN e ELSE [op |-> e.op, args |-> args]

Args(e) == IF IsLeaf(e) THEN <<>> ELSE e.args

RECURSIVE NNFBelow(_)
NNFBelow(e) == WithArgs(e, [i \in DOMAIN Args(e) |-> NNFBelow(PushNot(Args(e)[i]))])

IntoNNF(e) == NNFBelow(PushNot(e))

(* The distributive law at a node: an outer over an inner connective, the  *)
(* left operand first.                                                     *)
Distribute(outer, inner, e) ==
  IF e.op # outer THEN e
  ELSE IF e.args[1].op = inner
  THEN Binary(inner, Binary(outer, e.args[1].args[1], e.args[2]),
                     Binary(outer, e.args[1].args[2], e.args[2]))
  ELSE IF e.args[2].op = inner
  THEN Binary(inner, Binary(outer, e.args[1], e.args[2].args[1]),
                     Binary(outer, e.args[1], e.args[2].args[2]))
  ELSE e

RECURSIVE DistributeBelow(_, _, _)
DistributeBelow(outer, inner, e) ==
  WithArgs(e, [i \in DOMAIN Args(e) |->
                 DistributeBelow(outer, inner, Distribute(outer, inner, Args(e)[i]))])

IntoCNF(e) == DistributeBelow("Or", "And", Distribute("Or", "And", IntoNNF(e)))

IntoDNF(e) == DistributeBelow("And", "Or", Distribute("And", "Or", IntoNNF(e)))

(* into_cnf_vec() and into_dnf_vec(): the operands of the outer            *)
(* connective, from left to right.                                         *)
RECURSIVE Operands(_, _)
Operands(op, e) == IF e.op # op THEN <<e>>
                   ELSE Operands(op, e.args[1]) \o Operands(op, e.args[2])

IntoCNFVec(e) == Operands("And", IntoCNF(e))

IntoDNFVec(e) == Operands("Or", IntoDNF(e))

(* from_cnf_vec() and from_dnf_vec(): a left-deep tree, None of nothing.   *)
Join(op, es) == IF es = <<>> THEN None
                ELSE FoldLeft(LAMBDA l, r : Binary(op, l, r), Head(es), Tail(es))

FromCNFVec(es) == Join("And", es)

FromDNFVec(es) == Join("Or", es)

-----------------------------------------------------------------------------
(* Lookups.                                                                *)

(* as_lookup(): the values a field is compared with by =, IS NULL and OR,  *)
(* or None.                                                                *)
RECURSIVE AsLookup(_, _)
AsLookup(e, field) ==
  CASE e.op = "Equal" /\ e.args[1].op = "Field" /\ e.args[2].op = "Constant" ->
         IF e.args[1].index = field THEN <<e.args[2].value>> ELSE None
    [] e.op = "Equal" /\ e.args[1].op = "Constant" /\ e.args[2].op = "Field" ->
         IF e.args[2].index = field THEN <<e.args[1].value>> ELSE None
    [] e.op = "IsNull" /\ e.args[1].op = "Field" ->
         IF e.args[1].index = field THEN <<Null>> ELSE None
    [] e.op = "Or" ->
         IF AsLookup(e.args[1], field) = None \/ AsLookup(e.args[2], field) = None THEN None
         ELSE AsLookup(e.args[1], field) \o AsLookup(e.args[2], field)
    [] OTHER -> None

FromLookup(field, label, values) ==
  IF values = <<>> THEN Binary("Equal", Field(field, label), Constant(Null))
  ELSE FromDNFVec([i \in DOMAIN values |->
                     Binary("Equal", Field(field, label), Constant(values[i]))])

=============================================================================
