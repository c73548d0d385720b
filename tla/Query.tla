-------------------------------- MODULE Query --------------------------------
(***************************************************************************)
(* The life of a SQL statement inside a session: the tokens of the text    *)
(* are parsed, the statement planned, the plan taken through the           *)
(* optimizers one after another, and executed (Session::execute() and      *)
(* Plan in src/sql).  What the client means by the text, and the rows that *)
(* answer it, are given by the SQL reference of the repository             *)
(* (docs/sql.md), module Language.                                        *)
(***************************************************************************)
EXTENDS Execution, Language

CONSTANTS Statements,  \* the statements clients mean
          Databases,   \* the databases they are run on
          Samples      \* rows to compare normal forms on

VARIABLES db,      \* the database, which stays as it is
          asked,   \* the statement the client means
          stage,   \* what has been done with it
          ast,     \* the statement the parser returned
          plan,    \* the plan, after the optimizers so far
          answer   \* the rows returned, or None

vars == <<db, asked, stage, ast, plan, answer>>

-----------------------------------------------------------------------------
(* The stages.  Each takes the plan one step further, or fails.            *)

Init == /\ db \in Databases
        /\ asked \in Statements
        /\ stage = "written" /\ ast = None /\ plan = None /\ answer = None

(* Parser::parse().  Transaction control and EXPLAIN go to the session.    *)
ParseText ==
  /\ stage = "written"
  /\ ast' = Parse(Tokens(asked))
  /\ stage' = IF ast' = None THEN "failed"
              ELSE IF ast'.type \in {"Begin", "Commit", "Rollback", "Explain"} THEN "session"
              ELSE "parsed"
  /\ UNCHANGED <<db, asked, plan, answer>>

Advance(from, to, next) ==
  /\ stage = from
  /\ plan' = next
  /\ stage' = IF plan' = None THEN "failed" ELSE to
  /\ UNCHANGED <<db, asked, ast, answer>>

BuildPlan    == Advance("parsed", "planned", BuildStatement(db.catalog, ast))
FoldPlan     == Advance("planned", "folded", ConstantFolder(plan))
PushdownPlan == Advance("folded", "pushed", FilterPushdown(plan))
LookupPlan   == Advance("pushed", "lookups", IndexLookups(db.catalog, plan))
CleanPlan    == Advance("lookups", "cleaned", NoopCleaner(plan))
JoinTypePlan == Advance("cleaned", "optimized", JoinTypes(plan))

(* Plan::execute(), of the statements that read or write rows.             *)
ExecutePlan ==
  /\ stage = "optimized"
  /\ plan.node \notin {"CreateTable", "DropTable"}
  /\ answer' = Answer(Execute(db, plan))
  /\ stage' = IF answer' = None THEN "failed" ELSE "answered"
  /\ UNCHANGED <<db, asked, ast, plan>>

Next == \/ ParseText \/ BuildPlan \/ FoldPlan \/ PushdownPlan \/ LookupPlan
        \/ CleanPlan \/ JoinTypePlan \/ ExecutePlan

Spec == Init /\ [][Next]_vars

-----------------------------------------------------------------------------
(* Properties of statements and expressions.                               *)

RECURSIVE Nodes(_)
Nodes(n) == {n} \cup UNION {Nodes(Children(n)[i]) : i \in DOMAIN Children(n)}

(* A statement written with the parentheses that the documented            *)
(* precedences and associativities call for, and no others, is parsed as   *)
(* the statement that was meant.                                           *)
ParsesBack == stage # "written" => ast = asked

(* The normal forms the optimizers work on have the value of the           *)
(* expression on every row, where that is not an error.                    *)
NormalFormsAgree ==
  stage = "planned" /\ plan.node \notin {"CreateTable", "DropTable"} =>
    \A n \in Nodes(plan) : \A e \in Expressions(n) : \A row \in Samples :
      Evaluate(e, row) # Error =>
        \A form \in {IntoNNF(e), IntoCNF(e), IntoDNF(e), FromCNFVec(IntoCNFVec(e)),
                     FromDNFVec(IntoDNFVec(e))} :
          Evaluate(form, row) = Evaluate(e, row)

-----------------------------------------------------------------------------
(* Properties of the answers.  A plan gives rows when it is executed as it *)
(* is; the reference says whether they answer the statement.               *)

Gives(p) == Answer(Execute(db, p))

OnRows == asked.type \in {"Select", "Insert", "Update", "Delete"}

(* A row goes to a group whose key has a NULL, which is never hashed: see  *)
(* AggregateRows.                                                          *)
GroupsNull ==
  /\ asked.type = "Select" /\ asked.group_by # <<>>
  /\ LET rows == Where(AllRows(db, asked.from), asked.where).rows
     IN  \E key \in Range(Keys(Grouping(asked), rows)) : Null \in Range(key)

(* A RIGHT JOIN whose left operand is a join with a predicate.  The right  *)
(* operand is built first, and the join in a scope that already holds its  *)
(* columns: the predicate, and the columns put back in order if it is a    *)
(* RIGHT JOIN too, then refer to columns that the join does not have, or   *)
(* to other ones than it names.                                            *)
RECURSIVE ShiftsColumns(_)
ShiftsColumns(item) ==
  item.type = "Join" /\ \/ ShiftsColumns(item.left)
                        \/ item.join = "Right" /\ item.left.type = "Join"
                             /\ item.left.join # "Cross"

Shifted == asked.type = "Select" /\ \E i \in DOMAIN asked.from : ShiftsColumns(asked.from[i])

(* The plan that the planner builds, executed without any optimization,    *)
(* returns the rows that the statement asks for: names, scopes, hidden     *)
(* columns, groups, sides of outer joins and clauses in their order.  It   *)
(* refuses no statement that has an answer, and gives no rows for one that *)
(* has none, such as an ambiguous name.  Left out are groups with a NULL   *)
(* in their key, which do not return, and RIGHT JOINs over a join, whose   *)
(* columns build_from_item() shifts.                                       *)
PlanAnswers ==
  [][stage = "parsed" /\ OnRows /\ ~Shifted =>
       LET ref == Reference(db, asked)
       IN  IF ref = None THEN plan' # None => Gives(plan') = None
           ELSE /\ plan' # None
                /\ IF Gives(plan') = None THEN GroupsNull ELSE IsAnswer(ref, Gives(plan'))]_vars

(* Whether a plan that answers the statement still does after a step.      *)
StillAnswers(ref) ==
  ref # None /\ plan' # None =>
    LET before == Gives(plan)
    IN  before # None =>
          (IsAnswer(ref, before) => Gives(plan') # None /\ IsAnswer(ref, Gives(plan')))

(* ConstantFolder either fails the statement or leaves its answer.         *)
FoldingKeeps ==
  stage = "planned" /\ OnRows => StillAnswers(Reference(db, asked))

(* The nodes a conjunct pushed at a node can get to.                       *)
RECURSIVE Below(_)
Below(n) == IF n.node \notin {"Filter", "NestedLoopJoin"} THEN {}
            ELSE UNION {{Children(n)[i]} \cup Below(Children(n)[i]) : i \in DOMAIN Children(n)}

PushesDown(n) == n.node = "Filter" \/ (n.node = "NestedLoopJoin" /\ n.predicate # None)

(* What pushdown_join() pushes into the left source.                       *)
PushedLeft(n) == LET parts == PushdownParts(n)
                 IN  FoldLeft(Transfer, [left |-> parts.left, right |-> parts.right],
                              parts.both).left

PushdownExact(p) ==
  \A n \in Nodes(p) : PushesDown(n) =>
    /\ \A m \in Below(n) : m.node = "NestedLoopJoin" => ~m.outer
    /\ n.node = "NestedLoopJoin" /\ n.outer => PushedLeft(n) = <<>>
    /\ \A m \in {n} \cup Below(n) : m.node = "NestedLoopJoin" => m.right.node # "Projection"

(* FilterPushdown leaves the answer, or fails by an error of a row that    *)
(* was not reached before.  Left out is what it gets wrong: a condition    *)
(* pushed into an outer join, or out of one into its left source, where it *)
(* decides about other rows than before; and a condition on a right source *)
(* that takes none, which stays in the join with its columns shifted.      *)
PushdownKeeps ==
  stage = "folded" /\ OnRows /\ PushdownExact(plan) /\ Gives(plan') # None =>
    StillAnswers(Reference(db, asked))

(* Comparisons with a NULL constant.                                       *)
RECURSIVE ComparesNull(_)
ComparesNull(e) == \/ e.op = "Equal" /\ \E i \in {1, 2} : IsConstant(e.args[i], {Null})
                   \/ \E i \in DOMAIN Args(e) : ComparesNull(Args(e)[i])

LookupExact(n) ==
  CASE n.node = "KeyLookup" ->
         /\ Cardinality(Range(n.keys)) = Len(n.keys)
         /\ \A v \in Range(n.keys) : DataType(v) \in {"integer", "null"}
    [] n.node = "IndexLookup" -> \A v \in Range(n.values) : DataType(v) \in {"integer", "null"}
    [] OTHER -> TRUE

(* IndexLookup leaves the answer: a lookup reads the rows that the         *)
(* conjunct it stands for is true of, and the other conjuncts are still    *)
(* applied.  Left out is what it gets wrong: = NULL finds the rows that    *)
(* are NULL, a key given twice is read twice, and a float finds no         *)
(* integer.                                                                *)
LookupsKeep ==
  (/\ stage = "pushed" /\ OnRows
   /\ \A n \in Nodes(plan) : \A e \in Expressions(n) : ~ComparesNull(e)
   /\ \A n \in Nodes(plan') : LookupExact(n)) => StillAnswers(Reference(db, asked))

(* Conjunctions and disjunctions with NULL, which the cleaner takes for    *)
(* false.  To a predicate that makes no difference, unless it is negated   *)
(* or computed with.                                                       *)
RECURSIVE HasNullOperand(_), OnlyDecides(_)
HasNullOperand(e) == \/ e.op \in LogicOps /\ \E i \in {1, 2} : IsConstant(e.args[i], {Null})
                     \/ \E i \in DOMAIN Args(e) : HasNullOperand(Args(e)[i])

OnlyDecides(e) == IF e.op \in LogicOps THEN \A i \in {1, 2} : OnlyDecides(e.args[i])
                  ELSE ~HasNullOperand(e)

CleaningExact(n) ==
  \A e \in Expressions(n) : IF n.node \in {"Filter", "Scan", "NestedLoopJoin"} THEN OnlyDecides(e)
                            ELSE ~HasNullOperand(e)

(* NoopCleaner leaves the answer, except that of a NULL in a conjunction   *)
(* or a disjunction that is returned, negated or computed with.            *)
CleaningKeeps ==
  stage = "lookups" /\ OnRows /\ (\A n \in Nodes(plan) : CleaningExact(n)) =>
    StillAnswers(Reference(db, asked))

(* The values of a field in the rows of a plan.                            *)
KeysOf(p, i) == LET rows == Gives(p) IN [k \in DOMAIN rows |-> rows[k][i + 1]]

HashExactOn(left, l, right, r) ==
  /\ Cardinality(Range(KeysOf(right, r))) = Len(KeysOf(right, r))
  /\ Null \notin Range(KeysOf(left, l)) \cup Range(KeysOf(right, r))

HashExact(n) ==
  n.node = "NestedLoopJoin" /\ n.predicate # None =>
    (IsEquijoin(n.predicate) =>
       LET i == Min(Fields(n.predicate))
           j == Max(Fields(n.predicate))
       IN  i < n.left_size /\ j >= n.left_size
             /\ HashExactOn(n.left, i, n.right, j - n.left_size))

(* JoinType leaves the answer when the keys of the right source are        *)
(* distinct and no key is NULL; otherwise a hash join loses rows, or does  *)
(* not return.                                                             *)
JoinTypesKeep ==
  stage = "cleaned" /\ OnRows /\ (\A n \in Nodes(plan) : HashExact(n)) =>
    StillAnswers(Reference(db, asked))

(* Every optimizer leaves the answer of a statement as it was, on its own: *)
(* each works on the plan that the one before it returned.                 *)
OptimizersKeepAnswer ==
  [][FoldingKeeps /\ PushdownKeeps /\ LookupsKeep /\ CleaningKeeps /\ JoinTypesKeep]_vars

(* A SELECT of all columns of an inner join returns every row of the       *)
(* product of its tables that the predicate is true of, as the reference   *)
(* says.  JoinType replaces the nested loop of an equijoin by HashJoin,    *)
(* which keeps one row of the right source for each key.                   *)
InnerJoinsComplete ==
  stage = "answered" /\ asked.type = "Select" =>
    (asked.from # <<>> /\ asked.from[1].type = "Join" /\ asked.from[1].join = "Inner" =>
       IsAnswer(Reference(db, asked), answer))

=============================================================================
