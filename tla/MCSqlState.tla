------------------------------ MODULE MCSqlState ------------------------------
(***************************************************************************)
(* A table with one indexed column that holds one row, and mutations that  *)
(* create, move, delete and reject rows, and create and drop tables.       *)
(***************************************************************************)
EXTENDS SqlState

Column(name, primary_key, index) ==
  [name |-> name, datatype |-> "integer", primary_key |-> primary_key,
   nullable |-> FALSE, default |-> None, unique |-> TRUE,
   references |-> None, index |-> index]

Table(name) == [name |-> name,
                columns |-> <<Column("id", TRUE, FALSE), Column("a", FALSE, TRUE)>>]

Row(id, a) == <<Integer(id), Integer(a)>>

MCCalls ==
  {[kind |-> "create", table |-> "t", row |-> Row(2, 2)],
   [kind |-> "create", table |-> "t", row |-> Row(2, 1)],
   [kind |-> "update", table |-> "t", id |-> Integer(1), row |-> Row(1, 2)],
   [kind |-> "update", table |-> "t", id |-> Integer(1), row |-> Row(2, 1)],
   [kind |-> "delete", table |-> "t", id |-> Integer(1)],
   [kind |-> "delete_table", table |-> "t"],
   [kind |-> "create_table", schema |-> Table("u")]}

(* The engine after a transaction that created the table and its row.      *)
MCInitial ==
  LET txn   == NewTxn(<< >>)
      Run(d, m) == Mutate(d, m @@ [txn |-> txn]).db
  IN  FoldLeft(Run, << >>,
        <<[kind |-> "begin"], [kind |-> "create_table", schema |-> Table("t")],
          [kind |-> "create", table |-> "t", row |-> Row(1, 1)], [kind |-> "commit"]>>)

=============================================================================
