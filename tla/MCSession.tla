------------------------------ MODULE MCSession ------------------------------
(***************************************************************************)
(* Two clients on a table of genres, with a counter, and a table of movies *)
(* that has a reference and a unique column, both of them indexed.         *)
(***************************************************************************)
EXTENDS Session

Column(name) ==
  [name |-> name, datatype |-> "integer", primary_key |-> FALSE, nullable |-> FALSE,
   default |-> None, unique |-> FALSE, references |-> None, index |-> FALSE]

Id == [Column("id") EXCEPT !.primary_key = TRUE, !.unique = TRUE]

Genres == [name |-> "genres",
           columns |-> <<Id, [Column("count") EXCEPT !.default = Integer(0)]>>]
Movies == [name |-> "movies",
           columns |-> <<Id,
                         [Column("genre") EXCEPT !.references = "genres", !.index = TRUE,
                                                 !.nullable = TRUE, !.default = Null],
                         [Column("code") EXCEPT !.unique = TRUE, !.index = TRUE]>>]
Extra == [name |-> "extra", columns |-> <<Id>>]

Ints(seq) == [i \in DOMAIN seq |-> Integer(seq[i])]

MCInitial ==
  LET txn == NewTxn(<< >>)
      Run(d, m) == Mutate(d, m @@ [txn |-> txn]).db
  IN  FoldLeft(Run, << >>,
        <<[kind |-> "begin"],
          [kind |-> "create_table", schema |-> Genres],
          [kind |-> "create_table", schema |-> Movies],
          [kind |-> "create", table |-> "genres", row |-> Ints(<<1, 0>>)],
          [kind |-> "create", table |-> "genres", row |-> Ints(<<2, 0>>)],
          [kind |-> "create", table |-> "movies", row |-> Ints(<<1, 1, 1>>)],
          [kind |-> "commit"]>>)

MCCounter == [table |-> "genres", id |-> Integer(1), field |-> 2, start |-> 0]

BEGIN  == [kind |-> "begin", read_only |-> FALSE, as_of |-> None]
COMMIT == [kind |-> "commit"]
ReadOnly(as_of) == [kind |-> "begin", read_only |-> TRUE, as_of |-> as_of]
SELECT(t) == [kind |-> "select", table |-> t]
INSERT(t, rows) == [kind |-> "insert", table |-> t, rows |-> rows]
UPDATE(t, id, field, value) ==
  [kind |-> "update", table |-> t, ids |-> {Integer(id)}, field |-> field, add |-> FALSE,
   value |-> value]
INCREMENT == [kind |-> "update", table |-> "genres", ids |-> {Integer(1)}, field |-> 2,
              add |-> TRUE, value |-> 1]
DELETE(t, id) == [kind |-> "delete", table |-> t, ids |-> {Integer(id)}]

Increment == <<BEGIN, INCREMENT, COMMIT>>
Insert == <<INSERT("movies", <<Ints(<<2, 2, 2>>)>>)>>

(* Pairs of scripts that meet on a row, an index entry, a reference or a   *)
(* schema, and the statements that fail.                                   *)
Pairs ==
  {<<Increment, Increment>>,
   <<Increment, <<INCREMENT>>>>,
   <<Insert, <<BEGIN, INSERT("movies", <<Ints(<<3, 2, 2>>)>>), COMMIT>>>>,
   <<Insert, <<UPDATE("movies", 1, 3, 2)>>>>,
   <<Insert, <<DELETE("genres", 2)>>>>,
   <<<<INSERT("movies", <<Ints(<<2, 1, 2>>), Ints(<<3, 1, 2>>)>>)>>,
     <<INSERT("genres", <<Ints(<<3>>), << >>>>)>>>>,
   <<<<UPDATE("movies", 1, 2, 3)>>, <<BEGIN, UPDATE("movies", 1, 1, 2), COMMIT>>>>,
   <<<<ReadOnly(None), SELECT("movies"), DELETE("movies", 1)>>,
     <<[kind |-> "explain", table |-> "movies"], BEGIN, BEGIN>>>>,
   <<<<ReadOnly(2), COMMIT>>, <<DELETE("genres", 1)>>>>,
   <<<<[BEGIN EXCEPT !.as_of = 1]>>, <<UPDATE("extra", 1, 1, 2)>>>>,
   <<<<[kind |-> "create_table", schema |-> Extra],
       [kind |-> "drop_table", table |-> "movies", if_exists |-> FALSE]>>,
     <<[kind |-> "drop_table", table |-> "extra", if_exists |-> TRUE], COMMIT>>>>}

Retried(script) == [script |-> script, retrying |-> TRUE]
Direct(script)  == [script |-> script, retrying |-> FALSE]

(* Clients that commit after a statement has failed: before it wrote, with *)
(* a row of two inserted, and with the index entries moved.                *)
Unheeding ==
  {<<Direct(<<BEGIN, INSERT("movies", <<Ints(<<2, 1, 2>>), Ints(<<3, 1, 2>>)>>), COMMIT>>),
     Retried(<<UPDATE("movies", 1, 3, 2)>>)>>,
   <<Direct(<<BEGIN, UPDATE("movies", 1, 2, 3), COMMIT>>), Retried(Insert)>>}

MCWorkloads == {[s1 |-> Retried(p[1]), s2 |-> Retried(p[2])] : p \in Pairs}
                 \cup {[s1 |-> p[1], s2 |-> p[2]] : p \in Unheeding}

=============================================================================
