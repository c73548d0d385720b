-------------------------------- MODULE Types --------------------------------
(***************************************************************************)
(* SQL values (src/sql/types/mod.rs).  A value is a pair of a tag and a    *)
(* content.  A float is a whole number of halves, and so exact; a string   *)
(* is the rank of its bytes among the strings of an instance.              *)
(***************************************************************************)
EXTENDS Integers, Sequences

Null       == <<"null">>
Boolean(b) == <<"boolean", b>>
Integer(n) == <<"integer", n>>
Float(n)   == <<"float", n>>
String(n)  == <<"string", n>>

(* The floats that are no number of halves.  They are written, parsed and  *)
(* returned, but nothing is computed with them.                            *)
Infinity == <<"float", "infinity", "literal">>
NaN      == <<"float", "nan", "literal">>

(* datatype(): "null" stands for None.                                     *)
DataType(v) == v[1]

IsNumber(v) == DataType(v) \in {"integer", "float"}

(* A number in halves: the value an integer has "as f64".                  *)
AsFloat(v) == IF DataType(v) = "integer" THEN 2 * v[2] ELSE v[2]

(* The place of a value among the values of its own type.                  *)
Rank(v) == CASE DataType(v) = "boolean" -> IF v[2] THEN 1 ELSE 0
             [] IsNumber(v)             -> AsFloat(v)
             [] OTHER                   -> v[2]

Comparable(a, b) == DataType(a) = DataType(b) \/ (IsNumber(a) /\ IsNumber(b))

(* partial_cmp(): NULL is below everything, numbers compare by value, and  *)
(* values of other different types do not compare.                         *)
PartialCmp(a, b) ==
  CASE a = Null /\ b = Null   -> "equal"
    [] a = Null               -> "less"
    [] b = Null               -> "greater"
    [] ~Comparable(a, b)      -> "none"
    [] Rank(a) < Rank(b)      -> "less"
    [] Rank(a) = Rank(b)      -> "equal"
    [] OTHER                  -> "greater"

=============================================================================
