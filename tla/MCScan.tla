------------------------------- MODULE MCScan -------------------------------
(***************************************************************************)
(* Pairs of SQL keys whose encodings are close to each other, and three    *)
(* keys with every history of two versions.  Strings are over the bytes    *)
(* 0 and 1; the extreme integers and floats are among the values.          *)
(***************************************************************************)
EXTENDS Scan

NullValue == <<0>>
Values == {NullValue, <<1, FALSE>>, <<1, TRUE>>}
            \cup {<<2, n>> : n \in {-(Words \div 2), -1, 0, Words \div 2 - 1}}
            \cup {<<3, bits>> : bits \in {1, Words \div 2, Words \div 2 + 1}}
            \cup {<<4, s>> : s \in {<< >>, <<0>>, <<0, 1>>}}

Names == {<<1>>, <<1, 0>>, <<1, 1>>}

UniverseKeys ==
  {<<0, t>> : t \in Names}
    \cup {<<1, <<1>>, <<1>>, <<2, 0>>>>, <<1, <<1>>, <<1, 0>>, <<2, 0>>>>,
          <<1, <<1, 1>>, <<1>>, <<2, 0>>>>}
    \cup {<<2, t, <<2, -1>>>> : t \in Names}
    \cup {<<2, <<1>>, v>> : v \in Values}

Once(k) == [key |-> k, version |-> 1, live |-> TRUE]
Adjacent == {{Once(k), Once(l)} : k, l \in UniverseKeys}

(* Histories of a row: live in version 1, live or deleted in 2, live in 3. *)
Patterns == {h \in SUBSET {<<1, TRUE>>, <<2, TRUE>>, <<2, FALSE>>, <<3, TRUE>>} :
               ~({<<2, TRUE>>, <<2, FALSE>>} \subseteq h)}
Row(n) == <<2, <<1>>, <<2, n>>>>
History(k, h) == {[key |-> k, version |-> v[1], live |-> v[2]] : v \in h}
Mixed == {History(Row(-1), f) \cup History(Row(n), g) \cup {Once(Row(1 - n))} :
            f, g \in Patterns, n \in {0, 1}}

Writer == [version |-> 3, read_only |-> FALSE, active |-> {}]
Txns == {Writer,
         [version |-> 3, read_only |-> TRUE, active |-> {1}],
         [version |-> 2, read_only |-> FALSE, active |-> {1}]}

Prefix(p) == [kind |-> "prefix", prefix |-> p]
Between(start, end) == [kind |-> "range", start |-> start, end |-> end]
Queries ==
  {Prefix(<<0>>), Prefix(<<1, <<1>>, <<1>>>>), Prefix(<<2, <<1>>>>),
   Between(Unbounded, Unbounded),
   Between(Included(Row(0)), Unbounded),
   Between(Excluded(<<0, <<1>>>>), Excluded(Row(0))),
   Between(Unbounded, Included(Row(0)))}

MCCases ==
  [store : Adjacent, txn : {Writer}, query : Queries]
    \cup [store : Mixed, txn : Txns, query : {Prefix(<<2, <<1>>>>)}]

=============================================================================
