------------------------------- MODULE MCMVCC -------------------------------
(* Small instances of MVCC for TLC. *)
EXTENDS MVCC, TLC

CONSTANT MaxRecords \* bound: versions stored at a time, of all keys together

Bounded == Cardinality({<<k, v>> \in Key \X (1..MaxVersion) : v \in DOMAIN versions[k]})
               <= MaxRecords

\* Keys are only compared for equality.
KeySymmetry == Permutations(Key)
=============================================================================
