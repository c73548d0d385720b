------------------------------ MODULE MCBitCask ------------------------------
(* BitCask on small files, for TLC.                                        *)
EXTENDS BitCask, TLC

CONSTANTS MaxEntries,  \* entries of a file
          MaxUnsynced  \* contents that a power failure may leave

Bounded ==
  /\ Len(file) <= MaxEntries
  /\ Cardinality(disk) <= MaxUnsynced

ValueSymmetry == Permutations(Values)
=============================================================================
