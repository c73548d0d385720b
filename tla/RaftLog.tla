------------------------------ MODULE RaftLog ------------------------------
(***************************************************************************)
(* The Raft log of src/src/raft/log.rs as operators on a sequence of       *)
(* entries.  The engine stores entry number k under Key::Entry(k); the     *)
(* code only ever appends at last_index+1, overwrites, or deletes a tail,  *)
(* so the stored keys are always 1..last_index and a sequence stands for   *)
(* them.  An entry is [term, command].                                     *)
(***************************************************************************)
EXTENDS Naturals, Sequences

\* get_last_index().0 and .1: (0, 0) for an empty log.
LastIndex(log) == Len(log)
LastTerm(log) == IF log = <<>> THEN 0 ELSE log[Len(log)].term

\* The term stored with the entry at index, 0 when there is none.
TermAt(log, index) == IF index \in 1..Len(log) THEN log[index].term ELSE 0

\* Mutant: any entry at the index will do.
HasIndex(log, index, term) == index <= Len(log)

\* has(index, term): true for (0, 0), else the entry must exist with that term.
Has(log, index, term) ==
    IF index \in 1..Len(log) THEN log[index].term = term
                             ELSE index = 0 /\ term = 0

\* scan((index+1)..): every entry after index.
EntriesAfter(log, index) == SubSeq(log, index + 1, Len(log))

\* How many of the spliced entries splice() skips because the log already has
\* an entry with the same index and term: it stops at the first mismatch.
SplicedMatches(log, base, entries) ==
    CHOOSE n \in 0..Len(entries) :
        /\ \A k \in 1..n : /\ base + k <= Len(log)
                           /\ log[base + k].term = entries[k].term
        /\ n < Len(entries) => ~ /\ base + n + 1 <= Len(log)
                                 /\ log[base + n + 1].term = entries[n + 1].term

\* splice(): existing entries that match are kept, the others are written, and
\* whatever the log holds after the last spliced entry is deleted, whether or
\* not there was a mismatch.  An empty splice changes nothing.
Splice(log, base, entries) ==
    IF entries = <<>> THEN log
    ELSE LET n == SplicedMatches(log, base, entries)
         IN  SubSeq(log, 1, base + n) \o SubSeq(entries, n + 1, Len(entries))

\* The Error::Internal returns of splice(): a gap before the first entry, or a
\* write at or below the commit index.
SpliceFails(log, commit, base, entries) ==
    /\ entries # <<>>
    /\ \/ base > Len(log)
       \/ LET n == SplicedMatches(log, base, entries)
          IN  n < Len(entries) /\ base + n + 1 <= commit
=============================================================================
