--------------------------- MODULE BitCaskProofs ---------------------------
(***************************************************************************)
(* Proofs about BitCask, for any sets of keys and values, files of any     *)
(* length and any number of kills and power failures.                      *)
(***************************************************************************)
EXTENDS BitCask, NaturalSets, SequenceTheorems, FiniteSetTheorems

-----------------------------------------------------------------------------
(* Files.                                                                  *)

\* What a database file may hold: entries, the last of them perhaps torn.
File == {f \in Seq(Entry \cup {Torn}) : \A i \in 1..(Len(f) - 1) : f[i] # Torn}

\* An entry is not torn, and has a key and a value.
LEMMA EntryFacts ==
    ASSUME NEW e \in Entry
    PROVE  /\ e # Torn
           /\ e.key \in Keys /\ e.value \in Values \cup {Tombstone}
BY BitCaskAssumption DEF Entry

\* The first n elements of a sequence.
LEMMA PrefixIs ==
    ASSUME NEW S, NEW f \in Seq(S), NEW n \in 0..Len(f)
    PROVE  /\ SubSeq(f, 1, n) \in Seq(S)
           /\ Len(SubSeq(f, 1, n)) = n
           /\ \A i \in 1..n : SubSeq(f, 1, n)[i] = f[i]
OBVIOUS

\* A file of whole entries.
LEMMA WholeFile ==
    ASSUME NEW f \in Seq(Entry)
    PROVE  f \in File /\ Truncated(f) = f
<1>1. \A i \in 1..Len(f) : f[i] \in Entry /\ f[i] # Torn
  BY EntryFacts
<1>2. f \in Seq(Entry \cup {Torn})
  OBVIOUS
<1>3. f # << >> => Len(f) \in 1..Len(f)
  OBVIOUS
<1> QED
  BY <1>1, <1>2, <1>3 DEF File, Truncated

\* Opening a file leaves whole entries; a torn one was its last.
LEMMA TruncatedFile ==
    ASSUME NEW f \in File
    PROVE  /\ Truncated(f) \in Seq(Entry)
           /\ f = Truncated(f) \/ f = Append(Truncated(f), Torn)
<1>1. f \in Seq(Entry \cup {Torn}) /\ \A i \in 1..(Len(f) - 1) : f[i] # Torn
  BY DEF File
<1>2. CASE f # << >> /\ f[Len(f)] = Torn
  <2> DEFINE g == SubSeq(f, 1, Len(f) - 1)
  <2>1. Len(f) \in Nat \ {0}
    BY <1>1, <1>2
  <2>2. /\ g \in Seq(Entry \cup {Torn}) /\ Len(g) = Len(f) - 1
        /\ \A i \in 1..(Len(f) - 1) : g[i] = f[i]
    <3>1. Len(f) - 1 \in 0..Len(f)
      BY <2>1
    <3> QED
      BY <1>1, <3>1, PrefixIs
  <2>3. \A i \in 1..Len(g) : g[i] \in Entry
    BY <1>1, <2>1, <2>2
  <2>4. g \in Seq(Entry)
    BY <2>2, <2>3
  <2>5. f = Append(g, Torn)
    <3>1. Append(g, Torn) \in Seq(Entry \cup {Torn}) /\ Len(Append(g, Torn)) = Len(f)
      BY <2>2, <2>1
    <3>2. \A i \in 1..Len(f) : f[i] = Append(g, Torn)[i]
      BY <2>2, <2>1, <1>2
    <3> QED
      BY <3>1, <3>2, <1>1, SeqEqual
  <2>6. Truncated(f) = g
    BY <1>2 DEF Truncated
  <2> QED
    BY <2>4, <2>5, <2>6
<1>3. CASE ~(f # << >> /\ f[Len(f)] = Torn)
  <2>1. \A i \in 1..Len(f) : f[i] \in Entry
    BY <1>1, <1>3
  <2>2. f \in Seq(Entry)
    BY <1>1, <2>1
  <2> QED
    BY <2>2, <1>3 DEF Truncated
<1> QED
  BY <1>2, <1>3

\* A torn entry on top of a file.
LEMMA TornFile ==
    ASSUME NEW f \in Seq(Entry)
    PROVE  Append(f, Torn) \in File
<1>1. \A i \in 1..Len(f) : f[i] # Torn
  BY EntryFacts
<1>2. /\ Append(f, Torn) \in Seq(Entry \cup {Torn})
      /\ Len(Append(f, Torn)) = Len(f) + 1 /\ Len(f) \in Nat
      /\ \A i \in 1..Len(f) : Append(f, Torn)[i] = f[i]
  OBVIOUS
<1>3. \A i \in 1..(Len(Append(f, Torn)) - 1) : i \in 1..Len(f)
  BY <1>2
<1> QED
  BY <1>1, <1>2, <1>3 DEF File

-----------------------------------------------------------------------------
(* The keydir that a file gives.                                           *)

\* The last entry of a key that has entries.
LEMMA LastEntryIs ==
    ASSUME NEW f \in Seq(Entry \cup {Torn}), NEW k, EntriesOf(f, k) # {}
    PROVE  /\ LastEntry(f, k) \in EntriesOf(f, k)
           /\ \A j \in EntriesOf(f, k) : j <= LastEntry(f, k)
<1>1. EntriesOf(f, k) \in SUBSET (0..Len(f)) /\ Len(f) \in Nat
  BY DEF EntriesOf
<1>2. \E i \in EntriesOf(f, k) : \A j \in EntriesOf(f, k) : j <= i
  BY <1>1, GreatestNatural
<1> QED
  BY <1>2 DEF LastEntry

\* An entry that is above all others of its key is the last one.
LEMMA LastEntryUnique ==
    ASSUME NEW f \in Seq(Entry \cup {Torn}), NEW k, NEW i \in EntriesOf(f, k),
           \A j \in EntriesOf(f, k) : j <= i
    PROVE  LastEntry(f, k) = i
<1>1. /\ LastEntry(f, k) \in EntriesOf(f, k)
      /\ \A j \in EntriesOf(f, k) : j <= LastEntry(f, k)
  BY LastEntryIs
<1>2. EntriesOf(f, k) \subseteq Nat
  BY DEF EntriesOf
<1> QED
  BY <1>1, <1>2

\* Every position of the keydir is that of an entry of its key with a value.
LEMMA KeydirPositions ==
    ASSUME NEW f \in Seq(Entry \cup {Torn}), NEW k \in DOMAIN BuildKeydir(f)
    PROVE  /\ k \in Keys
           /\ BuildKeydir(f)[k] \in 1..Len(f)
           /\ f[BuildKeydir(f)[k]] \in Entry
           /\ f[BuildKeydir(f)[k]].key = k
           /\ f[BuildKeydir(f)[k]].value # Tombstone
<1>1. k \in Keys /\ IsLive(f, k) /\ BuildKeydir(f)[k] = LastEntry(f, k)
  BY DEF BuildKeydir
<1>2. LastEntry(f, k) \in EntriesOf(f, k) /\ f[LastEntry(f, k)].value # Tombstone
  BY <1>1, LastEntryIs DEF IsLive
<1> QED
  BY <1>1, <1>2 DEF EntriesOf

\* Entries of other keys, or torn ones, at the end of a file do not matter.
LEMMA OtherEntry ==
    ASSUME NEW f \in Seq(Entry), NEW e \in Entry \cup {Torn}, NEW k,
           e = Torn \/ e.key # k
    PROVE  /\ EntriesOf(Append(f, e), k) = EntriesOf(f, k)
           /\ LastEntry(Append(f, e), k) = LastEntry(f, k)
           /\ IsLive(Append(f, e), k) <=> IsLive(f, k)
<1> DEFINE g == Append(f, e)
<1>1. /\ g \in Seq(Entry \cup {Torn}) /\ f \in Seq(Entry \cup {Torn})
      /\ Len(g) = Len(f) + 1 /\ g[Len(f) + 1] = e
      /\ \A i \in 1..Len(f) : g[i] = f[i]
  OBVIOUS
<1>2. EntriesOf(g, k) = EntriesOf(f, k)
  BY <1>1 DEF EntriesOf
<1>3. LastEntry(g, k) = LastEntry(f, k)
  BY <1>2 DEF LastEntry
<1>4. EntriesOf(f, k) # {} => g[LastEntry(f, k)] = f[LastEntry(f, k)]
  BY <1>1, LastEntryIs DEF EntriesOf
<1> QED
  BY <1>2, <1>3, <1>4 DEF IsLive

\* An entry at the end of a file is the last of its key.
LEMMA OwnEntry ==
    ASSUME NEW f \in Seq(Entry), NEW e \in Entry
    PROVE  /\ LastEntry(Append(f, e), e.key) = Len(f) + 1
           /\ IsLive(Append(f, e), e.key) <=> e.value # Tombstone
<1> DEFINE g == Append(f, e)
<1>1. /\ g \in Seq(Entry \cup {Torn})
      /\ Len(g) = Len(f) + 1 /\ Len(f) \in Nat /\ g[Len(f) + 1] = e
  OBVIOUS
<1>2. Len(f) + 1 \in EntriesOf(g, e.key)
  BY <1>1, EntryFacts DEF EntriesOf
<1>3. \A j \in EntriesOf(g, e.key) : j <= Len(f) + 1
  BY <1>1 DEF EntriesOf
<1>4. LastEntry(g, e.key) = Len(f) + 1
  BY <1>1, <1>2, <1>3, LastEntryUnique
<1> QED
  BY <1>1, <1>2, <1>4 DEF IsLive

\* What set() and delete() do to the keydir is what reading the entry they
\* append does.
LEMMA AppendedKeydir ==
    ASSUME NEW f \in Seq(Entry), NEW k \in Keys, NEW v \in Values \cup {Tombstone}
    PROVE  BuildKeydir(Append(f, [key |-> k, value |-> v])) =
             IF v = Tombstone
             THEN [x \in DOMAIN BuildKeydir(f) \ {k} |-> BuildKeydir(f)[x]]
             ELSE [x \in DOMAIN BuildKeydir(f) \cup {k} |->
                     IF x = k THEN Len(f) + 1 ELSE BuildKeydir(f)[x]]
<1> DEFINE e == [key |-> k, value |-> v]
           g == Append(f, e)
<1>1. e \in Entry /\ e.key = k /\ e.value = v
  BY DEF Entry
<1>2. LastEntry(g, k) = Len(f) + 1 /\ (IsLive(g, k) <=> v # Tombstone)
  BY <1>1, OwnEntry
<1>3. \A x \in Keys : x # k => LastEntry(g, x) = LastEntry(f, x) /\ (IsLive(g, x) <=> IsLive(f, x))
  BY <1>1, OtherEntry
<1> HIDE DEF e, g
<1>4. CASE v = Tombstone
  <2>1. DOMAIN BuildKeydir(g) = DOMAIN BuildKeydir(f) \ {k}
    BY <1>2, <1>3, <1>4 DEF BuildKeydir
  <2> QED
    BY <1>2, <1>3, <1>4, <2>1 DEF BuildKeydir, g, e
<1>5. CASE v # Tombstone
  <2>1. DOMAIN BuildKeydir(g) = DOMAIN BuildKeydir(f) \cup {k}
    BY <1>2, <1>3, <1>5 DEF BuildKeydir
  <2> QED
    BY <1>2, <1>3, <1>5, <2>1 DEF BuildKeydir, g, e
<1> QED
  BY <1>4, <1>5

\* The content after an entry.
LEMMA AppendedContent ==
    ASSUME NEW f \in Seq(Entry), NEW k \in Keys, NEW v \in Values \cup {Tombstone}
    PROVE  Content(Append(f, [key |-> k, value |-> v])) =
             IF v = Tombstone
             THEN [x \in DOMAIN Content(f) \ {k} |-> Content(f)[x]]
             ELSE [x \in DOMAIN Content(f) \cup {k} |-> IF x = k THEN v ELSE Content(f)[x]]
<1> DEFINE e == [key |-> k, value |-> v]
           g == Append(f, e)
           B == BuildKeydir(f)
<1>1. f \in Seq(Entry \cup {Torn}) /\ Len(f) \in Nat
  OBVIOUS
<1>2. e \in Entry /\ e.value = v /\ g[Len(f) + 1] = e /\ \A i \in 1..Len(f) : g[i] = f[i]
  BY DEF Entry
<1>3. BuildKeydir(g) = IF v = Tombstone THEN [x \in DOMAIN B \ {k} |-> B[x]]
                       ELSE [x \in DOMAIN B \cup {k} |-> IF x = k THEN Len(f) + 1 ELSE B[x]]
  BY AppendedKeydir
<1>4. \A x \in DOMAIN B : B[x] \in 1..Len(f)
  BY <1>1, KeydirPositions
<1> HIDE DEF e, g, B
<1>5. \A x \in DOMAIN B : g[B[x]].value = f[B[x]].value
  BY <1>2, <1>4
<1>6. Content(f) = [x \in DOMAIN B |-> f[B[x]].value]
  BY DEF Content, Read, B
<1>7. Content(g) = [x \in DOMAIN BuildKeydir(g) |-> g[BuildKeydir(g)[x]].value]
  BY DEF Content, Read
<1>8. CASE v = Tombstone
  <2>1. BuildKeydir(g) = [x \in DOMAIN B \ {k} |-> B[x]]
    BY <1>3, <1>8
  <2>2. Content(g) = [x \in DOMAIN B \ {k} |-> f[B[x]].value]
    BY <2>1, <1>5, <1>7
  <2> QED
    BY <2>2, <1>6, <1>8 DEF g, e
<1>9. CASE v # Tombstone
  <2>1. BuildKeydir(g) = [x \in DOMAIN B \cup {k} |-> IF x = k THEN Len(f) + 1 ELSE B[x]]
    BY <1>3, <1>9
  <2>2. Content(g) = [x \in DOMAIN B \cup {k} |-> IF x = k THEN v ELSE f[B[x]].value]
    BY <2>1, <1>2, <1>5, <1>7
  <2> QED
    BY <2>2, <1>6, <1>9 DEF g, e
<1> QED
  BY <1>8, <1>9

\* A torn entry is not read.
LEMMA TornContent ==
    ASSUME NEW f \in Seq(Entry)
    PROVE  /\ BuildKeydir(Append(f, Torn)) = BuildKeydir(f)
           /\ Content(Append(f, Torn)) = Content(f)
<1> DEFINE g == Append(f, Torn)
<1>1. f \in Seq(Entry \cup {Torn}) /\ \A i \in 1..Len(f) : g[i] = f[i]
  OBVIOUS
<1>2. \A k \in Keys : LastEntry(g, k) = LastEntry(f, k) /\ (IsLive(g, k) <=> IsLive(f, k))
  BY OtherEntry
<1> HIDE DEF g
<1>3. BuildKeydir(g) = BuildKeydir(f)
  BY <1>2 DEF BuildKeydir
<1>4. \A k \in DOMAIN BuildKeydir(f) : BuildKeydir(f)[k] \in 1..Len(f)
  BY <1>1, KeydirPositions
<1>5. Content(g) = Content(f)
  BY <1>1, <1>3, <1>4 DEF Content, Read
<1> QED
  BY <1>3, <1>5 DEF g

\* Cutting off a torn entry changes nothing that is read.
LEMMA TruncatedContent ==
    ASSUME NEW f \in File
    PROVE  Content(Truncated(f)) = Content(f)
BY TruncatedFile, TornContent

-----------------------------------------------------------------------------
(* The inductive invariant.                                                *)

\* The copy that a compaction has made so far: whole entries, one for each key
\* that was moved, with the value of the key.
Copied ==
    /\ temp \in Seq(Entry)
    /\ moved = BuildKeydir(temp)
    /\ DOMAIN moved \subseteq DOMAIN keydir
    /\ \A k \in DOMAIN moved : temp[moved[k]].value = file[keydir[k]].value
    /\ \A i \in 1..Len(temp) : temp[i].value # Tombstone
    /\ IsFiniteSet(DOMAIN moved) /\ Cardinality(DOMAIN moved) = Len(temp)

Inv ==
    /\ file \in disk /\ disk \subseteq File /\ temp \in File
    /\ phase \in {"closed", "open", "compacting"}
    /\ phase = "closed" => keydir = NoKeys
    /\ phase # "compacting" => moved = NoKeys
    /\ phase # "closed" => file \in Seq(Entry) /\ keydir = BuildKeydir(file)
    /\ phase = "compacting" => Copied

\* The empty file.
LEMMA EmptyFile ==
    /\ << >> \in Seq(Entry) /\ << >> \in File
    /\ BuildKeydir(<< >>) = NoKeys
    /\ DOMAIN NoKeys = {} /\ IsFiniteSet(DOMAIN NoKeys) /\ Cardinality(DOMAIN NoKeys) = 0
    /\ Content(<< >>) = << >>
<1>0. << >> \in Seq(Entry)
  OBVIOUS
<1>1. << >> \in Seq(Entry) /\ << >> \in File
  BY <1>0, WholeFile
<1>2. DOMAIN NoKeys = {}
  BY DEF NoKeys
<1>3. \A k \in Keys : ~IsLive(<< >>, k)
  BY DEF IsLive, EntriesOf
<1>4. DOMAIN BuildKeydir(<< >>) = {}
  BY <1>3 DEF BuildKeydir
<1>5. BuildKeydir(<< >>) = << >>
  BY <1>4 DEF BuildKeydir
<1>6. Content(<< >>) = << >>
  BY <1>4 DEF Content, Read
<1> QED
  BY <1>1, <1>2, <1>5, <1>6, FS_EmptySet DEF NoKeys

\* Nothing has been copied when a compaction starts.
LEMMA NothingCopied ==
    ASSUME temp' = << >>, moved' = NoKeys
    PROVE  Copied'
BY EmptyFile DEF Copied

LEMMA InitInv == Init => Inv
BY EmptyFile DEF Init, Inv

\* Appending an entry, as set() and delete() do.
LEMMA WriteKeepsInv ==
    ASSUME Inv, phase = "open", NEW k \in Keys, NEW v \in Values \cup {Tombstone},
           WriteEntry(k, v), UNCHANGED <<temp, phase, moved>>,
           keydir' = BuildKeydir(file')
    PROVE  Inv'
<1>1. [key |-> k, value |-> v] \in Entry /\ file \in Seq(Entry)
  BY DEF Entry, Inv
<1>2. file' \in Seq(Entry)
  BY <1>1 DEF WriteEntry
<1>3. file' \in File
  BY <1>2, WholeFile
<1> QED
  BY <1>2, <1>3 DEF Inv, WriteEntry

\* A step that copies a live entry.
LEMMA MoveKeepsCopied ==
    ASSUME Inv, MoveEntry
    PROVE  Copied' /\ temp' \in File
<1>1. /\ phase = "compacting" /\ Copied /\ file \in Seq(Entry) /\ keydir = BuildKeydir(file)
      /\ UNCHANGED <<file, keydir>>
  BY DEF MoveEntry, Inv
<1>2. PICK k \in DOMAIN keydir \ DOMAIN moved :
        /\ temp' = Append(temp, [key |-> k, value |-> file[keydir[k]].value])
        /\ moved' = [x \in DOMAIN moved \cup {k} |-> IF x = k THEN Len(temp) + 1 ELSE moved[x]]
  BY DEF MoveEntry
<1> DEFINE v == file[keydir[k]].value
<1>3. file \in Seq(Entry \cup {Torn})
  BY <1>1
<1>4. k \in Keys /\ v \in Values \cup {Tombstone} /\ v # Tombstone
  BY <1>1, <1>3, KeydirPositions, EntryFacts
<1>5. [key |-> k, value |-> v] \in Entry
  BY <1>4 DEF Entry
<1> HIDE DEF v
<1>6. temp \in Seq(Entry) /\ temp' = Append(temp, [key |-> k, value |-> v])
  BY <1>1, <1>2 DEF Copied, v
<1>7. temp' \in Seq(Entry) /\ Len(temp') = Len(temp) + 1 /\ Len(temp) \in Nat
      /\ temp'[Len(temp) + 1] = [key |-> k, value |-> v]
      /\ \A i \in 1..Len(temp) : temp'[i] = temp[i]
  BY <1>5, <1>6
<1>8. moved' = BuildKeydir(temp')
  <2>1. BuildKeydir(temp') = [x \in DOMAIN BuildKeydir(temp) \cup {k} |->
                                IF x = k THEN Len(temp) + 1 ELSE BuildKeydir(temp)[x]]
    BY <1>4, <1>6, AppendedKeydir
  <2>2. moved = BuildKeydir(temp)
    BY <1>1 DEF Copied
  <2> QED
    BY <1>2, <2>1, <2>2
<1>9. DOMAIN moved' = DOMAIN moved \cup {k} /\ DOMAIN moved' \subseteq DOMAIN keydir
  BY <1>1, <1>2 DEF Copied
<1>10. ASSUME NEW x \in DOMAIN moved'
       PROVE  temp'[moved'[x]].value = file[keydir[x]].value
  <2>1. CASE x = k
    BY <1>2, <1>7, <2>1 DEF v
  <2>2. CASE x # k
    <3>1. x \in DOMAIN moved /\ moved'[x] = moved[x]
      BY <1>2, <1>9, <2>2
    <3>2. temp \in Seq(Entry \cup {Torn})
      BY <1>6
    <3>3. moved[x] \in 1..Len(temp)
      BY <1>1, <3>1, <3>2, KeydirPositions DEF Copied
    <3> QED
      BY <1>1, <1>7, <3>1, <3>3 DEF Copied
  <2> QED
    BY <2>1, <2>2
<1>11. \A i \in 1..Len(temp') : temp'[i].value # Tombstone
  <2>1. \A i \in 1..Len(temp') : i \in 1..Len(temp) \/ i = Len(temp) + 1
    BY <1>7
  <2> QED
    BY <1>1, <1>4, <1>7, <2>1 DEF Copied
<1>12. IsFiniteSet(DOMAIN moved') /\ Cardinality(DOMAIN moved') = Len(temp')
  <2>1. IsFiniteSet(DOMAIN moved) /\ Cardinality(DOMAIN moved) = Len(temp) /\ k \notin DOMAIN moved
    BY <1>1, <1>2 DEF Copied
  <2>2. /\ IsFiniteSet(DOMAIN moved \cup {k})
        /\ Cardinality(DOMAIN moved \cup {k}) = Cardinality(DOMAIN moved) + 1
    BY <2>1, FS_AddElement, Zenon
  <2> QED
    BY <1>7, <1>9, <2>1, <2>2
<1>13. temp' \in File
  BY <1>7, WholeFile
<1> QED
  BY <1>1, <1>7, <1>8, <1>9, <1>10, <1>11, <1>12, <1>13 DEF Copied

\* What a power failure may leave of the file.
LEMMA RemainsOf ==
    ASSUME NEW f \in File, NEW g \in {f, Append(Truncated(f), Torn)}
    PROVE  g \in File /\ Content(g) = Content(f)
BY TruncatedFile, TornFile, TornContent, TruncatedContent

\* A file cut anywhere.
LEMMA CutFile ==
    ASSUME NEW f \in File, NEW n \in 0..Len(f)
    PROVE  SubSeq(f, 1, n) \in File
<1>1. f \in Seq(Entry \cup {Torn}) /\ \A i \in 1..(Len(f) - 1) : f[i] # Torn
  BY DEF File
<1>2. /\ SubSeq(f, 1, n) \in Seq(Entry \cup {Torn}) /\ Len(SubSeq(f, 1, n)) = n
      /\ \A i \in 1..n : SubSeq(f, 1, n)[i] = f[i]
  BY <1>1, PrefixIs
<1>3. \A i \in 1..(n - 1) : i \in 1..n /\ i \in 1..(Len(f) - 1)
  BY <1>1
<1> QED
  BY <1>1, <1>2, <1>3 DEF File

-----------------------------------------------------------------------------
(* Every step keeps the invariant.                                         *)

LEMMA NextInv == Inv /\ [Next]_vars => Inv'
<1> SUFFICES ASSUME Inv, [Next]_vars PROVE Inv'
  OBVIOUS
<1>1. ASSUME NEW k \in Keys, Delete(k) PROVE Inv'
  <2>1. phase = "open" /\ WriteEntry(k, Tombstone) /\ UNCHANGED <<temp, phase, moved>>
    BY <1>1 DEF Delete
  <2>2. file \in Seq(Entry) /\ keydir = BuildKeydir(file)
    BY <2>1 DEF Inv
  <2>3. keydir' = BuildKeydir(file')
    <3>1. BuildKeydir(file') = [x \in DOMAIN BuildKeydir(file) \ {k} |-> BuildKeydir(file)[x]]
      BY <2>1, <2>2, AppendedKeydir DEF WriteEntry
    <3> QED
      BY <1>1, <2>2, <3>1 DEF Delete
  <2> QED
    BY <2>1, <2>3, WriteKeepsInv
<1>2. ASSUME NEW k \in Keys, NEW v \in Values, Set(k, v) PROVE Inv'
  <2>1. phase = "open" /\ WriteEntry(k, v) /\ UNCHANGED <<temp, phase, moved>>
    BY <1>2 DEF Set
  <2>2. file \in Seq(Entry) /\ keydir = BuildKeydir(file) /\ v # Tombstone
    BY <2>1, BitCaskAssumption DEF Inv
  <2>3. keydir' = BuildKeydir(file')
    <3>1. BuildKeydir(file') = [x \in DOMAIN BuildKeydir(file) \cup {k} |->
                                  IF x = k THEN Len(file) + 1 ELSE BuildKeydir(file)[x]]
      BY <2>1, <2>2, AppendedKeydir DEF WriteEntry
    <3> QED
      BY <1>2, <2>2, <3>1 DEF Set
  <2> QED
    BY <2>1, <2>2, <2>3, WriteKeepsInv
<1>3. CASE Flush
  BY <1>3 DEF Flush, Inv
<1>4. CASE StartCompaction
  <2>1. Copied' /\ << >> \in File
    BY <1>4, NothingCopied, EmptyFile DEF StartCompaction, EmptyTemp
  <2> QED
    BY <1>4, <2>1 DEF StartCompaction, EmptyTemp, Inv
<1>5. CASE MoveEntry
  <2>1. Copied' /\ temp' \in File
    BY <1>5, MoveKeepsCopied
  <2> QED
    BY <1>5, <2>1 DEF MoveEntry, Inv
<1>6. CASE FinishCompaction
  <2>1. /\ temp \in Seq(Entry) /\ temp \in File /\ moved = BuildKeydir(temp)
        /\ file' = temp /\ keydir' = moved /\ temp' = << >> /\ moved' = NoKeys /\ phase' = "open"
        /\ disk' = Renamed(disk, temp) /\ disk \subseteq File
    BY <1>6 DEF FinishCompaction, Inv, Copied
  <2>2. temp \in disk' /\ disk' \subseteq File
    <3>1. Len(temp) \in 0..Len(temp) /\ SubSeq(temp, 1, Len(temp)) = temp
      BY <2>1
    <3>2. \A n \in 0..Len(temp) : SubSeq(temp, 1, n) \in File
      BY <2>1, CutFile
    <3> QED
      BY <2>1, <3>1, <3>2 DEF Renamed
  <2> QED
    BY <2>1, <2>2, EmptyFile DEF Inv
<1>7. ASSUME NEW compact \in BOOLEAN, Open(compact) PROVE Inv'
  <2>1. file \in File /\ file' = Truncated(file) /\ disk' = disk \cup {file'}
        /\ keydir' = BuildKeydir(file') /\ moved' = NoKeys
    BY <1>7 DEF Open, Inv
  <2>2. file' \in Seq(Entry)
    BY <2>1, TruncatedFile
  <2>3. file' \in File
    BY <2>2, WholeFile
  <2>4. CASE phase' = "compacting" /\ temp' = << >>
    <3>1. Copied' /\ << >> \in File
      BY <2>1, <2>4, NothingCopied, EmptyFile
    <3> QED
      BY <2>1, <2>2, <2>3, <2>4, <3>1 DEF Inv
  <2>5. CASE phase' = "open" /\ temp' = temp
    BY <2>1, <2>2, <2>3, <2>5 DEF Inv
  <2> QED
    BY <1>7, <2>4, <2>5 DEF Open, EmptyTemp
<1>8. CASE Drop
  BY <1>8 DEF Drop, Closed, Inv
<1>9. CASE Kill
  <2>1. CASE UNCHANGED <<file, temp, disk>>
    BY <1>9, <2>1 DEF Kill, Closed, Inv
  <2>2. CASE /\ phase = "open" /\ file' = Append(file, Torn)
             /\ disk' = disk \cup {file'} /\ UNCHANGED temp
    <3>1. file' \in File
      BY <2>2, TornFile DEF Inv
    <3> QED
      BY <1>9, <2>2, <3>1 DEF Kill, Closed, Inv
  <2>3. CASE phase = "compacting" /\ temp' = Append(temp, Torn) /\ UNCHANGED <<file, disk>>
    <3>1. temp' \in File
      BY <2>3, TornFile DEF Inv, Copied
    <3> QED
      BY <1>9, <2>3, <3>1 DEF Kill, Closed, Inv
  <2> QED
    BY <1>9, <2>1, <2>2, <2>3 DEF Kill
<1>10. CASE PowerFailure
  <2>1. PICK f \in disk : file' \in {f, Append(Truncated(f), Torn)}
    BY <1>10 DEF PowerFailure
  <2>2. file' \in File
    BY <2>1, RemainsOf DEF Inv
  <2>3. temp' \in File
    BY <1>10, CutFile DEF PowerFailure, Inv
  <2> QED
    BY <1>10, <2>2, <2>3 DEF PowerFailure, Closed, Inv
<1>11. CASE UNCHANGED vars
  BY <1>11 DEF vars, Inv, Copied
<1> QED
  BY <1>1, <1>2, <1>3, <1>4, <1>5, <1>6, <1>7, <1>8, <1>9, <1>10, <1>11 DEF Next

\* The invariant holds at all times.
THEOREM Invariance == Spec => []Inv
BY InitInv, NextInv, PTL DEF Spec

-----------------------------------------------------------------------------
(* The properties.                                                         *)

\* Files are well formed: build_keydir() cuts a torn entry off before anything
\* is appended to it.
THEOREM FilesWellFormed == Spec => []TypeOK
<1>1. Inv => TypeOK
  <2> SUFFICES ASSUME Inv PROVE TypeOK
    OBVIOUS
  <2>1. ASSUME NEW f \in File
        PROVE  /\ \A i \in 1..(Len(f) - 1) : f[i] \in Entry
               /\ f # << >> => f[Len(f)] \in Entry \cup {Torn}
    BY DEF File
  <2>2. DOMAIN keydir \subseteq Keys
    BY EmptyFile DEF Inv, BuildKeydir
  <2>3. DOMAIN moved \subseteq Keys
    BY EmptyFile DEF Inv, Copied, BuildKeydir
  <2> QED
    BY <2>1, <2>2, <2>3 DEF Inv, TypeOK
<1> QED
  BY <1>1, Invariance, PTL

\* The keydir that set(), delete() and compact() maintain is the one that
\* build_keydir() would build from the file.
THEOREM KeydirMaintained == Spec => []KeydirExact
<1>1. Inv => KeydirExact
  BY DEF Inv, KeydirExact
<1> QED
  BY <1>1, Invariance, PTL

\* compact() swaps in a file without garbage.
THEOREM CompactionComplete == Spec => CompactionReclaims
<1>1. ASSUME Inv, [Next]_vars, phase = "compacting", phase' = "open"
      PROVE  Garbage(file, keydir)' = 0
  <2>1. FinishCompaction
    BY <1>1 DEF Next, vars, Delete, Set, Flush, StartCompaction, MoveEntry, Open, Drop, Kill,
                PowerFailure, Closed
  <2>2. file' = temp /\ keydir' = moved /\ Copied
    BY <1>1, <2>1 DEF FinishCompaction, Inv
  <2> DEFINE n == Len(temp)
  <2>3. n \in Nat /\ Cardinality(DOMAIN moved) = n
    BY <2>2 DEF Copied
  <2>4. {i \in DOMAIN temp : HasValue(temp[i])} = 1..n
    BY <2>2, EntryFacts DEF Copied, HasValue
  <2>5. Cardinality(1..n) = n
    <3>1. \A m \in Nat : Cardinality(1..m) = m
      <4> TAKE m \in Nat
      <4>1. \A a, b \in Int : Cardinality(a..b) = IF a > b THEN 0 ELSE b - a + 1
        BY FS_Interval
      <4>2. Cardinality(1..m) = IF 1 > m THEN 0 ELSE m - 1 + 1
        BY <4>1
      <4> QED
        BY <4>2
    <3> QED
      BY <2>3, <3>1
  <2> HIDE DEF n
  <2>6. /\ 8 * n + KeyLen * n + ValueLen * n = n * (KeyLen + ValueLen + 8)
        /\ n * (KeyLen + ValueLen + 8) \in Int
    BY <2>3, BitCaskAssumption
  <2>7. TotalSize(temp) = 8 * n + KeyLen * n + ValueLen * n
    BY <2>4, <2>5 DEF TotalSize, n
  <2>8. LiveSize(moved) = n * (KeyLen + ValueLen + 8)
    BY <2>3 DEF LiveSize
  <2>9. Garbage(file, keydir)' = TotalSize(temp) - LiveSize(moved)
    BY <2>2 DEF Garbage, TotalSize, LiveSize
  <2>10. TotalSize(temp) = LiveSize(moved) /\ LiveSize(moved) \in Int
    BY <2>6, <2>7, <2>8
  <2> HIDE <2>6, <2>7, <2>8
  <2> QED
    BY <2>9, <2>10
<1> QED
  BY <1>1, Invariance, PTL DEF Spec, CompactionReclaims

-----------------------------------------------------------------------------
(* Refinement of KV.                                                       *)

\* A step after which the path may hold one more file, with the content of the
\* one before it, is invisible.
LEMMA SameContent ==
    ASSUME Inv, Inv', disk' = disk \cup {file'}, Content(file') = Content(file)
    PROVE  UNCHANGED <<Data, Fallback>>
<1>1. Data' = Data
  <2>1. Data = Content(file) /\ Data' = Content(file')
    BY DEF Inv, Data, Content
  <2> QED
    BY <2>1
<1>2. Content(file') \in Fallback
  BY DEF Inv, Fallback
<1>3. Fallback' = Fallback \cup {Content(file')}
  BY DEF Fallback
<1> QED
  BY <1>1, <1>2, <1>3

LEMMA InitRefines == Init => Map!Init
<1> SUFFICES ASSUME Init PROVE Map!Init
  OBVIOUS
<1>1. Data = << >> /\ Fallback = {Data}
  BY EmptyFile DEF Init, Data, Fallback
<1> QED
  BY <1>1 DEF Map!Init

\* A step of the engine is a step of the map, or invisible in it, if the file
\* system keeps the order of a file's data and its renaming.
LEMMA NextRefines ==
    ASSUME OrderedRename
    PROVE  Inv /\ Inv' /\ [Next]_vars => [Map!Next]_(Map!vars)
<1> SUFFICES ASSUME Inv, Inv', [Next]_vars PROVE Map!Next \/ UNCHANGED <<Data, Fallback>>
  BY DEF Map!vars
<1>0. Data = Content(file) /\ Data' = Content(file') /\ file \in disk /\ disk \subseteq File
  BY DEF Inv, Data, Content
<1>1. ASSUME NEW k \in Keys, Delete(k) PROVE Map!Delete(k)
  <2>1. Data' = [x \in DOMAIN Data \ {k} |-> Data[x]]
    <3>1. file \in Seq(Entry) /\ file' = Append(file, [key |-> k, value |-> Tombstone])
      BY <1>1 DEF Delete, WriteEntry, Inv
    <3>2. Content(file') = [x \in DOMAIN Content(file) \ {k} |-> Content(file)[x]]
      BY <3>1, AppendedContent
    <3> QED
      BY <1>0, <3>2
  <2>2. Fallback' = Fallback \cup {Data'}
    BY <1>0, <1>1 DEF Delete, WriteEntry, Fallback
  <2> QED
    BY <2>1, <2>2 DEF Map!Delete, Map!Store, Map!Remove
<1>2. ASSUME NEW k \in Keys, NEW v \in Values, Set(k, v) PROVE Map!Set(k, v)
  <2>1. Data' = [x \in DOMAIN Data \cup {k} |-> IF x = k THEN v ELSE Data[x]]
    <3>1. /\ file \in Seq(Entry) /\ file' = Append(file, [key |-> k, value |-> v])
          /\ v # Tombstone
      BY <1>2, BitCaskAssumption DEF Set, WriteEntry, Inv
    <3>2. Content(file') = [x \in DOMAIN Content(file) \cup {k} |->
                              IF x = k THEN v ELSE Content(file)[x]]
      <4>1. v \in Values \cup {Tombstone}
        OBVIOUS
      <4>2. Content(file') = IF v = Tombstone
                             THEN [x \in DOMAIN Content(file) \ {k} |-> Content(file)[x]]
                             ELSE [x \in DOMAIN Content(file) \cup {k} |->
                                     IF x = k THEN v ELSE Content(file)[x]]
        BY <3>1, <4>1, AppendedContent, Zenon
      <4> QED
        BY <3>1, <4>2
    <3> QED
      BY <1>0, <3>2
  <2>2. Fallback' = Fallback \cup {Data'}
    BY <1>0, <1>2 DEF Set, WriteEntry, Fallback
  <2> QED
    BY <2>1, <2>2 DEF Map!Set, Map!Store, Map!Insert
<1>3. CASE Flush \/ Drop
  <2>1. file' = file /\ disk' = {file}
    BY <1>3 DEF Flush, Drop
  <2>2. Data' = Data /\ Fallback' = {Data}
    BY <1>0, <2>1 DEF Fallback
  <2> QED
    BY <2>2 DEF Map!Next, Map!Flush
<1>4. CASE StartCompaction \/ MoveEntry \/ UNCHANGED vars
  <2>1. file' = file /\ disk' = disk
    BY <1>4 DEF StartCompaction, MoveEntry, vars
  <2> QED
    BY <1>0, <2>1 DEF Fallback
<1>5. CASE FinishCompaction
  <2>1. /\ file' = temp /\ disk' = disk \cup {temp} /\ moved = BuildKeydir(temp)
        /\ keydir = BuildKeydir(file) /\ DOMAIN moved = DOMAIN keydir
        /\ \A k \in DOMAIN moved : temp[moved[k]].value = file[keydir[k]].value
    BY <1>5 DEF FinishCompaction, Renamed, Inv, Copied
  <2>2. Content(temp) = Content(file)
    BY <2>1 DEF Content, Read
  <2> QED
    BY <2>1, <2>2, SameContent
<1>6. ASSUME NEW compact \in BOOLEAN, Open(compact) PROVE UNCHANGED <<Data, Fallback>>
  BY <1>0, <1>6, TruncatedContent, SameContent DEF Open
<1>7. CASE Kill
  <2>1. CASE UNCHANGED <<file, disk>>
    BY <1>0, <2>1 DEF Fallback
  <2>2. CASE phase = "open" /\ file' = Append(file, Torn) /\ disk' = disk \cup {file'}
    BY <2>2, TornContent, SameContent DEF Inv
  <2> QED
    BY <1>7, <2>1, <2>2 DEF Kill
<1>8. CASE PowerFailure
  <2>1. PICK f \in disk : file' \in {f, Append(Truncated(f), Torn)}
    BY <1>8 DEF PowerFailure
  <2>2. Content(file') = Content(f) /\ Content(f) \in Fallback
    BY <1>0, <2>1, RemainsOf DEF Fallback
  <2>3. Data' = Content(f) /\ Fallback' = {Content(f)}
    BY <1>0, <1>8, <2>2 DEF PowerFailure, Fallback
  <2> QED
    BY <2>2, <2>3 DEF Map!Next, Map!PowerFailure
<1> QED
  BY <1>1, <1>2, <1>3, <1>4, <1>5, <1>6, <1>7, <1>8 DEF Next, Map!Next

\* On a file system that keeps the order of a file's data and its renaming, the
\* engine is a durable map, whatever kills and power failures interrupt.
THEOREM Refinement ==
    ASSUME OrderedRename
    PROVE  Spec => ImplementsKV
<1>1. Inv /\ Inv' /\ [Next]_vars => [Map!Next]_(Map!vars)
  BY NextRefines
<1> QED
  BY <1>1, InitRefines, Invariance, PTL DEF Spec, Map!Spec, ImplementsKV

=============================================================================
