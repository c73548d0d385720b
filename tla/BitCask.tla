------------------------------- MODULE BitCask -------------------------------
(***************************************************************************)
(* The BitCask storage engine (src/storage/bitcask.rs).  A database is one *)
(* append-only file of entries, tombstones included; a map in memory, the  *)
(* keydir, holds the position of the live entry of each key and is rebuilt *)
(* by reading the file when it is opened.  Compaction copies the live      *)
(* entries to another file that then replaces the first.                   *)
(*                                                                         *)
(* A file is the sequence of its entries; the last one may be Torn, an     *)
(* entry of which only some bytes were written.  A position in the keydir  *)
(* is an index of that sequence.  The process can be killed at any point,  *)
(* in the middle of write_entry() and of a compaction included, and the    *)
(* power can fail.  What then remains of a file is up to the file system,  *)
(* which is not part of this code: "disk" is the set of contents the path  *)
(* may have after a power failure.                                         *)
(***************************************************************************)
EXTENDS Integers, Sequences, FiniteSets, FiniteSetsExt

CONSTANTS Keys,          \* numbers: keys are ordered
          Values,
          Tombstone,
          Torn,
          KeyLen,        \* the bytes of a key and of a value
          ValueLen,
          MinGarbage,    \* garbage_min_bytes of new_compact()
          MinRatio,      \* garbage_min_ratio, as a percentage
          OrderedRename  \* a file's data reach the disk before its renaming

ASSUME BitCaskAssumption ==
  /\ Keys \subseteq Int
  /\ Tombstone \notin Values
  /\ KeyLen \in Nat /\ ValueLen \in Nat
  /\ Torn \notin [key : Keys, value : Values \cup {Tombstone}]

VARIABLES file,    \* the content of the database file
          disk,    \* the contents it may have after a power failure
          temp,    \* the content of the file with the extension "new"
          keydir,  \* key -> position of its live entry, while open
          phase,   \* "closed", "open" or "compacting"
          moved    \* new_keydir of the compaction in progress

vars == <<file, disk, temp, keydir, phase, moved>>

Entry == [key : Keys, value : Values \cup {Tombstone}]

NoKeys == << >>

(***************************************************************************)
(* Reading a file.                                                         *)
(***************************************************************************)
(* A file that is opened as it is.                                         *)
NotTruncated(f) == f

(* A file as build_keydir() leaves it: cut at the entry that is incomplete. *)
Truncated(f) == IF f # << >> /\ f[Len(f)] = Torn THEN SubSeq(f, 1, Len(f) - 1) ELSE f

EntriesOf(f, k) == {i \in DOMAIN f : f[i] # Torn /\ f[i].key = k}

(* A replay that does not honour tombstones.                               *)
BuildWithoutTombstones(f) ==
  LET Sets(k) == {i \in EntriesOf(f, k) : f[i].value # Tombstone}
  IN  [k \in {k \in Keys : Sets(k) # {}} |->
         CHOOSE i \in Sets(k) : \A j \in Sets(k) : j <= i]

(* The loop inserts an entry over the ones before it, and a tombstone      *)
(* removes them, so that the last entry of a key decides.                  *)
LastEntry(f, k) == CHOOSE i \in EntriesOf(f, k) : \A j \in EntriesOf(f, k) : j <= i

IsLive(f, k) == EntriesOf(f, k) # {} /\ f[LastEntry(f, k)].value # Tombstone

BuildKeydir(f) == [k \in {k \in Keys : IsLive(f, k)} |-> LastEntry(f, k)]

(* get(), and scan() over all keys, through a keydir.                      *)
Read(f, kd) == [k \in DOMAIN kd |-> f[kd[k]].value]

Content(f) == Read(f, BuildKeydir(f))

(***************************************************************************)
(* status(): the size of the file and of its live entries.                 *)
(***************************************************************************)
HasValue(e) == e # Torn /\ e.value # Tombstone

EntrySize(e) == 8 + KeyLen + IF HasValue(e) THEN ValueLen ELSE 0

TotalSize(f) == 8 * Len(f) + KeyLen * Len(f)
                  + ValueLen * Cardinality({i \in DOMAIN f : HasValue(f[i])})

(* A live size that leaves out the two lengths an entry starts with.       *)
PayloadSize(kd) == Cardinality(DOMAIN kd) * (KeyLen + ValueLen)

LiveSize(kd) == Cardinality(DOMAIN kd) * (KeyLen + ValueLen + 8)

Garbage(f, kd) == TotalSize(f) - LiveSize(kd)

(* The condition of new_compact().                                         *)
WantsCompaction(f, kd) ==
  /\ Garbage(f, kd) > 0
  /\ Garbage(f, kd) >= MinGarbage
  /\ 100 * Garbage(f, kd) >= MinRatio * TotalSize(f)

(***************************************************************************)
(* Writing a file.                                                         *)
(***************************************************************************)
(* write_entry(): an append, which is not on the disk before a flush.      *)
WriteEntry(k, v) ==
  /\ file' = Append(file, [key |-> k, value |-> v])
  /\ disk' = disk \cup {file'}

(* A set() that keeps the position of the entry it replaces.               *)
SetKeepingPosition(k, v) ==
  /\ phase = "open"
  /\ WriteEntry(k, v)
  /\ keydir' = [x \in DOMAIN keydir \cup {k} |->
                  IF x \in DOMAIN keydir THEN keydir[x] ELSE Len(file) + 1]
  /\ UNCHANGED <<temp, phase, moved>>

Set(k, v) ==
  /\ phase = "open"
  /\ WriteEntry(k, v)
  /\ keydir' = [x \in DOMAIN keydir \cup {k} |->
                  IF x = k THEN Len(file) + 1 ELSE keydir[x]]
  /\ UNCHANGED <<temp, phase, moved>>

(* delete() writes a tombstone whether or not the key exists.              *)
Delete(k) ==
  /\ phase = "open"
  /\ WriteEntry(k, Tombstone)
  /\ keydir' = [x \in DOMAIN keydir \ {k} |-> keydir[x]]
  /\ UNCHANGED <<temp, phase, moved>>

Flush ==
  /\ phase = "open"
  /\ disk' = {file}
  /\ UNCHANGED <<file, temp, keydir, phase, moved>>

(***************************************************************************)
(* Compaction, one entry at a time: the process can be killed in between.  *)
(***************************************************************************)
(* A write_log() that appends to the file it finds.                        *)
KeepTemp(t) == t

(* write_log() starts by truncating what an earlier attempt left behind.   *)
EmptyTemp(t) == << >>

StartCompaction ==
  /\ phase = "open"
  /\ temp' = EmptyTemp(temp)
  /\ moved' = NoKeys
  /\ phase' = "compacting"
  /\ UNCHANGED <<file, disk, keydir>>

MoveEntry ==
  /\ phase = "compacting"
  /\ \E k \in DOMAIN keydir \ DOMAIN moved :
       /\ \A x \in DOMAIN keydir \ DOMAIN moved : k <= x
       /\ temp' = Append(temp, [key |-> k, value |-> file[keydir[k]].value])
       /\ moved' = [x \in DOMAIN moved \cup {k} |->
                      IF x = k THEN Len(temp) + 1 ELSE moved[x]]
  /\ UNCHANGED <<file, disk, keydir, phase>>

(* What the path may hold after the renaming, if the power fails: the new  *)
(* file, which has not been flushed, or what it could have held before.    *)
Renamed(d, t) ==
  d \cup (IF OrderedRename THEN {t} ELSE {SubSeq(t, 1, n) : n \in 0..Len(t)})

(* compact() renames the new file over the old and swaps log and keydir.   *)
FinishCompaction ==
  /\ phase = "compacting"
  /\ DOMAIN moved = DOMAIN keydir
  /\ file' = temp
  /\ disk' = Renamed(disk, temp)
  /\ keydir' = moved
  /\ temp' = << >>
  /\ moved' = NoKeys
  /\ phase' = "open"

(***************************************************************************)
(* Opening and closing.                                                    *)
(***************************************************************************)
(* new(), or new_compact() when it finds enough garbage.                   *)
Open(compact) ==
  /\ phase = "closed"
  /\ file' = Truncated(file)
  /\ disk' = disk \cup {file'}
  /\ keydir' = BuildKeydir(file')
  /\ IF compact /\ WantsCompaction(file', keydir')
       THEN phase' = "compacting" /\ temp' = EmptyTemp(temp)
       ELSE phase' = "open" /\ UNCHANGED temp
  /\ moved' = NoKeys

Closed == phase' = "closed" /\ keydir' = NoKeys /\ moved' = NoKeys

(* The database is dropped, which flushes it.                              *)
Drop ==
  /\ phase = "open"
  /\ disk' = {file}
  /\ Closed
  /\ UNCHANGED <<file, temp>>

(* The process is killed; if it was writing an entry, part of it remains.  *)
Kill ==
  /\ phase # "closed"
  /\ \/ UNCHANGED <<file, temp, disk>>
     \/ /\ phase = "open"
        /\ file' = Append(file, Torn)
        /\ disk' = disk \cup {file'}
        /\ UNCHANGED temp
     \/ /\ phase = "compacting"
        /\ temp' = Append(temp, Torn)
        /\ UNCHANGED <<file, disk>>
  /\ Closed

(* The power fails, in the middle of anything: part of an entry that was   *)
(* not flushed may remain, and the temporary file may be cut anywhere.     *)
PowerFailure ==
  /\ \E f \in disk : file' \in {f, Append(Truncated(f), Torn)}
  /\ disk' = {file'}
  /\ \E n \in 0..Len(temp) : temp' = SubSeq(temp, 1, n)
  /\ Closed

Init ==
  /\ file = << >>
  /\ disk = {file}
  /\ temp = << >>
  /\ keydir = NoKeys
  /\ phase = "closed"
  /\ moved = NoKeys

Next ==
  \/ \E k \in Keys : Delete(k) \/ \E v \in Values : Set(k, v)
  \/ Flush
  \/ StartCompaction
  \/ MoveEntry
  \/ FinishCompaction
  \/ \E compact \in BOOLEAN : Open(compact)
  \/ Drop
  \/ Kill
  \/ PowerFailure

Spec == Init /\ [][Next]_vars

(***************************************************************************)
(* Properties.                                                             *)
(***************************************************************************)
(* The state is well formed; only the last entry of a file is ever torn,   *)
(* because build_keydir() cuts a torn one off before anything is appended. *)
TypeOK ==
  /\ \A f \in disk \cup {file, temp} :
       /\ \A i \in 1..(Len(f) - 1) : f[i] \in Entry
       /\ f # << >> => f[Len(f)] \in Entry \cup {Torn}
  /\ file \in disk
  /\ DOMAIN keydir \cup DOMAIN moved \subseteq Keys
  /\ phase \in {"closed", "open", "compacting"}

(* While the database is open, the keydir that set(), delete() and         *)
(* compact() maintain is the one that opening the file would build: every  *)
(* live key at its last entry, and no key that was deleted.                *)
KeydirExact ==
  phase # "closed" => keydir = BuildKeydir(file)

(* status() subtracts the live size it computes from the keydir from the   *)
(* file's length; the difference, unsigned in the code, is exactly the     *)
(* size of the entries that no key refers to.                              *)
GarbageExact ==
  phase = "open" =>
    LET dead == DOMAIN file \ {keydir[k] : k \in DOMAIN keydir}
    IN  Garbage(file, keydir) = MapThenSumSet(LAMBDA i : EntrySize(file[i]), dead)

(* What compact() swaps in has no garbage, whatever an attempt that was    *)
(* interrupted left in the temporary file.                                 *)
CompactionReclaims ==
  [][phase = "compacting" /\ phase' = "open" => Garbage(file, keydir)' = 0]_vars

(* The map that the engine holds, and the maps that a power failure may    *)
(* leave of it.                                                            *)
Data == IF phase = "closed" THEN Content(file) ELSE Read(file, keydir)

Fallback == {Content(f) : f \in disk}

(* The engine is a durable map: whenever it is killed, also in the middle  *)
(* of an entry or of a compaction, it comes back with what it held, and    *)
(* a power failure only takes back writes since the last flush().          *)
Map == INSTANCE KV WITH data <- Data, fallback <- Fallback

ImplementsKV == Map!Spec
=============================================================================
