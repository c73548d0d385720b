--------------------------------- MODULE KV ---------------------------------
(***************************************************************************)
(* What a storage engine promises (storage::Engine): an ordered map from   *)
(* keys to values whose writes are durable once flush() has returned.      *)
(* "Writes are only guaranteed durable after calling flush()": a power     *)
(* failure may undo writes, but the latest first, and none that were       *)
(* flushed.  The in-memory engine (storage::Memory) is this map itself.    *)
(***************************************************************************)
CONSTANTS Keys, Values

VARIABLES data,     \* the live keys with their values
          fallback  \* the contents that a power failure may leave

vars == <<data, fallback>>

Insert(k, v) == [x \in DOMAIN data \cup {k} |-> IF x = k THEN v ELSE data[x]]

Remove(k) == [x \in DOMAIN data \ {k} |-> data[x]]

Init == data = << >> /\ fallback = {data}

Store(d) == data' = d /\ fallback' = fallback \cup {d}

Set(k, v) == Store(Insert(k, v))

Delete(k) == Store(Remove(k))

Flush == fallback' = {data} /\ UNCHANGED data

(* A power failure: a content that was stored since the last flush remains. *)
PowerFailure == \E d \in fallback : data' = d /\ fallback' = {d}

Next ==
  \/ \E k \in Keys : Delete(k) \/ \E v \in Values : Set(k, v)
  \/ Flush
  \/ PowerFailure

Spec == Init /\ [][Next]_vars
=============================================================================
