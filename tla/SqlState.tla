------------------------------- MODULE SqlState -------------------------------
(***************************************************************************)
(* The replicated state machine of the SQL engine (State of                *)
(* src/sql/engine/raft.rs) on one node that crashes.  The log of the       *)
(* cluster grows; the node applies its entries in order, each as a series  *)
(* of writes to its engine of which the last records the index, and starts *)
(* again from the recorded index after a crash.  A crash may fall between  *)
(* any two writes.  The engine of the state machine is never flushed, so a *)
(* power failure may also take it back to any earlier content.             *)
(*                                                                         *)
(* "cluster" holds what a node that never crashes has after each entry.    *)
(***************************************************************************)
EXTENDS SqlKV

CONSTANTS Initial,    \* the engine that the log starts from
          Calls,      \* mutations inside a transaction, without their txn
          MaxLog,     \* bounds: entries, crashes, entries waiting
          MaxCrashes,
          MaxLag

ASSUME SqlStateAssumption == MaxLog \in Nat /\ MaxCrashes \in Nat /\ MaxLag \in Nat

VARIABLES log,      \* the committed mutations
          cluster,  \* cluster[i + 1] is the engine after entry i
          open,     \* states of the transactions that sessions have open
          db,       \* the engine of the node
          entry,    \* the mutation the node is applying
          ops,      \* the writes it makes
          done,     \* how many of them are made
          halted,   \* apply() returned an internal error
          spoiled,  \* a crash fell where a replay does not repair
          earlier,  \* contents a power failure may go back to
          crashes

vars == <<log, cluster, open, db, entry, ops, done, halted, spoiled, earlier, crashes>>

(***************************************************************************)
(* The sessions of the cluster.                                            *)
(***************************************************************************)
Log(m) ==
  /\ Len(log) < MaxLog
  /\ Len(log) - AppliedIndex(db) < MaxLag
  /\ log' = Append(log, m)
  /\ cluster' = Append(cluster, Apply(Last(cluster), Len(log) + 1, m).db)
  /\ UNCHANGED <<db, entry, ops, done, halted, spoiled, earlier, crashes>>

LogNoop == Log([kind |-> "noop"]) /\ UNCHANGED open

LogBegin == Log([kind |-> "begin"]) /\ open' = open \cup {NewTxn(Last(cluster))}

LogEnd ==
  \E txn \in open, kind \in {"commit", "rollback"} :
    Log([kind |-> kind, txn |-> txn]) /\ open' = open \ {txn}

(* The executors update rows that their transaction has just read.         *)
LogCall ==
  \E txn \in open, call \in Calls :
    /\ call.kind = "update" => ReadRow(Last(cluster), txn, call.table, call.id) # None
    /\ Log(call @@ [txn |-> txn])
    /\ UNCHANGED open

(***************************************************************************)
(* The node.                                                               *)
(***************************************************************************)
Idle == done = Len(ops)

StartApply ==
  /\ Idle /\ ~halted
  /\ AppliedIndex(db) < Len(log)
  /\ entry' = log[AppliedIndex(db) + 1]
  /\ \E c \in {Apply(db, AppliedIndex(db) + 1, log[AppliedIndex(db) + 1])} :
         IF c.res = "internal"
         THEN halted' = TRUE /\ UNCHANGED <<ops, done>>
         ELSE ops' = c.ops /\ done' = 0 /\ UNCHANGED halted
  /\ UNCHANGED <<log, cluster, open, db, spoiled, earlier, crashes>>

(* A crash after n writes leaves an entry that a replay will not complete: *)
(* begin() has taken a version, a transaction has ended, or a row is       *)
(* created that is not yet in all its indexes.                             *)
CreatesRow(op) == op.key[1] = "version" /\ op.key[2][1] = "row" /\ op.value # None

Spoils(n) ==
  /\ n \in 1 .. Len(ops) - 1
  /\ CASE entry.kind = "begin" -> TRUE
       [] entry.kind \in {"commit", "rollback"} -> n = Len(ops) - 1
       [] OTHER -> /\ \E i \in 1 .. n : CreatesRow(ops[i])
                   /\ n < Len(ops) - 1

WriteNext ==
  /\ done < Len(ops)
  /\ db' = Write(db, ops[done + 1])
  /\ done' = done + 1
  /\ earlier' = earlier \cup {[db |-> db', spoiled |-> spoiled \/ Spoils(done + 1)]}
  /\ UNCHANGED <<log, cluster, open, entry, ops, halted, spoiled, crashes>>

Restart ==
  /\ crashes < MaxCrashes
  /\ crashes' = crashes + 1
  /\ ops' = << >> /\ done' = 0 /\ halted' = FALSE
  /\ UNCHANGED <<log, cluster, open, entry>>

(* The process is killed and started again: State::new().                  *)
Crash ==
  /\ Restart
  /\ spoiled' = (spoiled \/ Spoils(done))
  /\ UNCHANGED <<db, earlier>>

(* The power fails, and the engine comes back with an earlier content.     *)
PowerFailure ==
  /\ Restart
  /\ \E e \in earlier :
       db' = e.db /\ spoiled' = e.spoiled /\ earlier' = {e}

Init ==
  /\ log = << >> /\ cluster = <<Initial>> /\ open = {}
  /\ db = Initial /\ entry = [kind |-> "noop"] /\ ops = << >> /\ done = 0
  /\ halted = FALSE /\ spoiled = FALSE /\ crashes = 0
  /\ earlier = {[db |-> Initial, spoiled |-> FALSE]}

Next ==
  \/ LogNoop \/ LogBegin \/ LogEnd \/ LogCall
  \/ StartApply \/ WriteNext \/ Crash \/ PowerFailure

Spec == Init /\ [][Next]_vars

(***************************************************************************)
(* Properties.                                                             *)
(***************************************************************************)
(* A node that crashed, and applied again what it had not recorded as      *)
(* applied, has at the end of every entry exactly the engine of a node     *)
(* that never crashed: apply() may run twice on part of an entry and still *)
(* leaves the same records.  This holds wherever the crash falls, except   *)
(* in the three windows of Spoils.                                         *)
ReplayExact ==
  ops # << >> /\ Idle /\ ~spoiled => db = cluster[AppliedIndex(db) + 1]

(* apply() halts the node with an internal error, as it does when a        *)
(* transaction it resumes is not active, only if a crash fell in a window. *)
HaltsOnlySpoiled == halted => spoiled

(* commit() and rollback() remove the active record last: wherever a crash *)
(* falls, a transaction that is not active has no write record left, and   *)
(* if it rolled back, no version of it is left for a reader to see.        *)
EndIsAtomic ==
  \A v \in 1 .. NextVersion(db) : v \notin Active(db) =>
    /\ Writes(db, v) = {}
    /\ (\E i \in DOMAIN log : log[i].kind = "rollback" /\ log[i].txn.version = v)
         => ~\E k \in DOMAIN db : k[1] = "version" /\ k[3] = v

=============================================================================
