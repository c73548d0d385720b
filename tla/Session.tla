------------------------------- MODULE Session -------------------------------
(***************************************************************************)
(* SQL sessions (src/sql/engine/mod.rs), the statements they execute       *)
(* through Raft (src/sql/engine/raft.rs, src/sql/execution/), the server's *)
(* connections (src/server.rs) and the client library with its retries     *)
(* (src/client.rs), on a replicated state machine seen as one database.    *)
(*                                                                         *)
(* Every request of a statement goes through Raft on its own, so that      *)
(* statements of different sessions interleave between requests.  A        *)
(* request may be answered with Abort, when leadership changes; a mutation *)
(* that was aborted may still be applied later, or never, but not after a  *)
(* later mutation of the same session was answered.  Reads of a            *)
(* transaction see its snapshot and its own writes only, so the several    *)
(* reads a plan or an executor makes in a row are one step.                *)
(*                                                                         *)
(* A client runs one script of statements: inside Client::with_retry(), or *)
(* by execute() alone, when it goes on after an error.                     *)
(***************************************************************************)
EXTENDS SqlKV

CONSTANTS Sessions,
          Workloads,      \* the scripts the clients may run, and whether with_retry()
          Initial,        \* the database at the start
          Counter,        \* the row and column that increments are counted in
          MaxRetries,     \* MAX_RETRIES of with_retry()
          MaxAborts,      \* bounds: aborted requests, lost connections
          MaxDisconnects

ASSUME SessionAssumption ==
  MaxRetries \in Nat /\ MaxAborts \in Nat /\ MaxDisconnects \in Nat

VARIABLES db,       \* the state machine
          session,  \* Session of each connection, and the statement it executes
          client,   \* the client of each connection
          late,     \* aborted mutations of a session that may still be applied
          aborted,  \* versions of transactions that had a request aborted
          failed,   \* history: versions of transactions that a mutation failed half done
          aborts, disconnects,
          halted    \* a mutation met an internal error: the nodes stop

vars == <<db, session, client, late, aborted, failed, aborts, disconnects, halted>>

(* The transaction a statement runs in: the session's, or its own.         *)
Current(s) == IF session[s].txn # None THEN session[s].txn ELSE session[s].implicit

(***************************************************************************)
(* Raft requests (Client of sql/engine/raft.rs), answered with res.        *)
(***************************************************************************)
TxnOf(m) == IF m.kind = "begin" THEN {} ELSE {m.txn.version}

AbortRequest(s, versions) ==
  /\ aborts < MaxAborts
  /\ aborts' = aborts + 1
  /\ aborted' = aborted \cup versions

(* A mutation that fails leaves the writes it has made in its transaction. *)
HalfDone(m) == LET c == Mutate(db, m)
               IN  IF c.res # "ok" /\ c.ops # << >> THEN TxnOf(m) ELSE {}

Answers(m) == {Mutate(db, m).res, "abort"}

RaftMutate(s, m, res) ==
  /\ ~halted
  /\ \/ /\ res # "abort"
        /\ db' = Mutate(db, m).db
        /\ late' = [late EXCEPT ![s] = << >>]
        /\ halted' = (res = "internal")
        /\ failed' = failed \cup HalfDone(m)
        /\ UNCHANGED <<aborted, aborts>>
     \/ /\ res = "abort"
        /\ AbortRequest(s, TxnOf(m))
        /\ late' = [late EXCEPT ![s] = Append(@, m)]
        /\ UNCHANGED <<db, failed, halted>>

RaftQuery(s, res) ==
  /\ ~halted
  /\ \/ res # "abort" /\ UNCHANGED <<aborted, aborts>>
     \/ res = "abort" /\ AbortRequest(s, {})
  /\ UNCHANGED <<db, late, failed, halted>>

(* A mutation whose request was aborted is applied after all; the ones     *)
(* before it, if they were not, never will be.                             *)
ApplyLate(s) ==
  /\ ~halted
  /\ \E i \in DOMAIN late[s] : \E c \in {Mutate(db, late[s][i])} :
       /\ db' = c.db /\ halted' = (c.res = "internal")
       /\ late' = [late EXCEPT ![s] = SubSeq(@, i + 1, Len(@))]
       /\ failed' = failed \cup HalfDone(late[s][i])
  /\ UNCHANGED <<session, client, aborted, aborts, disconnects>>

(***************************************************************************)
(* Client::with_retry() and Client::execute().                             *)
(***************************************************************************)
(* The statement that the client of an idle session sends next.            *)
Statement(s) ==
  IF client[s].mode = "run" THEN client[s].script[client[s].pc] ELSE [kind |-> "rollback"]

(* A client that forgets its transaction when a COMMIT fails.              *)
TxnForgotten(c, stmt, res) ==
  CASE res = "ok" /\ stmt.kind = "begin"                    -> TRUE
    [] stmt.kind \in {"commit", "rollback"}                 -> FALSE
    [] OTHER                                                -> c.txn

(* What execute() makes of a response: the client has a transaction from a *)
(* successful BEGIN to a successful COMMIT or ROLLBACK.                    *)
TxnAfter(c, stmt, res) ==
  CASE res = "ok" /\ stmt.kind = "begin"                    -> TRUE
    [] res = "ok" /\ stmt.kind \in {"commit", "rollback"}   -> FALSE
    [] OTHER                                                -> c.txn

Retries(c, res) == res \in {"serialization", "abort"} /\ c.retries < MaxRetries

Retry(c) == [c EXCEPT !.mode = "run", !.pc = 1, !.retries = @ + 1]
Return(c, res) == [c EXCEPT !.result = res]
GoOn(c, res) == LET d == [c EXCEPT !.pc = @ + 1]
                IN  IF c.pc = Len(c.script) THEN Return(d, res) ELSE d

(* The next state of a client that gets a response.                        *)
Respond(c, stmt, res) ==
  LET d == [c EXCEPT !.txn = TxnAfter(c, stmt, res)]
  IN  CASE c.mode = "run" /\ (res = "ok" \/ ~c.retrying) -> GoOn(d, res)
        [] c.mode = "run" /\ c.retrying /\ Retries(c, res) ->
             IF d.txn THEN [d EXCEPT !.mode = "retry"] ELSE Retry(d)
        [] c.mode = "run" /\ c.retrying /\ res # "ok" /\ ~Retries(c, res) ->
             IF d.txn THEN [d EXCEPT !.mode = "fail", !.error = res] ELSE Return(d, res)
        [] c.mode = "retry" -> IF res = "ok" THEN Retry(d) ELSE Return(d, res)
        [] c.mode = "fail"  -> Return(d, c.error)

(***************************************************************************)
(* Session::execute(), as sql_session() calls it for each request.         *)
(***************************************************************************)
At(s, phase) == session[s].phase = phase

Starts(s, kinds) ==
  At(s, "idle") /\ ~client[s].gone /\ client[s].result = "none" /\ Statement(s).kind \in kinds

NotExecuting == [kind |-> "none"]

(* The response to a statement; a client that is gone does not get it.     *)
Reply(s, stmt, txn, res) ==
  /\ session' = [session EXCEPT ![s] = [txn |-> txn, implicit |-> None, phase |-> "idle",
                                        stmt |-> NotExecuting, todo |-> << >>, res |-> "ok"]]
  /\ client' = IF client[s].gone THEN client
               ELSE [client EXCEPT ![s] = Respond(@, stmt, res)]

(* The answers to begin_read_only(), and the mutation of begin().          *)
BeginReadOnly(as_of) == {IF AsOfExists(db, as_of) THEN "ok" ELSE "value", "abort"}
BeginReadWrite == [kind |-> "begin"]

BeginStatement(s) ==
  LET stmt == Statement(s)
      txn  == IF stmt.read_only THEN ReadOnlyTxn(db, stmt.as_of) ELSE NewTxn(db)
      Began(res) == Reply(s, stmt, IF res = "ok" THEN txn ELSE None, res)
  IN  /\ Starts(s, {"begin"})
      /\ \/ /\ session[s].txn # None \/ (~stmt.read_only /\ stmt.as_of # None)
            /\ Reply(s, stmt, session[s].txn, "value")
            /\ UNCHANGED <<db, late, aborted, aborts, failed, halted>>
         \/ /\ session[s].txn = None /\ stmt.read_only
            /\ \E res \in BeginReadOnly(stmt.as_of) : RaftQuery(s, res) /\ Began(res)
         \/ /\ session[s].txn = None /\ ~stmt.read_only /\ stmt.as_of = None
            /\ \E res \in Answers(BeginReadWrite) :
                 RaftMutate(s, BeginReadWrite, res) /\ Began(res)
      /\ UNCHANGED disconnects

(* The session gives up its transaction before it knows how the request    *)
(* to end it ends.                                                         *)
KeepTxn(s) == session[s].txn
TakeTxn(s) == None

EndStatement(s) ==
  LET stmt == Statement(s)
      txn  == session[s].txn
      end  == [kind |-> stmt.kind, txn |-> txn]
      Ended(res) == Reply(s, stmt, TakeTxn(s), res)
  IN  /\ Starts(s, {"commit", "rollback"})
      /\ \/ /\ txn = None
            /\ Reply(s, stmt, None, "value")
            /\ UNCHANGED <<db, late, aborted, aborts, failed, halted>>
         \/ /\ txn # None /\ txn.read_only
            /\ Ended("ok")
            /\ UNCHANGED <<db, late, aborted, aborts, failed, halted>>
         \/ /\ txn # None /\ ~txn.read_only
            /\ \E res \in Answers(end) : RaftMutate(s, end, res) /\ Ended(res)
      /\ UNCHANGED disconnects

(* Any other statement runs in the session's transaction, or begins one.   *)
OtherStatement(s) ==
  LET stmt == Statement(s)
      Runs(txn) == /\ session' = [session EXCEPT ![s].phase = "plan", ![s].stmt = stmt,
                                                 ![s].implicit = txn]
                   /\ UNCHANGED client
      Began(txn, res) == IF res = "ok" THEN Runs(txn) ELSE Reply(s, stmt, None, res)
      queries == {"select", "explain"}
  IN  /\ Starts(s, queries \cup {"insert", "update", "delete", "create_table", "drop_table"})
      /\ \/ /\ session[s].txn # None
            /\ Runs(None)
            /\ UNCHANGED <<db, late, aborted, aborts, failed, halted>>
         \/ /\ session[s].txn = None /\ stmt.kind \in queries
            /\ \E res \in BeginReadOnly(None) :
                 RaftQuery(s, res) /\ Began(ReadOnlyTxn(db, None), res)
         \/ /\ session[s].txn = None /\ stmt.kind \notin queries
            /\ \E res \in Answers(BeginReadWrite) :
                 RaftMutate(s, BeginReadWrite, res) /\ Began(NewTxn(db), res)
      /\ UNCHANGED disconnects

(* A statement that ran in its own read-write transaction has to end it;   *)
(* a read-only one ends by itself.                                         *)
Executed(s, res) ==
  IF session[s].txn = None /\ ~session[s].implicit.read_only
  THEN /\ session' = [session EXCEPT ![s].phase = "finish", ![s].res = res, ![s].todo = << >>]
       /\ UNCHANGED client
  ELSE Reply(s, session[s].stmt, session[s].txn, res)

(* Plan::build() and optimize() read the schema.  Their errors leave       *)
(* execute() at once: a transaction begun for the statement stays behind.  *)
Plan(s) ==
  LET stmt  == session[s].stmt
      reads == stmt.kind \in {"select", "explain", "update", "delete"}
      found == ReadTable(db, Current(s), stmt.table) # None
      Planned(res) ==
        IF res # "ok" \/ stmt.kind = "explain" THEN Reply(s, stmt, session[s].txn, res)
        ELSE session' = [session EXCEPT ![s].phase = "read"] /\ UNCHANGED client
  IN  /\ At(s, "plan")
      /\ IF reads
         THEN \E res \in {IF found THEN "ok" ELSE "value", "abort"} :
                RaftQuery(s, res) /\ Planned(res)
         ELSE Planned("ok") /\ UNCHANGED <<db, late, aborted, aborts, failed, halted>>
      /\ UNCHANGED disconnects

(***************************************************************************)
(* The executors (sql/execution/): what they read, and the mutations they  *)
(* then make, one by one.                                                  *)
(***************************************************************************)
(* Insert::pad_row(): None when a column without a default is missing.     *)
PadRow(table, row) ==
  LET missing == {i \in DOMAIN table.columns : i > Len(row)}
  IN  IF \E i \in missing : table.columns[i].default = None THEN None
      ELSE [i \in 1 .. Max({Len(row), Len(table.columns)}) |->
              IF i <= Len(row) THEN row[i] ELSE table.columns[i].default]

(* The SET clause of an UPDATE: a new value, or an addition to the old one. *)
Assign(stmt, row) ==
  [row EXCEPT ![stmt.field] =
     IF stmt.add THEN Integer(@[2] + stmt.value) ELSE Integer(stmt.value)]

Todo(d, txn, stmt) ==
  LET table == ReadTable(d, txn, stmt.table)
      ids   == Listed({RowKey(table, row) : row \in Rows(d, txn, stmt.table)} \cap stmt.ids)
      Old(i) == ReadRow(d, txn, stmt.table, ids[i])
  IN  CASE stmt.kind = "insert" ->
             [i \in DOMAIN stmt.rows |->
                [kind |-> "create", txn |-> txn, table |-> stmt.table,
                 row |-> PadRow(table, stmt.rows[i])]]
        [] stmt.kind = "update" ->
             [i \in DOMAIN ids |->
                [kind |-> "update", txn |-> txn, table |-> stmt.table, id |-> ids[i],
                 row |-> Assign(stmt, Old(i))]]
        [] stmt.kind = "delete" ->
             [i \in DOMAIN ids |->
                [kind |-> "delete", txn |-> txn, table |-> stmt.table, id |-> ids[i]]]
        [] stmt.kind = "create_table" ->
             <<[kind |-> "create_table", txn |-> txn, schema |-> stmt.schema]>>
        [] stmt.kind = "drop_table" ->
             IF stmt.if_exists /\ table = None THEN << >>
             ELSE <<[kind |-> "delete_table", txn |-> txn, table |-> stmt.table]>>
        [] OTHER -> << >>

(* The executor goes on to its next mutation, or is done.                  *)
Proceed(s, todo) ==
  IF todo = << >> THEN Executed(s, "ok")
  ELSE session' = [session EXCEPT ![s].phase = "work", ![s].todo = todo] /\ UNCHANGED client

Read(s) ==
  LET stmt  == session[s].stmt
      needs == stmt.kind \notin {"create_table", "drop_table"}
      found == ReadTable(db, Current(s), stmt.table) # None
      Got(res) == IF res # "ok" THEN Executed(s, res)
                  ELSE \E todo \in {Todo(db, Current(s), stmt)} : Proceed(s, todo)
  IN  /\ At(s, "read")
      /\ \E res \in {IF needs /\ ~found THEN "value" ELSE "ok", "abort"} :
           RaftQuery(s, res) /\ Got(res)
      /\ UNCHANGED disconnects

Work(s) ==
  LET todo == session[s].todo
      unpadded == Head(todo).kind = "create" /\ Head(todo).row = None
      Did(res) == IF res # "ok" THEN Executed(s, res) ELSE Proceed(s, Tail(todo))
  IN  /\ At(s, "work")
      /\ IF unpadded
         THEN Executed(s, "value") /\ UNCHANGED <<db, late, aborted, aborts, failed, halted>>
         ELSE \E res \in Answers(Head(todo)) : RaftMutate(s, Head(todo), res) /\ Did(res)
      /\ UNCHANGED disconnects

(* A statement that fails and leaves its transaction open.                 *)
FinishWithoutRollback(s) ==
  LET commit == [kind |-> "commit", txn |-> session[s].implicit]
  IN  /\ At(s, "finish")
      /\ \/ /\ session[s].res # "ok"
            /\ Reply(s, session[s].stmt, None, session[s].res)
            /\ UNCHANGED <<db, late, aborted, aborts, failed, halted>>
         \/ /\ session[s].res = "ok"
            /\ \E r \in Answers(commit) :
                 RaftMutate(s, commit, r) /\ Reply(s, session[s].stmt, None, r)
      /\ UNCHANGED disconnects

(* The transaction of a single statement commits, or rolls back after an   *)
(* error.                                                                  *)
Finish(s) ==
  LET res  == session[s].res
      end  == [kind |-> IF res = "ok" THEN "commit" ELSE "rollback", txn |-> session[s].implicit]
      Ended(r) == Reply(s, session[s].stmt, None, IF r = "ok" THEN res ELSE r)
  IN  /\ At(s, "finish")
      /\ \E r \in Answers(end) : RaftMutate(s, end, r) /\ Ended(r)
      /\ UNCHANGED disconnects

(* The connection is lost.  sql_session() ends when it next reads, and     *)
(* dropping the session executes ROLLBACK.                                 *)
Disconnect(s) ==
  /\ disconnects < MaxDisconnects
  /\ ~client[s].gone /\ client[s].result = "none"
  /\ disconnects' = disconnects + 1
  /\ client' = [client EXCEPT ![s].gone = TRUE]
  /\ UNCHANGED <<db, session, late, aborted, aborts, failed, halted>>

DropSession(s) ==
  LET txn    == session[s].txn
      writes == IF txn = None THEN FALSE ELSE ~txn.read_only
      end    == [kind |-> "rollback", txn |-> txn]
  IN  /\ client[s].gone /\ At(s, "idle")
      /\ session' = [session EXCEPT ![s].phase = "dropped", ![s].txn = TakeTxn(s)]
      /\ IF writes
         THEN \E res \in Answers(end) : RaftMutate(s, end, res)
         ELSE UNCHANGED <<db, late, aborted, aborts, failed, halted>>
      /\ UNCHANGED <<client, disconnects>>

Finished(s) == At(s, "dropped") \/ client[s].result # "none"

Terminating == (\A s \in Sessions : Finished(s)) /\ UNCHANGED vars

Init ==
  /\ db = Initial
  /\ session = [s \in Sessions |->
       [txn |-> None, implicit |-> None, phase |-> "idle", todo |-> << >>, res |-> "ok",
        stmt |-> NotExecuting]]
  /\ \E f \in Workloads :
       client = [s \in Sessions |->
         [script |-> f[s].script, retrying |-> f[s].retrying, pc |-> 1, txn |-> FALSE,
          retries |-> 0, mode |-> "run",
          error |-> "none", result |-> "none", gone |-> FALSE]]
  /\ late = [s \in Sessions |-> << >>]
  /\ aborted = {} /\ failed = {} /\ aborts = 0 /\ disconnects = 0 /\ halted = FALSE

Step(s) ==
  \/ Disconnect(s) \/ DropSession(s) \/ ApplyLate(s)
  \/ BeginStatement(s) \/ EndStatement(s) \/ OtherStatement(s)
  \/ Plan(s) \/ Read(s) \/ Work(s) \/ Finish(s)

Next == (\E s \in Sessions : Step(s)) \/ Terminating

Spec == Init /\ [][Next]_vars

(***************************************************************************)
(* Properties.                                                             *)
(***************************************************************************)
(* No mutation resumes a transaction that has ended: apply() would return  *)
(* an internal error and every node of the cluster would halt.             *)
NeverHalts == ~halted

(* The state that a read-only transaction begun now sees, which is what is *)
(* committed.                                                              *)
Committed == ReadOnlyTxn(db, None)

(* Nobody has committed a transaction after a mutation of it failed half   *)
(* done.  An UPDATE moves its index entries before it validates the row,   *)
(* an INSERT writes the row before an index entry can conflict, and what   *)
(* is written stays in the transaction: COMMIT after the error, which      *)
(* docs/sql.md leaves to the client, commits it.                           *)
HasCommitted(v) ==
  v \notin Active(db) /\ \E k \in DOMAIN db : k[1] = "version" /\ k[3] = v
NoHalvesCommitted == \A v \in failed : ~HasCommitted(v)

(* The indexes hold the primary keys of exactly the rows that have the     *)
(* value, though every write of a row and of its index entries is a write  *)
(* of its own, moved before the row is validated, and a statement may fail *)
(* or abort between them: rolled back, nothing of it stays.  A client that *)
(* commits after such a failure does spoil them.                           *)
IndexExact == NoHalvesCommitted =>
  \A table \in Tables(db, Committed) :
    LET rows == Rows(db, Committed, table.name)
    IN  \A i \in DOMAIN table.columns : table.columns[i].index =>
          LET col  == table.columns[i].name
              keys == {k[4] : k \in Keys(db, Committed, "index", <<table.name, col>>)}
          IN  \A v \in keys \cup {row[i] : row \in rows} :
                IndexLoad(db, Committed, table.name, col, v)
                  = {RowKey(table, row) : row \in {r \in rows : r[i] = v}}

(* A unique column that is indexed has no value twice, however sessions    *)
(* interleave: two transactions that add a value write its index entry, so *)
(* that one fails.  It must not be committed all the same, since its row   *)
(* is already written.                                                     *)
UniqueWhenIndexed == NoHalvesCommitted =>
  \A table \in Tables(db, Committed) :
    \A i \in DOMAIN table.columns : table.columns[i].unique /\ table.columns[i].index =>
      \A r1, r2 \in Rows(db, Committed, table.name) :
        r1[i] = r2[i] /\ r1[i] # Null => r1 = r2

(* References and unique values hold in what a transaction sees.           *)
Consistent(d, txn) ==
  \A table \in Tables(d, txn) : \A i \in DOMAIN table.columns :
    LET col  == table.columns[i]
        rows == Rows(d, txn, table.name)
    IN  /\ col.references # None => \A row \in rows :
             row[i] = Null \/ ReadRow(d, txn, col.references, row[i]) # None
        /\ col.unique => \A r1, r2 \in rows : r1[i] = r2[i] /\ r1[i] # Null => r1 = r2

(* A transaction whose snapshot satisfies the references and the unique    *)
(* columns sees them satisfied after every one of its writes, whatever     *)
(* else is written at the same time, also when a write of it failed.       *)
ViewsConsistent ==
  \A s \in Sessions :
    LET txn == Current(s)
    IN  txn # None /\ ~txn.read_only
          => (Consistent(db, Txn(txn.version, TRUE, txn.active)) => Consistent(db, txn))

(* Client s runs increments of the counter, in a transaction or not.       *)
Increments(s) == \E i \in DOMAIN client[s].script :
                   client[s].script[i].kind = "update" /\ client[s].script[i].add
Transactional(s) == client[s].script[1].kind = "begin"

(* An increment that with_retry() reports done was done, and none is lost  *)
(* to another client's; one in a transaction is done at most once however  *)
(* often it is retried, and one on its own at most once for each try.      *)
IncrementsCounted ==
  LET count == ReadRow(db, Committed, Counter.table, Counter.id)[Counter.field][2]
      clients == {s \in Sessions : Increments(s)}
      done == {s \in clients : client[s].result = "ok"}
  IN  /\ Counter.start + Cardinality(done) <= count
      /\ count <= Counter.start + MapThenSumSet(
           LAMBDA s : IF Transactional(s) THEN 1 ELSE 1 + client[s].retries, clients)

(* A transaction that is active and has written is one that a session is   *)
(* running, unless a request of it was aborted: the transactions that      *)
(* execute() leaves behind on a planning error lock nothing.               *)
OrphansHarmless ==
  \A v \in Active(db) :
    Writes(db, v) # {} =>
      v \in aborted \/ \E s \in Sessions : Current(s) # None /\ Current(s).version = v

=============================================================================
