# A verification project for radb

radb is a distributed SQL database in Rust. Each node runs a Raft consensus
module over a replicated log, a SQL state machine that the log drives, an MVCC
transaction layer below it and a log-structured key/value engine at the bottom;
sessions parse, plan, optimize and execute statements on top. This directory
models all of these layers, checks small instances with TLC and proves the
properties of the transaction layer and of the storage engine for all instances
with TLAPS.

Line numbers refer to the files under `src/src/` of the repository.

## 1. The system and its parts

```
 client.rs ── TCP ── server.rs: sql_session ── sql/engine/mod.rs (Session)
                         │                        │ parser, planner, executors
                         │                     sql/engine/raft.rs (Client)
                         │                        │ Request::{Read,Write,Status}
 peers ───── TCP ──── server.rs: raft_route ── raft/node/{follower,candidate,leader}.rs
                                                  │                     │
                                               raft/log.rs      raft/state.rs (trait)
                                                  │                     │ apply, read
                                                  │             sql/engine/raft.rs (State)
                                                  │                     │
                                                  │             sql/engine/kv.rs
                                                  │                     │
                                                  │             storage/mvcc.rs
                                                  │                     │
                                               storage/engine.rs: bitcask.rs, memory.rs
```

| Part | Source | State it keeps | Modelled in |
|---|---|---|---|
| Raft roles, server routing | `raft/node/*.rs`, `raft/message.rs`, `server.rs` | role, term, votes, progress, pending requests, links | `Raft` |
| Raft log | `raft/log.rs` | entries, term and vote, commit index | `RaftLog`, `Raft` |
| MVCC | `storage/mvcc.rs` | versions, active set, snapshots, write records | `MVCC`, `SnapshotIsolation`; as engine writes in `SqlKV`; scans in `Scan` |
| Storage engines | `storage/engine.rs`, `bitcask.rs`, `memory.rs` | log file, key directory | `KV`, `BitCask` |
| Key encoding | `encoding/keycode.rs` | none | `KeyCode`, used by `Scan` |
| SQL rows, indexes, catalog | `sql/engine/kv.rs`, `sql/schema.rs` | rows, index entries, tables | `SqlKV` |
| SQL state machine | `sql/engine/raft.rs` | the engine and the applied index | `SqlState` (crashes), `Session` (requests) |
| Sessions, server connections, client | `sql/engine/mod.rs`, `server.rs`, `client.rs` | the open transaction, retries | `Session` |
| Mutations | `sql/execution/mutation.rs`, `schema.rs` | none | `Session` |
| Values, expressions | `sql/types/*.rs` | none | `Types`, `Expression` |
| Parser, planner, optimizer, executors | `sql/parser`, `sql/plan`, `sql/execution` | none across statements | `Parser`, `Planner`, `Optimizer`, `Execution`, composed in `Query` |

How the modules build on each other: `Raft` extends `RaftLog`. `MVCC` is shown to
implement `SnapshotIsolation`, `BitCask` to implement `KV`. `SqlKV` takes the SQL
operations down to the writes of the storage engine, through MVCC; `SqlState`
runs it under a replicated log with crashes, `Session` under concurrent clients.
`Scan` extends `KeyCode`. `Query` composes `Parser`, `Planner`, `Optimizer` and
`Execution`, all on `Expression` and `Types`, and compares them with `Language`,
which is the SQL reference of the repository (`src/docs/sql.md`) and no code.

The layers meet at interfaces that are checked on both sides: what `Raft`
promises its state machine (every node applies the same commands in order, and a
request is answered, aborted, or both aborted and applied) is what `SqlState` and
`Session` assume; what `KV` promises after a power failure (a content the store
had since the last flush) is the `earlier` of `SqlState`; and that reads and
writes of a transaction are snapshot isolated, proved for `MVCC`, is why `Session`
may take the reads of one statement as one step.

`PROJECT.json` lists every part with its status, every definition with the lines
it models, and every hazard with the line at which it bites.

## 2. Raft (`RaftLog`, `Raft`, `MCRaft`)

### State

A node is driven by a single thread, `raft_route`, which takes a tick, a peer
message or a client request and passes it through `step()`/`tick()`, then sends
whatever the node emitted. One such pass is one action. The three role structs
become functions on nodes; the fields of a role that is left are reset, as Rust
drops the struct.

| Variable | Code |
|---|---|
| `role`, `leader`, `forwarded`, `votes` | `Node`, `Follower.leader`, `Follower.forwarded`, `Candidate.votes` |
| `progress`, `writes`, `reads`, `read_seq` | the fields of `Leader` |
| `term`, `voted_for`, `log`, `commit_index` | `Log`: the persisted term and vote, entries, commit index |
| `applied_index` | `State::get_applied_index()` |
| `net[i][j]` | `node_tx`, the peer channel (`RAFT_PEER_CHANNEL_CAPACITY`) and the TCP link from i to j, as one FIFO |
| `client[id]` | the response channel of a request in `raft_route`, and what its client has been told |
| `faults`, `ballots`; `floor`, `settled` of a client | history only: faults so far and still allowed, every vote cast; what had been acknowledged when a read was submitted, and whether the leader that served it had committed in its term |

A request ID is a model value, and a write's command is its ID: no property
depends on what is written. A log entry keeps its term. Timers are abstracted to
"may fire": an election timeout can come at any time; ticks that do not reach a
timeout change nothing else and are left out.

### Actions

| Action | Code |
|---|---|
| `Campaign` | `tick()` past the election timeout in a follower (`into_candidate`, which aborts forwarded requests and applies what is committed) or a candidate |
| `HandleHeartbeat`, `HandleAppend`, `HandleCampaign` | follower `step()`; also a candidate or leader that first becomes a follower in the message's term, with the aborts that implies |
| `CollectVote`, `WinElection` | candidate `step()`, `CampaignResponse`; `into_leader` with its heartbeat and noop |
| `Heartbeat` | leader `tick()` |
| `HandleHeartbeatResponse`, `HandleAppendAccepted`, `HandleAppendRejected` | leader `step()`, with `maybe_read`, `maybe_commit_and_apply` and `send_log` |
| `ClientWrite`, `ClientRead`, `ClientStatus`, `AbortRequest`, `ForwardRequest`, `HandleClientResponse` | the `ClientRequest` and `ClientResponse` arms of the three roles, for local and forwarded requests |
| `IgnoreMessage` | messages of past terms, votes that come too late, rival campaigns |
| `Panic` | the asserts, panics and internal errors of the three `step()`s: the node halts |
| `Restart` | the process stops at any point and `Node::new()` runs on the stored log |
| `LoseMessage`, `ReorderMessages` | a message lost with its connection; a reconnect, after which two receiving threads race |

A message sent into a full link is dropped, as `try_send` does. On a restart the
log is intact, since it is flushed on every append (`sync = true`); the state
machine may have fallen back to any earlier applied index, since its engine is
not.

### Runs

| Run | Instance | Checks |
|---|---|---|
| `election` | 4 nodes, 2 rivals, term 1, capacity 2, 6 messages in flight, a status request; one message lost or overtaken; ~130 000 states | `ElectionSafety` |
| `replication` | 3 nodes from two starting points; 4 messages in flight, capacity 2, a write and a read; ~190 000 states | `OneVotePerTerm`, `LogMatching`, `LeaderCompleteness`, `LeaderCaughtUp`, `CommittedLogsAgree`, `CommittedPrefixStable`, `AcknowledgedWritesDurable`, `WaitingRequestTracked`, `SettledReadsLinearizable`, `NoPanic` |
| `liveness` | 2 nodes, unconstrained, capacity 8, 2 terms, one write and one read; ~24 000 states | `EveryRequestAnswered`, `ProposedIsCommitted` |
| `stale_read` | 3 nodes, established, a rival | `LinearizableReads` is violated |
| `reordered_append` | 2 nodes, two writes, one reordering | `AcknowledgedWritesDurable` is violated |

Why these bounds. Four nodes are the smallest cluster in which a vote can arrive
that is not yet a quorum, and two rivals could win with half the votes each; with
six messages in flight one rival wins, with six messages sent, while a
vote for the other is counted. `liveness` has the smallest cluster of an even size, in which
nothing is committed before both nodes have it. The interesting log states need two leaders and
an entry that one of them never replicated; reaching them from an empty cluster
takes some twenty steps, so `replication` starts there as well (`Diverged` in
`MCRaft` says which steps lead to it): the two nodes that are behind campaign
against each other from there, and one node may restart (in the place of a message
in flight). Its other starting point
is an established leader that serves a write and a read while another takes
over (`Established`), with channels of two messages, so that full ones drop appends and
responses routinely. `VoterSymmetry` permutes only nodes that neither campaign nor
have clients. `Backlog` stops a leader from sending heartbeats into its own
backlog, which only repeats messages. All bounds are CONSTANTS; those on the
environment alone are in `MCRaft` and `MCReplication`, in their constraints.

Deadlock is not checked: once the bounds on terms and requests are used up, a
quiet cluster without a leader has nothing to do.

### Fairness

`FairSpec` assumes that a message that has arrived is stepped (`raft_route` loops
forever and the connection threads deliver), that a forwarded request is, and that
a leader's heartbeat timer fires. It assumes nothing about elections, restarts,
losses or clients. `liveness` has no losses and links large enough not to drop:
without a timeout at the client or a retransmission of requests, a lost
request or response is never made up for while the leader stays, so nothing could
be promised (see the hazard at `follower.rs:225`).

### What the runs show

The passing runs agree with the usual account of Raft: one leader per term, log
matching, leader completeness, committed entries that stay. They also show what
is specific to this code: every waiting client is always in the table of a
node that will abort it on a change of leader; a node that wins has applied all it
had committed, whatever its state machine lost in a restart.

Two runs are violations, each a disagreement of the code with a comment or the
architecture document:

1. **`stale_read`.** A leader serves reads once a quorum has confirmed it
   (`leader.rs:57` "To guarantee linearizability..."). A *new* leader may not know
   yet that the last entries of its predecessor are committed, so the state it
   reads from can lack an acknowledged write. `SettledReadsLinearizable` (passing)
   shows that waiting for the noop of its own term is enough.
2. **`reordered_append`.** `splice()` drops the tail after the last entry of an
   `Append` even if all of them match (`log.rs:231` speaks of a term mismatch), so
   that an older `Append` that arrives late removes entries that were acknowledged.
   The two arrive out of order only across a reconnect.

Two more disagreements are kept out of the passing properties by a condition each,
and can be reproduced by lifting it:

- `NoPanic` says "while no node restarts". Without `faults.restarts = 0`, and with
  `MaxRestarts = 1`, TLC finds that a leader that restarts is a follower in the term
  it led and gets answers to its own heartbeats, which `follower.rs:244` holds to
  be impossible: it panics at `follower.rs:246`.
- `Raft_liveness.cfg` has `MaxLosses = 0`. With `MaxLosses = 1`, `ProposedIsCommitted`
  is violated: if the last `AppendResponse` is lost, heartbeats show that the
  follower has everything, so that nothing is sent to it again and its progress
  is never recorded (`leader.rs:166`); the entry stays uncommitted until another is
  proposed (`leader.rs:293` "it will eventually be committed").

A cluster of one node is an instance of `Raft` as well (`Node = {n1}`): it leads
from the start, and its reads are linearizable across restarts.

## 3. MVCC (`MVCC`, `SnapshotIsolation`, `MCMVCC`, `MVCCProofs`)

Each call of `mvcc.rs` holds the engine lock throughout, so it is one action:
`Begin`, `BeginReadOnly`, `BeginAsOf` (time travel), `Write` (`set` and `delete`,
with the conflict check), `Commit`, `Rollback`. The engine's records are the
variables `next_version`, `active`, `snapshots` (`TxnActiveSnapshot`), `txn_writes`
and `versions`. A `TransactionState` is a value that travels through Raft and back,
so `txns` holds every state ever handed out and any of them may be resumed at any
time, even after its commit. Keys and values are model values; a
`None` value is a tombstone. Calls that return an error change nothing.

`SnapshotIsolation` says what is promised: a transaction takes a copy of the
store when it begins, may write a key only if nobody else has it pending and
nobody has committed it since, and commits all at once; the copy of every
transaction is kept forever, for time travel. `MVCC` is shown to implement it under the
mapping

| Abstract | Concrete |
|---|---|
| `began` | `next_version - 1` |
| `store[k]` | the latest version of k that is not active |
| `snap[t][k]` | the latest version of k below t and outside the active set stored for t |
| `open` | `active` |
| `pending[t]` | the versions that active t has written |

Run `mvcc`: two symmetric keys, one value and the tombstone, four read-write
transactions, one read-only or time travel one, and three stored versions at a time
(~180 000 states). Three versions of one key and a fourth transaction are needed
before "the first version found" and "the latest" can disagree in the conflict
check; three versions are also enough for a transaction that wrote both keys and
another that wrote one. It checks

- `WritesOnTop`: no version is written over one its transaction did not see;
- `LatestVersionDecides`: the conflict check, which scans from the oldest active
  version and looks at the last hit only, is exact (the comment at `mvcc.rs:527`);
- `WriteRecordsExact`: rollback finds all that a transaction wrote, nothing else;
- `SnapshotsStable`: no step changes what anyone sees of others;
- `ReadsSeeSnapshot`: `get()` returns the transaction's own write or its snapshot;
- `ProvidesSnapshotIsolation`: the refinement above.

## 4. Storage (`KV`, `BitCask`, `MCBitCask`)

`KV` is the promise of `storage/engine.rs`: a map with `Set`, `Delete` and `Flush`,
whose content after a power failure is one it had since the last flush
(`engine.rs:6`). The memory engine is that map.

`BitCask` keeps a file as the sequence of its entries; the last may be torn. `Set`
and `Delete` append an entry and update the keydir; `Open` rebuilds the keydir, cuts
off a torn entry and compacts when there is enough garbage (`new_compact`).
A compaction is `StartCompaction`, one `MoveEntry` per live key, and
`FinishCompaction`, which renames the new file over the old one. `Kill` stops the
process anywhere, in the middle of an entry included. `PowerFailure` leaves one of
the contents in `disk`, the file system's choice: any prefix written since the
last flush, its last entry perhaps torn. Sizes of entries follow `status()`.

Run `bitcask` (two keys, two values, files of three entries, ~40 000 states) checks

- `KeydirExact`: the keydir that is maintained is the one a reopening would build;
- `GarbageExact`: the unsigned difference of `status()` is the size of the dead
  entries, so it never underflows;
- `CompactionReclaims`: what is swapped in has no garbage, whatever an interrupted
  compaction left in the temporary file;
- `ImplementsKV`: the refinement, with `data` the entries that the keydir points to;
- `TypeOK`: no entry is ever appended behind a torn one.

Three entries and two keys give a live, a dead and a deleted entry at once, a
compaction with two moves, and room for a torn entry after each. Compaction
flushes nothing before its `rename` (`bitcask.rs:197`), so that the run assumes a
file system that writes a file's data before its renaming (`OrderedRename`); with
`OrderedRename = FALSE` TLC finds a power failure after a compaction that loses
flushed keys, against `ImplementsKV`.

## 5. Encoded keys and scans (`KeyCode`, `Scan`, `MCScan`)

`KeyCode` translates `encoding/keycode.rs` over bytes and words of a small size
(`Byte`, `Width`): integers with the sign bit flipped, floats by their bits, strings
escaped and terminated, values with their tags, and `prefix_range`. `Scan`
models `get` and the double-ended `ScanIterator` of `mvcc.rs` on an engine sorted
by encoded keys.

Run `scan` takes every pair out of a set of SQL keys whose encodings are close
(names that start other names, zero bytes in strings, extreme integers and floats)
and every history of two rows, opens prefix and range scans, and takes items from
either end in any order (~27 000 states). `RoundTrip`: decoding inverts encoding.
`ScanExact`: a scan returns the newest visible version of exactly the keys asked
for, in order from the front and reversed from the back; when both ends are used
each is exact until they have met, and none stops before. `PointReads`: `get` agrees.

Past the point where the ends meet `ScanExact` speaks of keys without older visible
versions only (`Rewritten`). Otherwise the front takes the next older version of the
key that the back returned last for its newest, since `try_next()` (`mvcc.rs:672`) does
not know that key, and returns it a second time: with two keys, the second written
twice, `next` returns the first, `next_back` the second and `next` the older version of the
second. The test at `mvcc.rs:1103` says "Alternating next/next_back calls should give
the same results."; its histories have no such key where the ends meet. Without the
condition TLC finds `ScanExact` violated. Nothing in the SQL engine takes a scan
from both ends.

Bytes have 8 values and words two bytes: escapes, terminators, sign bits, carries
and prefixes that end in the largest byte all occur.

Not in the property: 0.0 and -0.0 are equal values with different encodings
(`keycode.rs:147`), so they are different primary keys.

## 6. Crash recovery of the state machine (`SqlKV`, `SqlState`, `MCSqlState`)

`SqlKV` gives for each mutation the sequence of engine writes it makes: MVCC
`begin`, `commit`, `rollback`, `write_version` with its conflict check, and on them
rows, index entries, references, unique columns and schemas. `SqlState` applies
a log of mutations, one engine write per step (`State::apply`: the mutation, then
the applied index), crashes between any two, or falls back to an earlier
content (a power failure), and replays from the applied index. `cluster` holds what a
node that never crashed has after each entry.

Run `recovery` (logs of up to four entries on a table with an index, one crash,
~290 000 states) checks `ReplayExact` (same records as a node that never
crashed), `HaltsOnlySpoiled` (an internal error halts the node only after a crash in one of the windows below) and `EndIsAtomic` (the order of
writes in `commit` and `rollback` leaves nothing of a transaction that is no
longer active).

Replay is *not* exact in three windows, which the model names (`Spoils`) and the
properties exclude:

1. in `begin`, after its first write: the replay takes another version number;
2. in `commit` and `rollback`, between removing the active record and recording
   the applied index: the replay finds no transaction and halts the node;
3. in `create`, between writing the row and its last index entry: the replay
   finds the row and fails with a duplicate key, and the index entry is missing.

Four entries are a begin, two mutations of its transaction and its end, or two
transactions that interleave.

## 7. Sessions and clients (`Session`, `MCSession`)

Two clients each run a script over a connection, in `with_retry()` or by
`execute()` alone, and then a client goes on after an error, as `rasql` does; their
sessions execute statements in explicit or implicit transactions; every
request of a statement goes through Raft on its own and is answered, or aborted
and then applied later or never (`ApplyLate`). Connections can be lost; the session
then rolls back when it is dropped. `Plan`, `Read`, `Work` and `Finish` are the
phases of a statement, with planning errors, validation errors, serialization
failures and read-only transactions.

Run `sql` (13 pairs of scripts that meet on a counter, an index entry, a reference or a
schema, or that fail; one retry, one abort, one lost connection; ~130 000
states; deadlock is checked) checks

- `NeverHalts`: no mutation of a session resumes a transaction that has ended,
  which would halt every node;
- `IndexExact`, `UniqueWhenIndexed`: what is committed agrees with its indexes, if
  nobody has committed a transaction after a mutation of it failed half done
  (`NoHalvesCommitted`);
- `ViewsConsistent`: a transaction sees references and unique columns satisfied
  after each of its writes, also a failed one, if its snapshot did;
- `IncrementsCounted`: `with_retry()` loses no update, and repeats none of a
  transaction; a statement of its own is repeated at most once per try;
- `OrphansHarmless`: transactions that are left active have written nothing, unless a
  request of theirs was aborted.

Observed on the way, and stated in these properties' conditions:

- an implicit transaction whose statement fails to plan is never ended
  (`engine/mod.rs:132`), though it holds no write;
- a mutation that fails leaves what it has written in its transaction, which stays
  valid ("It is up to the client to take appropriate action", `sql.md:416`).
  `update()` moves index entries before it validates the row (`kv.rs:271`), and
  `create()` writes the row before an index entry of it can conflict: a client that
  commits after such an error commits an index that does not agree with the rows, or a
  second row with a unique value. `with_retry()` always rolls back; two of the scripts
  are of clients that do commit, and without `NoHalvesCommitted` TLC finds both
  properties violated by them;
- after an aborted COMMIT the session has no transaction any more, and the
  ROLLBACK of the retry fails with "Not in a transaction" (`client.rs:91`), which is what
  the caller gets;
- unique columns without an index and references can be violated by two
  concurrent transactions (write skew), hence `UniqueWhenIndexed` and
  `ViewsConsistent` rather than an invariant of the committed state.

## 8. Statements (`Parser`, `Planner`, `Optimizer`, `Execution`, `Query`, `Language`, `MCQuery`)

A behaviour of `Query` is one statement on one database: `ParseText`, `BuildPlan`,
the five optimizers in their order, `ExecutePlan`. Each stage applies the operators
translated from the code; expressions are trees with the values of `Types`,
integers bounded by `MaxInteger` so that overflow happens. `Language` says how a
statement is written with the documented precedences (`sql.md:141`) and which rows
answer it, by names and without plans.

Run `query` (2415 statements on two databases: all pairs of operators nested both
ways; projections, conditions, orders, limits, groups, labels used in ORDER BY,
GROUP BY and HAVING, joins of three tables, mutations, schema statements; ~29 000
states) checks

- `ParsesBack`: the parser returns the statement that was written;
- `NormalFormsAgree`: CNF, DNF and NNF have the value of the expression on all
  sample rows, NULL included;
- `PlanAnswers`: the plan as it is built gives the rows the reference gives, and
  none where there is no answer, with the two exceptions below;
- `OptimizersKeepAnswer`: each of `ConstantFolder`, `FilterPushdown`, `IndexLookup`,
  `NoopCleaner` and `JoinType`, on its own, leaves a right answer right.

The last has one condition per optimizer, which excludes what it gets wrong:

| Optimizer | Excluded |
|---|---|
| `ConstantFolder` | nothing |
| `FilterPushdown` | a WHERE pushed into an outer join's predicate keeps padded rows; conjuncts of an outer join's ON pushed into its left source drop rows; a conjunct kept over a RIGHT JOIN's projection with its columns shifted; errors of rows that were not evaluated before |
| `IndexLookup` | `= NULL` finds NULL rows; a key given twice is read twice; a float never finds an integer key |
| `NoopCleaner` | a NULL operand is taken for FALSE, which shows when it is returned or negated |
| `JoinType` | right keys that repeat (only the last is kept, `join.rs:169`), keys that are NULL (hashing NULL does not return, `types/mod.rs:48`) |

Run `inner_join` shows the first of the last row as a violation of what the
reference says of inner joins (`sql.md:363`): of several right rows with one key only the
last is joined.

`PlanAnswers` leaves out what the planner and the executors get wrong:

- a GROUP BY in which the key of some row has a NULL, which does not return, since NULL
  is hashed there as well (`GroupsNull`);
- a RIGHT JOIN whose left side is a join with a predicate (`Shifted`).
  `build_from_item()` builds the right table first (`planner.rs:301`), in the scope
  that numbers the columns, so that the join built after it refers to columns
  by positions its rows do not have. The statements include such joins; without the
  condition TLC finds the wrong rows. Over a CROSS JOIN the plan is right.

Not reached by the statements of the run, and noted while translating: `COUNT()`
without arguments panics (`planner.rs:481`); `SELECT *` with GROUP BY ignores the
grouping; an alias after `*` is skipped; OFFSET swallows errors of the rows it skips;
`JoinType` underflows for an equijoin of two columns of the left table
(`optimizer.rs:282`, excluded by `HashExact`).

Deadlock is not checked in `query`, `scan`, `recovery` and `mvcc`: a behaviour ends
with its statement, its scan or its bounds.

## 9. What is proved

### MVCC (`MVCCProofs`)

`MVCCProofs` proves the six properties of the run, and type correctness, for every
set of keys and values and every number of transactions, from the assumption that the two bounds
are natural numbers (`MVCCAssumption`) and nothing else: the keys need not be
finite.

| Theorem | Property |
|---|---|
| `TypeCorrect` | `TypeOK` |
| `NoLostUpdate` | `WritesOnTop` |
| `ConflictCheckExact` | `LatestVersionDecides` |
| `RecordsExact` | `WriteRecordsExact` |
| `SnapshotsKept` | `SnapshotsStable` |
| `ReadsFromSnapshot` | `ReadsSeeSnapshot` |
| `Refinement` | `ProvidesSnapshotIsolation` |

The inductive invariant `Inv` adds to `TypeOK`, `WritesOnTop` and
`WriteRecordsExact`:

- `Handles`: a handed-out read-write state carries the active set stored for its
  version; a read-only one has every earlier transaction that is still active in
  its set. Without it nothing ties what callers hold to what the engine stores.
- `ActiveInSnapshots`: who is active now was active when any later one began.
- `SnapshotsNested`: if u was active when w began, it was when any v in
  between began.

The argument. An active transaction's versions are invisible to everyone else
(`ActiveIsHidden`, from `Handles` and `ActiveInSnapshots`). `ConflictExact` is the
heart: if the latest version from the oldest active one on is visible to the writer,
so is every earlier one, for an invisible u below a visible v would have been
active when v's transaction began (`SnapshotsNested`), against `WritesOnTop`. So a
write that is let through lands above all versions of its key (`WriteIsLatest`),
which restores `WritesOnTop`. Writes and rollbacks touch versions of one active
transaction only (`OtherVersionsKept`), so views do not change (`ViewKept`). The
refinement has one lemma per action: `BeginRefines`, `WriteRefines`,
`CommitRefines`, `RollbackRefines`; beginning a read-only transaction stutters.

`Min` and `Max` are `CHOOSE` definitions, so the proof first shows that sets of
versions have them (`LeastNatural` and `GreatestNatural` in `NaturalSets`, by
well-founded induction on the naturals).

### BitCask (`BitCaskProofs`)

Four of the five properties of run `bitcask` are proved for any sets of keys and
values, files of any length and any number of compactions, kills and power failures,
from `BitCaskAssumption` (keys are ordered as integers, a tombstone is no value, a
torn entry is no entry, lengths are naturals):

| Theorem | Property |
|---|---|
| `FilesWellFormed` | `TypeOK` |
| `KeydirMaintained` | `KeydirExact` |
| `CompactionComplete` | `CompactionReclaims` |
| `Refinement` | `ImplementsKV`, assuming `OrderedRename` |

The inductive invariant `Inv` says that every content the path may have is a `File`
(entries, the last perhaps torn), that an open file is whole and its keydir the one
`BuildKeydir` gives, and, during a compaction, `Copied`: the new keydir is what
`BuildKeydir` gives for the temporary file, each moved key has the value it has in
the old file, and there are as many entries as keys. `Copied` is what makes
`FinishCompaction` invisible in the map and free of garbage; neither property is
inductive without it.

The argument. The last entry of a key decides (`LastEntryIs`, `LastEntryUnique`), so
appending one changes the keydir as `set` and `delete` do
(`AppendedKeydir`), and the content accordingly (`AppendedContent`); moving an entry in a
compaction is the same step on the temporary file. A torn entry is not read
(`TornContent`), so that cutting it off (`TruncatedContent`) and what a power failure
leaves (`RemainsOf`) keep the content. In the refinement `Set`, `Delete`, `Flush` and
`PowerFailure` are the steps of `KV` with those names, `Drop` is a flush, and all others are
invisible.

`GarbageExact` is a sum over a set, which needs an induction, and stays with TLC.

### With TLC only

Everything about Raft and the SQL layers is only model-checked; so is liveness, which the
prover does not handle, and what the recursive operators of `Parser`, `Planner`,
`Expression` and their like compute, for which it has no induction over data.

## 10. Not modelled, and why

- A crash between the engine writes of one `splice()` (`log.rs:259`), and a log
  with `sync = false`: `RaftLog` keeps a log as a sequence, in which a stale
  tail behind new entries is not a state. With such a tail `LogMatching` would not hold.
- Raft's `send_log` "Missing base entry" and the missing commit entry in
  `heartbeat`: a leader never removes entries and its indexes stay within its log,
  so they cannot be reached in the model.
- Integer widths of terms, indexes and versions: 64 bits, one per event.
- `UPDATE` of primary keys while the rows are scanned (`mutation.rs:105`): `Session`
  collects the rows first.
- Floats beyond order, addition and subtraction; computing with the literals
  INFINITY and NAN, which are parsed and returned; negative exponents; averages of floats. `LIKE` is a given
  relation (`Matches`). The SET list of an UPDATE is kept in the order written,
  where the code has it sorted by column.
- The lexer, the text forms of plans, values and errors, `bincode`, logging,
  configuration, the command line tools: text and I/O without state.

## 11. What could follow

A Raft log on `BitCask` entries, with `splice()` write by write; `Session` on
several nodes of `Raft` in place of one state machine; proofs of `ElectionSafety` and
`OneVotePerTerm` from the ballots and intersecting majorities.
