-------------------------------- MODULE Raft --------------------------------
(***************************************************************************)
(* A cluster of Raft nodes (src/src/raft/node/) with the message routing   *)
(* of src/src/server.rs and the clients attached to each node.             *)
(*                                                                         *)
(* A node is driven by one thread (raft_route), so a step() or tick() and  *)
(* the messages it emits are one action.  node_tx, the bounded per-peer    *)
(* channel and the TCP connection are one FIFO link per ordered pair of    *)
(* nodes: a message sent into a full link is dropped, and the message at   *)
(* the head of a link may be lost with its connection.                     *)
(***************************************************************************)
EXTENDS RaftLog, FiniteSets, SequencesExt

CONSTANTS Node,       \* node IDs
          Nil,        \* no node: Option::None
          Noop,       \* the None command a new leader proposes
          Writes,     \* IDs of client write requests; also their commands
          Reads,      \* IDs of client read requests
          Statuses,   \* IDs of client status requests
          Capacity,   \* RAFT_PEER_CHANNEL_CAPACITY
          MaxTerm,    \* bound: no campaign beyond this term
          Backlog,    \* bound: messages on a link when the leader's heartbeat timer fires
          MaxRestarts, MaxLosses, MaxReorders, \* bounds: faults of each kind
          MaxFaults   \* bound: restarts, lost and reordered messages together

ASSUME NodeAssumption == Node # {} /\ IsFiniteSet(Node) /\ Nil \notin Node
ASSUME BoundAssumption == /\ Capacity \in Nat \ {0}
                          /\ MaxTerm \in Nat /\ Backlog \in Nat
                          /\ MaxRestarts \in Nat /\ MaxLosses \in Nat /\ MaxReorders \in Nat
                          /\ MaxFaults \in Nat

Request == Writes \cup Reads \cup Statuses

VARIABLES
    role,          \* Follower, Candidate, Leader, or Halted after a panic
    term,          \* RawNode.term, always equal to the persisted one
    voted_for,     \* the persisted vote
    log,           \* the persisted entries
    commit_index,  \* Log.commit_index, persisted
    applied_index, \* State::get_applied_index()
    leader,        \* Follower.leader
    forwarded,     \* Follower.forwarded
    votes,         \* Candidate.votes
    progress,      \* Leader.progress
    writes,        \* Leader.writes, as records with their log index
    reads,         \* Leader.reads: a queue in the order of the records' sequence numbers
    read_seq,      \* Leader.read_seq
    net,           \* net[i][j]: messages from i to j in flight, oldest first
    client,        \* what the client of each request knows
    faults,        \* history: restarts, lost and reordered messages, so far and left
    ballots        \* history: every vote <<voter, term, candidate>> ever cast

stored == <<term, voted_for, log, commit_index>>
roleVars == <<role, leader, forwarded, votes, progress, writes, reads, read_seq>>
history == <<faults, ballots>>
vars == <<stored, applied_index, roleVars, net, client, history>>

Peers(i) == Node \ {i}

-----------------------------------------------------------------------------
(* Quorums: quorum_size() and quorum_value() of raft/node/mod.rs.          *)

HalfQuorumSize == Cardinality(Node) \div 2 \* mutant: half the nodes are enough
QuorumSize == Cardinality(Node) \div 2 + 1

\* The quorum_size-th largest of the values, one per node.
QuorumValue(values) ==
    CHOOSE v \in {values[n] : n \in Node} :
        /\ Cardinality({n \in Node : values[n] >= v}) >= QuorumSize
        /\ Cardinality({n \in Node : values[n] > v}) < QuorumSize

-----------------------------------------------------------------------------
(* Links and clients.                                                      *)

\* try_send(): messages that find the link full are dropped.
Push(queue, msgs) ==
    LET all == queue \o msgs
    IN  SubSeq(all, 1, Min({Len(all), Capacity}))

\* What a step sends, as a function from recipient to a sequence of messages.
Silence == [n \in Node |-> <<>>]
To(j, msg) == [Silence EXCEPT ![j] = <<msg>>]
Broadcast(i, msg) == [n \in Node |-> IF n = i THEN <<>> ELSE <<msg>>]
Then(out1, out2) == [n \in Node |-> out1[n] \o out2[n]]

Sent(i, out) == [n \in Node |-> Push(net[i][n], out[n])]

\* Node i sends out; Exchange also consumes the message received from j.
Emit(i, out) == net' = [net EXCEPT ![i] = Sent(i, out)]
Exchange(i, j, out) == net' = [net EXCEPT ![i] = Sent(i, out), ![j][i] = Tail(@)]

\* A response to request id, addressed to the node to that submitted it.
Aborted(to, id) == [to |-> to, id |-> id, ok |-> FALSE, view |-> {}, settled |-> FALSE]

\* The requests node i answers with Error::Abort when its role ends: the writes
\* and reads of a leader, the forwarded requests of a follower.
Aborts(i) == {Aborted(w.from, w.id) : w \in writes[i]}
             \cup {Aborted(r.from, r.id) : r \in reads[i]}
             \cup {Aborted(i, id) : id \in forwarded[i]}

\* Responses to peers, as messages of node i's term.  The order among responses
\* of one step does not matter: each is matched by its ID.
RemoteResponses(i, responses) ==
    [n \in Node |-> SetToSeq({[type |-> "ClientResponse", term |-> term[i], response |-> r] :
                              r \in {x \in responses : n # i /\ x.to = n}})]

\* Responses addressed to i itself go to the waiting client (raft_route removes
\* the response channel by ID).
Answered(clients, i, responses) ==
    [id \in Request |->
        IF clients[id].status = "waiting" /\ \E r \in responses : r.to = i /\ r.id = id
        THEN LET r == CHOOSE r \in responses : r.to = i /\ r.id = id
             IN  [clients[id] EXCEPT !.status = IF r.ok THEN "ok" ELSE "abort",
                                     !.view = r.view, !.settled = r.settled]
        ELSE clients[id]]

\* The writes acknowledged to their clients.
Acknowledged == {w \in Writes : client[w].status = "ok"}

-----------------------------------------------------------------------------
(* Roles.  Fields of a role that is left are reset, as the role's struct is *)
(* dropped.                                                                 *)

NoProgress == [n \in Node |-> [next |-> 1, last |-> 0, read_seq |-> 0]]

LeaveLeader(i) ==
    /\ progress' = [progress EXCEPT ![i] = NoProgress]
    /\ writes' = [writes EXCEPT ![i] = {}]
    /\ reads' = [reads EXCEPT ![i] = {}]
    /\ read_seq' = [read_seq EXCEPT ![i] = 0]

\* Node i is a follower of ldr (or Nil) in term t: into_follower() of each role.
\* Moving to a later term clears the vote and drops the forwarded requests.
Follow(i, ldr, t) ==
    /\ role' = [role EXCEPT ![i] = "Follower"]
    /\ leader' = [leader EXCEPT ![i] = ldr]
    /\ term' = [term EXCEPT ![i] = t]
    /\ forwarded' = [forwarded EXCEPT ![i] = IF t > term[i] THEN {} ELSE @]
    /\ votes' = [votes EXCEPT ![i] = {}]
    /\ LeaveLeader(i)

\* Mutants: the leader survives the change of term; pending requests are dropped.
OldLeader(i, t) == leader[i]
NoAborts(i, t) == {}

\* The vote and the leader of node i once it has stepped into term t.
VoteIn(i, t) == IF t > term[i] THEN Nil ELSE voted_for[i]
LeaderIn(i, t) == IF t > term[i] THEN Nil ELSE leader[i]

\* Stepping into a later term aborts what the old role had pending.
StepDownAborts(i, t) == IF t > term[i] THEN Aborts(i) ELSE {}

\* maybe_apply(): the state machine, at index applied, applies up to the commit
\* index.  Mutant: it does not.
NotCaughtUp(i, applied) == applied
CaughtUp(i, applied) == commit_index[i]

\* candidate.rs campaign(): a vote for itself in the next term.
CampaignMessage(i) == [type |-> "Campaign", term |-> term[i] + 1,
                       last_index |-> LastIndex(log[i]), last_term |-> LastTerm(log[i])]

\* heartbeat(): the commit index and the latest read sequence number.
HeartbeatMessage(i, seq) ==
    [type |-> "Heartbeat", term |-> term[i], commit_index |-> commit_index[i],
     commit_term |-> TermAt(log[i], commit_index[i]), read_seq |-> seq]

\* send_log(): everything after the peer's next index, based on the one before.
AppendMessage(t, entries, next) ==
    [type |-> "Append", term |-> t, base_index |-> next - 1,
     base_term |-> TermAt(entries, next - 1), entries |-> EntriesAfter(entries, next - 1)]

\* propose(): append a command and replicate it to every peer.
Proposed(i, command) == Append(log[i], [term |-> term[i], command |-> command])
Replicate(i, entries, next) ==
    [n \in Node |-> IF n = i THEN <<>> ELSE <<AppendMessage(term[i], entries, next[n])>>]

-----------------------------------------------------------------------------
(* Elections.                                                              *)

\* tick() past the election timeout.  A follower aborts forwarded requests and
\* applies pending entries (into_candidate); a candidate just campaigns again.
Campaign(i) ==
    /\ role[i] \in {"Follower", "Candidate"} /\ Node # {i}
    /\ term[i] < MaxTerm
    /\ applied_index' = [applied_index EXCEPT ![i] =
                            IF role[i] = "Follower" THEN CaughtUp(i, @) ELSE @]
    /\ client' = Answered(client, i, Aborts(i))
    /\ role' = [role EXCEPT ![i] = "Candidate"]
    /\ term' = [term EXCEPT ![i] = @ + 1]
    /\ voted_for' = [voted_for EXCEPT ![i] = i]
    /\ votes' = [votes EXCEPT ![i] = {i}]
    /\ leader' = [leader EXCEPT ![i] = Nil]
    /\ forwarded' = [forwarded EXCEPT ![i] = {}]
    /\ ballots' = ballots \cup {<<i, term[i] + 1, i>>}
    /\ Emit(i, Broadcast(i, CampaignMessage(i)))
    /\ UNCHANGED <<log, commit_index, progress, writes, reads, read_seq, faults>>

\* The message at the head of the link from j to i, to a node that is running.
Arrived(i, j) == i # j /\ role[i] # "Halted" /\ net[j][i] # <<>>
Msg(i, j) == Head(net[j][i])

\* Node i handles m as a follower: it is one, or it becomes one in m's term.
AsFollower(i, m) == m.term > term[i] \/ (m.term = term[i] /\ role[i] = "Follower")
InRole(i, m, r) == m.term = term[i] /\ role[i] = r

\* A candidate follows whoever sends a heartbeat or entries in its own term.
AsElector(i, m) == AsFollower(i, m) \/ InRole(i, m, "Candidate")

\* The asserts, panics and Error::Internal returns of the three step()s: raft_route
\* panics on each.
Panics(i, m, j) ==
    \/ /\ AsFollower(i, m)
       /\ \/ m.type \in {"HeartbeatResponse", "AppendResponse", "ClientRequest"}
          \/ m.type = "ClientResponse" /\ LeaderIn(i, m.term) # j
    \/ /\ AsElector(i, m)
       /\ m.type \in {"Heartbeat", "Append"} /\ LeaderIn(i, m.term) \notin {Nil, j}
    \/ /\ AsElector(i, m)
       /\ m.type = "Append" /\ Has(log[i], m.base_index, m.base_term)
       /\ SpliceFails(log[i], commit_index[i], m.base_index, m.entries)
    \/ /\ InRole(i, m, "Candidate")
       /\ m.type \in {"HeartbeatResponse", "AppendResponse", "ClientResponse"}
    \/ /\ InRole(i, m, "Leader")
       /\ \/ m.type \in {"Heartbeat", "Append", "ClientResponse"}
          \/ m.type = "HeartbeatResponse" /\ m.read_seq > read_seq[i]
          \/ /\ m.type = "AppendResponse" /\ ~m.reject
             /\ m.last_index > LastIndex(log[i]) \/ m.last_term > LastTerm(log[i])

Receives(i, j, type) ==
    Arrived(i, j) /\ Msg(i, j).type = type /\ ~Panics(i, Msg(i, j), j)

\* The commit index a heartbeat names is taken over if the log has that entry and
\* it is ahead.  Mutant: it need not be ahead.
CommitsBackwards(i, m) == Has(log[i], m.commit_index, m.commit_term)
Commits(i, m) == /\ Has(log[i], m.commit_index, m.commit_term)
                 /\ m.commit_index > commit_index[i]

\* follower.rs step(), Heartbeat: follow the sender, confirm, then advance the
\* commit index and apply.
HandleHeartbeat(i, j) ==
    LET m == Msg(i, j)
        aborts == StepDownAborts(i, m.term)
        confirm == [type |-> "HeartbeatResponse", term |-> m.term,
                    last_index |-> LastIndex(log[i]), last_term |-> LastTerm(log[i]),
                    read_seq |-> m.read_seq]
    IN  /\ Receives(i, j, "Heartbeat") /\ AsElector(i, m)
        /\ voted_for' = [voted_for EXCEPT ![i] = VoteIn(i, m.term)]
        /\ Follow(i, j, m.term)
        /\ Exchange(i, j, Then(RemoteResponses(i, aborts), To(j, confirm)))
        /\ client' = Answered(client, i, aborts)
        /\ IF Commits(i, m)
           THEN /\ commit_index' = [commit_index EXCEPT ![i] = m.commit_index]
                /\ applied_index' = [applied_index EXCEPT ![i] = m.commit_index]
           ELSE UNCHANGED <<commit_index, applied_index>>
        /\ UNCHANGED <<log, history>>

\* follower.rs step(), Append: follow the sender, splice the entries in if the
\* log has their base, and report the last index either way.
HandleAppend(i, j) ==
    LET m == Msg(i, j)
        aborts == StepDownAborts(i, m.term)
        reject == m.base_index > 0 /\ ~Has(log[i], m.base_index, m.base_term)
        entries == IF reject THEN log[i] ELSE Splice(log[i], m.base_index, m.entries)
        ack == [type |-> "AppendResponse", term |-> m.term, reject |-> reject,
                last_index |-> LastIndex(entries), last_term |-> LastTerm(entries)]
    IN  /\ Receives(i, j, "Append") /\ AsElector(i, m)
        /\ voted_for' = [voted_for EXCEPT ![i] = VoteIn(i, m.term)]
        /\ Follow(i, j, m.term)
        /\ log' = [log EXCEPT ![i] = entries]
        /\ Exchange(i, j, Then(RemoteResponses(i, aborts), To(j, ack)))
        /\ client' = Answered(client, i, aborts)
        /\ UNCHANGED <<commit_index, applied_index, history>>

\* Mutant: a vote whatever the candidate's log.
GrantsStaleVote(i, j, m) == VoteIn(i, m.term) \in {Nil, j}

\* The two refusals of follower.rs step(), Campaign: a vote for someone else in
\* this term, or a log that is newer than the candidate's.
GrantsVote(i, j, m) ==
    /\ VoteIn(i, m.term) \in {Nil, j}
    /\ \/ m.last_term > LastTerm(log[i])
       \/ m.last_term = LastTerm(log[i]) /\ m.last_index >= LastIndex(log[i])

\* follower.rs step(), Campaign: the granted vote is persisted in the same step.
HandleCampaign(i, j) ==
    LET m == Msg(i, j)
        aborts == StepDownAborts(i, m.term)
        vote == GrantsVote(i, j, m)
    IN  /\ Receives(i, j, "Campaign") /\ AsFollower(i, m)
        /\ Follow(i, LeaderIn(i, m.term), m.term)
        /\ voted_for' = [voted_for EXCEPT ![i] = IF vote THEN j ELSE VoteIn(i, m.term)]
        /\ ballots' = IF vote THEN ballots \cup {<<i, m.term, j>>} ELSE ballots
        /\ Exchange(i, j, Then(RemoteResponses(i, aborts),
                               To(j, [type |-> "CampaignResponse", term |-> m.term,
                                      vote |-> vote])))
        /\ client' = Answered(client, i, aborts)
        /\ UNCHANGED <<log, commit_index, applied_index, faults>>

\* candidate.rs step(), CampaignResponse with a vote that is not yet a quorum.
CollectVote(i, j) ==
    LET m == Msg(i, j)
    IN  /\ Receives(i, j, "CampaignResponse") /\ InRole(i, m, "Candidate") /\ m.vote
        /\ Cardinality(votes[i] \cup {j}) < QuorumSize
        /\ votes' = [votes EXCEPT ![i] = @ \cup {j}]
        /\ Exchange(i, j, Silence)
        /\ UNCHANGED <<stored, applied_index, role, leader, forwarded, progress, writes,
                       reads, read_seq, client, history>>

\* The same with a quorum: into_leader() sends a heartbeat and proposes a noop.
WinElection(i, j) ==
    LET m == Msg(i, j)
        next == LastIndex(log[i]) + 1
        entries == Proposed(i, Noop)
    IN  /\ Receives(i, j, "CampaignResponse") /\ InRole(i, m, "Candidate") /\ m.vote
        /\ Cardinality(votes[i] \cup {j}) >= QuorumSize
        /\ role' = [role EXCEPT ![i] = "Leader"]
        /\ votes' = [votes EXCEPT ![i] = {}]
        /\ progress' = [progress EXCEPT ![i] =
                            [n \in Node |-> [next |-> next, last |-> 0, read_seq |-> 0]]]
        /\ log' = [log EXCEPT ![i] = entries]
        /\ Exchange(i, j, Then(Broadcast(i, HeartbeatMessage(i, 0)),
                               Replicate(i, entries, [n \in Node |-> next])))
        /\ UNCHANGED <<term, voted_for, commit_index, applied_index, leader, forwarded,
                       writes, reads, read_seq, client, history>>

-----------------------------------------------------------------------------
(* Replication, commits and reads on the leader.                           *)

\* leader.rs tick(): the periodic heartbeat.
Heartbeat(i) ==
    /\ role[i] = "Leader" /\ Peers(i) # {}
    /\ \A n \in Node : Len(net[i][n]) <= Backlog /\ Len(net[n][i]) <= Backlog
    /\ Emit(i, Broadcast(i, HeartbeatMessage(i, read_seq[i])))
    /\ UNCHANGED <<stored, applied_index, roleVars, client, history>>

\* Mutant: the commit index only moves by two or more.
LateCommitIndex(i, entries, prog) ==
    LET quorum_index == QuorumValue([n \in Node |-> IF n = i THEN LastIndex(entries)
                                                             ELSE prog[n].last])
    IN  IF quorum_index > commit_index[i] + 1 /\ TermAt(entries, quorum_index) = term[i]
        THEN quorum_index ELSE commit_index[i]

\* maybe_commit_and_apply(): the index a quorum has stored, if it advances the
\* commit index and is an entry of the leader's own term.
NewCommitIndex(i, entries, prog) ==
    LET quorum_index == QuorumValue([n \in Node |-> IF n = i THEN LastIndex(entries)
                                                             ELSE prog[n].last])
    IN  IF quorum_index > commit_index[i] /\ TermAt(entries, quorum_index) = term[i]
        THEN quorum_index ELSE commit_index[i]

\* The pending writes that commits up to index answer, and their responses.
Applying(i, pending, index) == {w \in pending : w.index \in (applied_index[i] + 1)..index}
WriteResponses(ws) == {[to |-> w.from, id |-> w.id, ok |-> TRUE, view |-> {},
                        settled |-> FALSE] : w \in ws}

\* state.read(): a read sees the writes applied so far.  settled is a history
\* field: the leader has committed an entry of its own term.
ReadResponse(i, read) ==
    [to |-> read.from, id |-> read.id, ok |-> TRUE,
     view |-> {log[i][k].command : k \in 1..applied_index[i]} \cap Writes,
     settled |-> TermAt(log[i], commit_index[i]) = term[i]]

\* Mutant: reads are served one sequence number too early.
EarlyReads(pending, seq) == {r \in pending : r.seq <= seq + 1}

\* maybe_read(): the pending reads whose sequence number a quorum confirmed.
ConfirmedSeq(i, seq, prog) ==
    QuorumValue([n \in Node |-> IF n = i THEN seq ELSE prog[n].read_seq])
ReadyReads(pending, seq) == {r \in pending : r.seq <= seq}
UnreadyReads(pending, seq) == {r \in pending : r.seq > seq}

\* leader.rs step(), HeartbeatResponse: serve reads that became ready, then send
\* the log to a follower whose log is not at our last index.
HandleHeartbeatResponse(i, j) ==
    LET m == Msg(i, j)
        newer == m.read_seq > progress[i][j].read_seq
        prog == IF newer THEN [progress[i] EXCEPT ![j].read_seq = m.read_seq] ELSE progress[i]
        seq == IF newer THEN ConfirmedSeq(i, read_seq[i], prog) ELSE 0
        responses == {ReadResponse(i, r) : r \in ReadyReads(reads[i], seq)}
        behind == \/ m.last_index < LastIndex(log[i])
                  \/ ~Has(log[i], m.last_index, m.last_term)
    IN  /\ Receives(i, j, "HeartbeatResponse") /\ InRole(i, m, "Leader")
        /\ progress' = [progress EXCEPT ![i] = prog]
        /\ reads' = [reads EXCEPT ![i] = UnreadyReads(@, seq)]
        /\ Exchange(i, j, Then(RemoteResponses(i, responses),
                               IF behind THEN To(j, AppendMessage(term[i], log[i], prog[j].next))
                                         ELSE Silence))
        /\ client' = Answered(client, i, responses)
        /\ UNCHANGED <<stored, applied_index, role, leader, forwarded, votes, writes,
                       read_seq, history>>

\* leader.rs step(), AppendResponse accepted: record progress, commit, apply and
\* answer the writers.
HandleAppendAccepted(i, j) ==
    LET m == Msg(i, j)
        advances == m.last_index > progress[i][j].last
        prog == IF advances
                THEN [progress[i] EXCEPT ![j].last = m.last_index, ![j].next = m.last_index + 1]
                ELSE progress[i]
        commit == IF advances THEN NewCommitIndex(i, log[i], prog) ELSE commit_index[i]
        done == Applying(i, writes[i], commit)
    IN  /\ Receives(i, j, "AppendResponse") /\ InRole(i, m, "Leader") /\ ~m.reject
        /\ progress' = [progress EXCEPT ![i] = prog]
        /\ commit_index' = [commit_index EXCEPT ![i] = commit]
        /\ applied_index' = [applied_index EXCEPT ![i] =
                                IF commit > commit_index[i] THEN commit ELSE @]
        /\ writes' = [writes EXCEPT ![i] = @ \ done]
        /\ Exchange(i, j, RemoteResponses(i, WriteResponses(done)))
        /\ client' = Answered(client, i, WriteResponses(done))
        /\ UNCHANGED <<term, voted_for, log, role, leader, forwarded, votes, reads,
                       read_seq, history>>

\* leader.rs step(), AppendResponse rejected: probe one entry earlier.
HandleAppendRejected(i, j) ==
    LET m == Msg(i, j)
        next == IF progress[i][j].next > 1 THEN progress[i][j].next - 1 ELSE 1
    IN  /\ Receives(i, j, "AppendResponse") /\ InRole(i, m, "Leader") /\ m.reject
        /\ progress' = [progress EXCEPT ![i][j].next = next]
        /\ Exchange(i, j, To(j, AppendMessage(term[i], log[i], next)))
        /\ UNCHANGED <<stored, applied_index, role, leader, forwarded, votes, writes, reads,
                       read_seq, client, history>>

-----------------------------------------------------------------------------
(* Client requests.  from = i is a request of a local client, stepped by     *)
(* raft_route in the node's own term; otherwise a follower forwarded it.     *)

Requested(i, from, id) ==
    \/ from = i /\ role[i] # "Halted" /\ client[id].status = "idle"
    \/ from # i /\ Receives(i, from, "ClientRequest") /\ Msg(i, from).id = id

\* Whether i handles the request in the given role; older requests are dropped.
RequestInRole(i, from, r) ==
    IF from = i THEN role[i] = r ELSE InRole(i, Msg(i, from), r)

\* A local client waits at i; floor is history: what was acknowledged before.
Submitted(i, from, id) ==
    IF from = i
    THEN [client EXCEPT ![id] = [@ EXCEPT !.status = "waiting", !.at = i,
                                 !.floor = IF id \in Reads THEN Acknowledged ELSE {}]]
    ELSE client

Respond(i, from, id, out, responses) ==
    /\ IF from = i THEN Emit(i, Then(out, RemoteResponses(i, responses)))
                   ELSE Exchange(i, from, Then(out, RemoteResponses(i, responses)))
    /\ client' = Answered(Submitted(i, from, id), i, responses)

\* leader.rs step(), Write: propose, track until applied; a leader without peers
\* commits at once.
ClientWrite(i, from, id) ==
    LET entries == Proposed(i, id)
        pending == writes[i] \cup {[index |-> LastIndex(entries), from |-> from, id |-> id]}
        commit == IF Peers(i) = {} THEN NewCommitIndex(i, entries, progress[i])
                                   ELSE commit_index[i]
        done == Applying(i, pending, commit)
    IN  /\ Requested(i, from, id) /\ RequestInRole(i, from, "Leader")
        /\ log' = [log EXCEPT ![i] = entries]
        /\ writes' = [writes EXCEPT ![i] = pending \ done]
        /\ commit_index' = [commit_index EXCEPT ![i] = commit]
        /\ applied_index' = [applied_index EXCEPT ![i] =
                                IF commit > commit_index[i] THEN commit ELSE @]
        /\ Respond(i, from, id,
                   Replicate(i, entries, [n \in Node |-> progress[i][n].next]),
                   WriteResponses(done))
        /\ UNCHANGED <<term, voted_for, role, leader, forwarded, votes, progress, reads,
                       read_seq, history>>

\* leader.rs step(), Read: assign the next sequence number, queue, heartbeat; a
\* leader without peers serves it at once.
ClientRead(i, from, id) ==
    LET seq == read_seq[i] + 1
        pending == reads[i] \cup {[seq |-> seq, from |-> from, id |-> id]}
        confirmed == IF Peers(i) = {} THEN ConfirmedSeq(i, seq, progress[i]) ELSE 0
    IN  /\ Requested(i, from, id) /\ RequestInRole(i, from, "Leader")
        /\ read_seq' = [read_seq EXCEPT ![i] = seq]
        /\ reads' = [reads EXCEPT ![i] = UnreadyReads(pending, confirmed)]
        /\ Respond(i, from, id, Broadcast(i, HeartbeatMessage(i, seq)),
                   {ReadResponse(i, r) : r \in ReadyReads(pending, confirmed)})
        /\ UNCHANGED <<stored, applied_index, role, leader, forwarded, votes, progress,
                       writes, history>>

\* leader.rs step(), Status: answered from the leader's state at once.
ClientStatus(i, from, id) ==
    /\ Requested(i, from, id) /\ RequestInRole(i, from, "Leader")
    /\ Respond(i, from, id, Silence,
               {[to |-> from, id |-> id, ok |-> TRUE, view |-> {}, settled |-> FALSE]})
    /\ UNCHANGED <<stored, applied_index, roleVars, history>>

\* A candidate aborts any request, a leaderless follower those of its clients.
AbortRequest(i, from, id) ==
    /\ Requested(i, from, id)
    /\ \/ RequestInRole(i, from, "Candidate")
       \/ RequestInRole(i, from, "Follower") /\ from = i /\ leader[i] = Nil
    /\ Respond(i, from, id, Silence, {Aborted(from, id)})
    /\ UNCHANGED <<stored, applied_index, roleVars, history>>

\* follower.rs step(), ClientRequest with a known leader: forward and remember it.
ForwardRequest(i, id) ==
    /\ Requested(i, i, id) /\ role[i] = "Follower" /\ leader[i] # Nil
    /\ forwarded' = [forwarded EXCEPT ![i] = @ \cup {id}]
    /\ Respond(i, i, id, To(leader[i], [type |-> "ClientRequest", term |-> term[i], id |-> id]),
               {})
    /\ UNCHANGED <<stored, applied_index, role, leader, votes, progress, writes, reads,
                   read_seq, history>>

\* follower.rs step(), ClientResponse: pass it on if the request is still ours.
HandleClientResponse(i, j) ==
    LET m == Msg(i, j)
        known == {r \in {m.response} : r.id \in forwarded[i]}
    IN  /\ Receives(i, j, "ClientResponse") /\ AsFollower(i, m)
        /\ forwarded' = [forwarded EXCEPT ![i] = @ \ {m.response.id}]
        /\ Exchange(i, j, Silence)
        /\ client' = Answered(client, i, known)
        /\ UNCHANGED <<stored, applied_index, role, leader, votes, progress, writes, reads,
                       read_seq, history>>

-----------------------------------------------------------------------------
(* Messages that change nothing, lost messages, panics and restarts.       *)

Ignored(i, m) ==
    \/ m.term < term[i]
    \/ m.type = "Campaign" /\ (InRole(i, m, "Candidate") \/ InRole(i, m, "Leader"))
    \/ m.type = "CampaignResponse" /\ ~(InRole(i, m, "Candidate") /\ m.vote)

\* Messages of past terms, campaigns of rivals and votes that come too late.
IgnoreMessage(i, j) ==
    LET m == Msg(i, j)
    IN  /\ Arrived(i, j) /\ Ignored(i, m)
        /\ Exchange(i, j, RemoteResponses(i, StepDownAborts(i, m.term)))
        /\ client' = Answered(client, i, StepDownAborts(i, m.term))
        /\ IF m.term > term[i]
           THEN Follow(i, Nil, m.term) /\ voted_for' = [voted_for EXCEPT ![i] = Nil]
           ELSE UNCHANGED <<roleVars, term, voted_for>>
        /\ UNCHANGED <<log, commit_index, applied_index, history>>

\* raft_send_peer() loses the message it was sending when a connection breaks.
LoseMessage(i, j) ==
    /\ net[i][j] # <<>> /\ faults.left > 0 /\ faults.losses < MaxLosses
    /\ net' = [net EXCEPT ![i][j] = Tail(@)]
    /\ faults' = [faults EXCEPT !.losses = @ + 1, !.left = @ - 1]
    /\ UNCHANGED <<stored, applied_index, roleVars, client, ballots>>

\* After a reconnect two raft_receive_peer() threads read from the same peer, so
\* that a message on the new connection can overtake one on the old.
ReorderMessages(i, j) ==
    /\ Len(net[i][j]) > 1 /\ faults.left > 0 /\ faults.reorders < MaxReorders
    /\ net' = [net EXCEPT ![i][j] = <<@[2], @[1]>> \o SubSeq(@, 3, Len(@))]
    /\ faults' = [faults EXCEPT !.reorders = @ + 1, !.left = @ - 1]
    /\ UNCHANGED <<stored, applied_index, roleVars, client, ballots>>

\* Everything but the log and the state machine is gone; so are the clients.
LoseVolatile(i) ==
    /\ leader' = [leader EXCEPT ![i] = Nil]
    /\ forwarded' = [forwarded EXCEPT ![i] = {}]
    /\ votes' = [votes EXCEPT ![i] = {}]
    /\ LeaveLeader(i)
    /\ client' = [id \in Request |-> IF client[id].status = "waiting" /\ client[id].at = i
                                     THEN [client[id] EXCEPT !.status = "lost"]
                                     ELSE client[id]]

\* raft_route() panics: the node stops until it is restarted.
Panic(i, j) ==
    /\ Arrived(i, j) /\ Panics(i, Msg(i, j), j)
    /\ role' = [role EXCEPT ![i] = "Halted"]
    /\ LoseVolatile(i)
    /\ Exchange(i, j, Silence)
    /\ UNCHANGED <<stored, applied_index, history>>

\* Node::new() takes the term's vote from the log.  Mutant: it starts without.
ForgottenVote(i) == Nil
RestoredVote(i) == voted_for[i]

Longest(queues) == Max({Len(q) : q \in queues})

\* The process stops and Node::new() runs again on the stored log.  The state
\* machine is not synced on every write (and may be in memory), so that it can
\* be behind where it was.  Messages i had only queued are lost, and so are those
\* its peers had already written to it; what the peers had queued is sent once
\* they have reconnected.  A node without peers leads at once.
Restart(i) ==
    /\ faults.left > 0 /\ faults.restarts < MaxRestarts
    /\ faults' = [faults EXCEPT !.restarts = @ + 1, !.left = @ - 1]
    /\ LoseVolatile(i)
    /\ \E written \in 0..Longest({net[i][n] : n \in Node}),
          read \in 0..Longest({net[n][i] : n \in Node}) :
          net' = [n \in Node |-> [o \in Node |->
                    CASE n = i -> SubSeq(net[n][o], 1, Min({written, Len(net[n][o])}))
                      [] n # i /\ o = i -> SubSeq(net[n][o], read + 1, Len(net[n][o]))
                      [] OTHER -> net[n][o]]]
    /\ \E index \in 0..applied_index[i] :
          applied_index' = [applied_index EXCEPT ![i] =
                                IF Peers(i) = {} THEN CaughtUp(i, index) ELSE index]
    /\ IF Peers(i) = {}
       THEN /\ role' = [role EXCEPT ![i] = "Leader"]
            /\ term' = [term EXCEPT ![i] = @ + 1]
            /\ voted_for' = [voted_for EXCEPT ![i] = i]
            /\ ballots' = ballots \cup {<<i, term[i] + 1, i>>}
            /\ log' = [log EXCEPT ![i] = Append(@, [term |-> term[i] + 1, command |-> Noop])]
       ELSE /\ role' = [role EXCEPT ![i] = "Follower"]
            /\ voted_for' = [voted_for EXCEPT ![i] = RestoredVote(i)]
            /\ UNCHANGED <<term, log, ballots>>
    /\ UNCHANGED commit_index

-----------------------------------------------------------------------------
\* Fresh nodes are leaderless followers in term 0; a node without peers has
\* campaigned, won term 1 and proposed its noop when Node::new() returns.
Sole == Cardinality(Node) = 1
Idle == [status |-> "idle", at |-> Nil, floor |-> {}, view |-> {}, settled |-> FALSE]

Init ==
    /\ role = [n \in Node |-> IF Sole THEN "Leader" ELSE "Follower"]
    /\ term = [n \in Node |-> IF Sole THEN 1 ELSE 0]
    /\ voted_for = [n \in Node |-> IF Sole THEN n ELSE Nil]
    /\ log = [n \in Node |-> IF Sole THEN <<[term |-> 1, command |-> Noop]>> ELSE <<>>]
    /\ commit_index = [n \in Node |-> 0]
    /\ applied_index = [n \in Node |-> 0]
    /\ leader = [n \in Node |-> Nil]
    /\ forwarded = [n \in Node |-> {}]
    /\ votes = [n \in Node |-> {}]
    /\ progress = [n \in Node |-> NoProgress]
    /\ writes = [n \in Node |-> {}]
    /\ reads = [n \in Node |-> {}]
    /\ read_seq = [n \in Node |-> 0]
    /\ net = [n \in Node |-> [o \in Node |-> <<>>]]
    /\ client = [id \in Request |-> Idle]
    /\ faults = [restarts |-> 0, losses |-> 0, reorders |-> 0, left |-> MaxFaults]
    /\ ballots = {<<n, 1, n>> : n \in {n \in Node : Sole}}

Receive(i, j) ==
    \/ HandleHeartbeat(i, j) \/ HandleAppend(i, j) \/ HandleCampaign(i, j)
    \/ CollectVote(i, j) \/ WinElection(i, j)
    \/ HandleHeartbeatResponse(i, j)
    \/ HandleAppendAccepted(i, j) \/ HandleAppendRejected(i, j)
    \/ HandleClientResponse(i, j) \/ IgnoreMessage(i, j) \/ Panic(i, j)

\* A request reaches node i from a local client or from a forwarding follower.
Serve(i, from) ==
    \/ \E id \in Writes : ClientWrite(i, from, id)
    \/ \E id \in Reads : ClientRead(i, from, id)
    \/ \E id \in Statuses : ClientStatus(i, from, id)
    \/ \E id \in Request : AbortRequest(i, from, id)

Step ==
    \/ \E i \in Node : Campaign(i) \/ Heartbeat(i)
    \/ \E i, j \in Node : Receive(i, j) \/ Serve(i, j) \/ LoseMessage(i, j) \/ ReorderMessages(i, j)
    \/ \E i \in Node, id \in Request : ForwardRequest(i, id)

Next == Step \/ \E i \in Node : Restart(i)

Spec == Init /\ [][Next]_vars

\* The raft_route threads and the connections keep running: a message that has
\* arrived is stepped, a leader keeps ticking.  Elections, restarts, losses and
\* client requests happen or not.
Liveness == /\ \A i, j \in Node : WF_vars(Receive(i, j))
            /\ \A i, j \in Node : WF_vars(i # j /\ Serve(i, j))
            /\ \A i \in Node : WF_vars(Heartbeat(i))
FairSpec == Spec /\ Liveness

-----------------------------------------------------------------------------
(* Properties.                                                             *)

\* Two nodes are never leaders in the same term: the heartbeats of a second one
\* would trip "Multiple leaders in term" (follower.rs:150) on its followers.
ElectionSafety ==
    \A i, j \in Node : role[i] = "Leader" /\ role[j] = "Leader" /\ term[i] = term[j] => i = j

\* No node casts votes for two candidates in one term, restarts in between
\* included: set_term() persists the vote in the step that grants it.
OneVotePerTerm == \A b, c \in ballots : b[1] = c[1] /\ b[2] = c[2] => b[3] = c[3]

\* Two logs with an entry of the same index and term agree up to it, which is
\* what has(base_index, base_term) relies on before splice() (follower.rs:181).
LogMatching ==
    \A i, j \in Node : \A k \in 1..Len(log[i]) :
        k <= Len(log[j]) /\ log[j][k].term = log[i][k].term
            => SubSeq(log[i], 1, k) = SubSeq(log[j], 1, k)

\* Nodes never commit, and so never apply, different commands at one index.
CommittedLogsAgree ==
    \A i, j \in Node : commit_index[i] <= commit_index[j] =>
        /\ commit_index[i] <= Len(log[i]) /\ commit_index[i] <= Len(log[j])
        /\ SubSeq(log[i], 1, commit_index[i]) = SubSeq(log[j], 1, commit_index[i])

\* A leader's log holds every entry that a node of its term or an earlier one
\* knows to be committed: the newer-log check of the vote (follower.rs:201) and
\* the own-term commit rule (leader.rs:327) together.
LeaderCompleteness ==
    \A i, j \in Node : role[i] = "Leader" /\ term[j] <= term[i] =>
        IsPrefix(SubSeq(log[j], 1, commit_index[j]), log[i])

\* A write answered with success stays in the logs of a quorum, through leader
\* changes, splices and restarts.
AcknowledgedWritesDurable ==
    \A w \in Acknowledged :
        2 * Cardinality({n \in Node : \E k \in DOMAIN log[n] : log[n][k].command = w})
            > Cardinality(Node)

\* A leader has applied all it has committed (into_candidate applies pending
\* entries "so that we're caught up if we win"): reads never see less.
LeaderCaughtUp == \A i \in Node : role[i] = "Leader" => applied_index[i] = commit_index[i]

\* Every request whose client waits is tracked by the client's node, as a
\* forwarded request of a follower or as a write or read of a leader, so that
\* the next change of term or leader aborts it.
WaitingRequestTracked ==
    \A id \in Request : client[id].status = "waiting" =>
        LET i == client[id].at
        IN  \/ role[i] = "Follower" /\ id \in forwarded[i]
            \/ /\ role[i] = "Leader"
               /\ \/ \E w \in writes[i] : w.id = id /\ w.from = i
                  \/ \E r \in reads[i] : r.id = id /\ r.from = i

\* While no node restarts, no message that reaches a node trips an assertion or
\* a panic, or makes splice() return an error.  (A leader that restarts gets the
\* responses to its own messages as a follower of the same term, and panics.)
NoPanic == faults.restarts = 0 =>
             \A i, j \in Node : Arrived(i, j) => ~Panics(i, Msg(i, j), j)

\* A read sees every write acknowledged before the read was submitted: the
\* linearizability that confirming leadership is to guarantee (leader.rs:57).
LinearizableReads == \A r \in Reads : client[r].status = "ok" => client[r].floor \subseteq client[r].view

\* The same for the reads served by a leader that had committed an entry of its
\* own term.
SettledReadsLinearizable ==
    \A r \in Reads : client[r].status = "ok" /\ client[r].settled
                        => client[r].floor \subseteq client[r].view

\* A committed prefix never shrinks or changes on any node, whatever splice()
\* truncates and whenever the node restarts.
CommittedPrefixStable ==
    [][\A i \in Node : /\ commit_index'[i] >= commit_index[i]
                       /\ commit_index[i] <= Len(log'[i])
                       /\ SubSeq(log'[i], 1, commit_index[i]) = SubSeq(log[i], 1, commit_index[i])]_vars

\* A client that waits is answered, or its node goes down.
EveryRequestAnswered == \A id \in Request : client[id].status = "waiting" ~> client[id].status # "waiting"

\* What a leader has proposed is committed there, unless the leader changes: "If
\* successful, it will eventually be committed and applied" (leader.rs:292).
ProposedIsCommitted ==
    \A i \in Node : role[i] = "Leader" ~> (role[i] # "Leader" \/ commit_index[i] = Len(log[i]))
=============================================================================
