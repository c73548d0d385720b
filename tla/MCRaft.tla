------------------------------- MODULE MCRaft -------------------------------
(***************************************************************************)
(* Small instances of Raft for TLC.  Runs start from the empty cluster     *)
(* (Spec), from the state an undisturbed first election leads to           *)
(* (EstablishedSpec) or from logs that a change of leader left divergent   *)
(* (Diverged, in MCReplication), and explore the behaviours within         *)
(* Bounded.                                                                *)
(***************************************************************************)
EXTENDS Raft

CONSTANTS Campaigners, \* bound: nodes whose election timer fires
          Gateways,    \* bound: nodes that clients are connected to
          Readers,     \* bound: those of them that get reads
          MaxInFlight, \* bound: messages on all links together
          First,       \* the leader of an established cluster
          Second       \* the leader that replaces it

InFlight == Cardinality({p \in Node \X Node \X (1..Capacity) : p[3] <= Len(net[p[1]][p[2]])})

Bounded == /\ InFlight <= MaxInFlight
           /\ \A n \in Node : role[n] = "Candidate" => n \in Campaigners
           /\ \A id \in Request : client[id].at \in Gateways \cup {Nil}
           /\ \A id \in Reads : client[id].at \in Readers \cup {Nil}

\* Nodes that only vote and replicate are interchangeable.
VoterSymmetry == Permutations(Node \ (Campaigners \cup Gateways))

\* First was elected in term 1 with every vote and its noop is committed and
\* applied everywhere.  Some faults are left to happen.
Established(left) ==
    /\ role = [n \in Node |-> IF n = First THEN "Leader" ELSE "Follower"]
    /\ term = [n \in Node |-> 1]
    /\ voted_for = [n \in Node |-> First]
    /\ log = [n \in Node |-> <<[term |-> 1, command |-> Noop]>>]
    /\ commit_index = [n \in Node |-> 1]
    /\ applied_index = [n \in Node |-> 1]
    /\ leader = [n \in Node |-> IF n = First THEN Nil ELSE First]
    /\ forwarded = [n \in Node |-> {}]
    /\ votes = [n \in Node |-> {}]
    /\ progress = [n \in Node |->
                    [o \in Node |-> IF n = First /\ o # First
                                    THEN [next |-> 2, last |-> 1, read_seq |-> 0]
                                    ELSE NoProgress[o]]]
    /\ writes = [n \in Node |-> {}]
    /\ reads = [n \in Node |-> {}]
    /\ read_seq = [n \in Node |-> 0]
    /\ net = [n \in Node |-> [o \in Node |-> <<>>]]
    /\ client = [id \in Request |-> Idle]
    /\ faults = [restarts |-> 0, losses |-> 0, reorders |-> 0, left |-> left]
    /\ ballots = {<<n, 1, First>> : n \in Node}

EstablishedSpec == Established(MaxFaults) /\ [][Next]_vars

\* From there: First proposed a write and its messages were lost, Second was
\* elected in term 2 by the third node and First has stepped down.  The logs of
\* First and Second differ at index 2, and Second's first messages are in flight.
Diverged(left) ==
    LET write == CHOOSE w \in Writes : TRUE
        noop(t) == [term |-> t, command |-> Noop]
        hello == <<[type |-> "Heartbeat", term |-> 2, commit_index |-> 1, commit_term |-> 1,
                    read_seq |-> 0],
                   [type |-> "Append", term |-> 2, base_index |-> 1, base_term |-> 1,
                    entries |-> <<noop(2)>>]>>
    IN  /\ role = [n \in Node |-> IF n = Second THEN "Leader" ELSE "Follower"]
        /\ term = [n \in Node |-> 2]
        /\ voted_for = [n \in Node |-> IF n = First THEN Nil ELSE Second]
        /\ log = [n \in Node |->
                    CASE n = First -> <<noop(1), [term |-> 1, command |-> write]>>
                      [] n = Second -> <<noop(1), noop(2)>>
                      [] OTHER -> <<noop(1)>>]
        /\ commit_index = [n \in Node |-> 1]
        /\ applied_index = [n \in Node |-> 1]
        /\ leader = [n \in Node |-> Nil]
        /\ forwarded = [n \in Node |-> {}]
        /\ votes = [n \in Node |-> {}]
        /\ progress = [n \in Node |->
                        [o \in Node |-> [next |-> IF n = Second THEN 2 ELSE 1,
                                         last |-> 0, read_seq |-> 0]]]
        /\ writes = [n \in Node |-> {}]
        /\ reads = [n \in Node |-> {}]
        /\ read_seq = [n \in Node |-> 0]
        /\ net = [n \in Node |-> [o \in Node |-> IF n = Second /\ o # Second THEN hello
                                                                        ELSE <<>>]]
        /\ client = [id \in Request |-> [Idle EXCEPT !.status = "abort", !.at = First]]
        /\ faults = [restarts |-> 0, losses |-> Cardinality(Peers(First)), reorders |-> 0, left |-> left]
        /\ ballots = {<<n, 1, First>> : n \in Node} \cup {<<n, 2, Second>> : n \in Peers(First)}
=============================================================================
