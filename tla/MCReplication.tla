---------------------------- MODULE MCReplication ----------------------------
(***************************************************************************)
(* Raft for TLC from two starting points at once, with bounds of their     *)
(* own: an established cluster that serves clients while its leader is     *)
(* replaced, and logs that a change of leader left divergent, repaired     *)
(* while two rivals campaign and a node restarts.                          *)
(***************************************************************************)
EXTENDS MCRaft

CONSTANTS Third  \* the node that is neither First nor Second

\* Nodes restart only while logs are repaired.
ReplicationSpec == (Established(0) \/ Diverged(MaxFaults)) /\ [][Next]_vars

\* The logs diverged because the messages with First's write were lost.
StartedDiverged == faults.losses > 0

Candidates == {n \in Node : role[n] = "Candidate"}

\* Second takes over from First; clients write at both and read at First.
ServesClients == /\ Candidates \subseteq {Second}
                 /\ \A n \in Node : term[n] <= 2
                 /\ \A id \in Request : client[id].at \in {First, Second, Nil}
                 /\ \A id \in Reads : client[id].at \in {First, Nil}

\* First and Third compete in term 3.
RepairsLogs == Candidates \subseteq {First, Third}

\* A restart takes the place of a message in flight.
Within == /\ InFlight + faults.restarts <= MaxInFlight
          /\ IF StartedDiverged THEN RepairsLogs ELSE ServesClients
=============================================================================
