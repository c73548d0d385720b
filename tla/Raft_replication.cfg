CONSTANTS
    n1 = n1
    n2 = n2
    n3 = n3
    w1 = w1
    r1 = r1
    Nil = Nil
    Noop = Noop
    Node = {n1, n2, n3}
    Writes = {w1}
    Reads = {r1}
    Statuses = {}
    Capacity = 2
    MaxTerm = 3
    Backlog = 0
    MaxRestarts = 1
    MaxLosses = 0
    MaxReorders = 0
    MaxInFlight = 4
    MaxFaults = 1
    Campaigners = {n1, n2, n3}
    Gateways = {n1, n2}
    Readers = {n1}
    First = n1
    Second = n2
    Third = n3
SPECIFICATION ReplicationSpec
CONSTRAINT Within
CHECK_DEADLOCK FALSE
INVARIANTS
    OneVotePerTerm
    LogMatching
    LeaderCompleteness
    LeaderCaughtUp
    CommittedLogsAgree
    AcknowledgedWritesDurable
    WaitingRequestTracked
    SettledReadsLinearizable
    NoPanic
PROPERTIES
    CommittedPrefixStable
