CONSTANTS
    n1 = n1
    n2 = n2
    w1 = w1
    w2 = w2
    Nil = Nil
    Noop = Noop
    Node = {n1, n2}
    Writes = {w1, w2}
    Reads = {}
    Statuses = {}
    Capacity = 3
    MaxTerm = 2
    Backlog = 0
    MaxRestarts = 0
    MaxLosses = 0
    MaxReorders = 1
    MaxInFlight = 6
    MaxFaults = 1
    Campaigners = {n2}
    Gateways = {n1}
    Readers = {n1}
    First = n1
    Second = n2
SPECIFICATION EstablishedSpec
CONSTRAINT Bounded
CHECK_DEADLOCK FALSE
INVARIANTS
    AcknowledgedWritesDurable
