CONSTANTS
    n1 = n1
    n2 = n2
    n3 = n3
    w1 = w1
    r1 = r1
    Nil = Nil
    Noop = Noop
    Node = {n1, n2, n3}
    Writes = {w1}
    Reads = {r1}
    Statuses = {}
    Capacity = 4
    MaxTerm = 2
    Backlog = 0
    MaxRestarts = 0
    MaxLosses = 0
    MaxReorders = 0
    MaxInFlight = 7
    MaxFaults = 1
    Campaigners = {n2}
    Gateways = {n1, n2}
    Readers = {n1, n2}
    First = n1
    Second = n2
SPECIFICATION EstablishedSpec
CONSTRAINT Bounded
CHECK_DEADLOCK FALSE
INVARIANTS
    LinearizableReads
