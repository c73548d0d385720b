CONSTANTS
    n1 = n1
    n2 = n2
    w1 = w1
    r1 = r1
    Nil = Nil
    Noop = Noop
    Node = {n1, n2}
    Writes = {w1}
    Reads = {r1}
    Statuses = {}
    Capacity = 8
    MaxTerm = 2
    Backlog = 0
    MaxRestarts = 0
    MaxLosses = 0
    MaxReorders = 0
    MaxInFlight = 4
    MaxFaults = 1
    Campaigners = {n1, n2}
    Gateways = {n1}
    Readers = {n1}
    First = n1
    Second = n2
SPECIFICATION FairSpec
CHECK_DEADLOCK FALSE
PROPERTIES
    EveryRequestAnswered
    ProposedIsCommitted
