CONSTANTS
    n1 = n1
    n2 = n2
    n3 = n3
    n4 = n4
    s1 = s1
    Nil = Nil
    Noop = Noop
    Node = {n1, n2, n3, n4}
    Writes = {}
    Reads = {}
    Statuses = {s1}
    Capacity = 2
    MaxTerm = 1
    Backlog = 0
    MaxRestarts = 0
    MaxLosses = 1
    MaxReorders = 1
    MaxInFlight = 6
    MaxFaults = 1
    Campaigners = {n1, n2}
    Gateways = {n1}
    Readers = {n1}
    First = n1
    Second = n2
SPECIFICATION Spec
CONSTRAINT Bounded
SYMMETRY VoterSymmetry
CHECK_DEADLOCK FALSE
INVARIANTS
    ElectionSafety
