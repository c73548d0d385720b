CONSTANTS
    k1 = k1
    k2 = k2
    a = a
    Key = {k1, k2}
    Value = {a}
    None = None
    MaxVersion = 4
    MaxReaders = 1
    MaxRecords = 3
SYMMETRY KeySymmetry
CONSTRAINT Bounded
SPECIFICATION Spec
CHECK_DEADLOCK FALSE
INVARIANTS
    WriteRecordsExact
    ReadsSeeSnapshot
    WritesOnTop
    LatestVersionDecides
PROPERTIES
    SnapshotsStable
    ProvidesSnapshotIsolation
