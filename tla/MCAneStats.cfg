SPECIFICATION Spec
CONSTANTS
    Producers = {p1, p2}
    NSlots = 2
    Submits = 3
    MaxTime = 2
    Reads = 1
SYMMETRY Symmetry
CHECK_DEADLOCK FALSE
INVARIANTS InflightExact PeriodsAreUnion SnapshotElapsed TimelineExact
