SPECIFICATION Spec
CONSTANTS
    Producers = {p1}
    NSlots = 2
    Submits = 1
    MaxTime = 3
    Reads = 2
CHECK_DEADLOCK FALSE
INVARIANT BusyMonotone
