SPECIFICATION Spec
CONSTANTS
    Producers = {p1}
    NSlots = 2
    Submits = 3
    MaxTime = 3
    Reads = 1
CHECK_DEADLOCK FALSE
INVARIANT TimelineNeverTorn
