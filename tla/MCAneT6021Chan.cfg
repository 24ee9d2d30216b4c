SPECIFICATION Spec
CONSTANTS
    CmdSlots = 2
    MallocSlots = 2
    EventSlots = 2
    Slots = 3
    MaxBytes = 3
    Dmas = {d0, d1, d2}
    CmdBuf = d0
    None = None
    MaxSettle = 2
    MaxCalls = 3
SYMMETRY Symmetry
CHECK_DEADLOCK FALSE
INVARIANTS OwnFinish RingsInStep LegacyTable
