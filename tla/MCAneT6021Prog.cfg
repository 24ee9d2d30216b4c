SPECIFICATION UnmappedSpec
CONSTANTS
    Threads = {t1, t2}
    Files = {f1, f2}
    Digests = {d1}
    Ids = {i1, i2}
    None = None
    Bos = {b1, b2}
    Large = {}
    Size <- MCSize
    MaxPrograms = 2
    Budget = 1
    MinSize = 1
    TotalMax = 2
    MaxMaps = 0
    MaxRefs = 1
SYMMETRY Symmetry
INVARIANTS FwNeverSeesFreed Shared TableMatchesFirmware
PROPERTIES ProcessFirst
