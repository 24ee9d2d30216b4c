SPECIFICATION UnmappedSpec
CONSTANTS
    Threads = {t1, t2}
    Files = {f1}
    Digests = {d1}
    Ids = {i1}
    None = None
    Bos = {b1, b2}
    Large = {}
    Size <- MCSize
    MaxPrograms = 1
    Budget = 1
    MinSize = 1
    TotalMax = 2
    MaxMaps = 0
    MaxRefs = 1
SYMMETRY Symmetry
INVARIANT HandedOutQuiet
