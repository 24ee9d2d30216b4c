SPECIFICATION HostSpec
CONSTANTS
    Parts = {"lib", "tile", "session", "m2", "build", "run", "overlay", "adt", "pool"}
    Threads = {t1, t2}
    Files = {f1}
    Digests = {d1}
    Ids = {i1}
    Bos = {b1, b2}
    None = None
    Size <- mcSize
    MaxPrograms = 1
    Budget = 1
    MinSize = 1
    TotalMax = 2
    MaxMaps = 2
    MaxRefs = 1
SYMMETRY Symmetry
INVARIANTS ReleasesAll ProgramsSound DataKept TreesAgree Accounted
PROPERTY FailureFinal
CHECK_DEADLOCK FALSE
