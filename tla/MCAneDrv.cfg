SPECIFICATION Spec
CONSTANTS
    Threads = {t1, t2}
    Bos = {b1, b2}
    Handles = {h1, h2}
    NIova = 2
    ScratchMax = 1
    None = None
SYMMETRY Symmetry
INVARIANTS TypeOK DmaSafe RangesOwned WedgeSound
    BarsNotStale EnginePowered NothingForgotten
PROPERTIES WedgedKeepsMappings SuccessIsOwn
