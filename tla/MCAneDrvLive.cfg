SPECIFICATION RecoverySpec
CONSTANTS
    Threads = {t1}
    Bos = {b1}
    Handles = {h1}
    NIova = 2
    ScratchMax = 1
    None = None
PROPERTIES CallsReturn WedgeRetires
