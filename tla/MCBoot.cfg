SPECIFICATION Spec
CONSTANTS
    Parts = {"h13", "ascdbg", "h15", "h16", "h18", "malloc", "m2", "prep", "probe", "patch", "raise", "dart", "pages"}
INVARIANTS Unwound CoreKeepsMemory NoBlindMmio RtkOrder SharedSound TranslationExact
PROPERTIES RunAfterPreflight MappingsKept MapsWhole
CHECK_DEADLOCK FALSE
