SPECIFICATION RootsSpec
CONSTANTS
    Nests <- SafeNests
    PolyEnableInterchange = TRUE
INVARIANTS
    RootsTypeOK
    LoadsReadTheirSource
    FreshNestsAreInterchanged
PROPERTIES
    RespectsDependences
