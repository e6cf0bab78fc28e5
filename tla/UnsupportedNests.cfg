SPECIFICATION FairSpec
CONSTANTS
    Nests <- OddOrVendoredNests
    PolyEnableInterchange = TRUE
INVARIANTS
    IterationSpaceIsPreserved
    NothingIsRewritten
PROPERTIES
    Terminates
