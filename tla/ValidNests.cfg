SPECIFICATION Spec
CONSTANTS
    Nests <- VendoredNests
    PolyEnableInterchange = TRUE
INVARIANTS
    ValidNestsAreInterchanged
