SPECIFICATION Spec
CONSTANTS
    Nests <- AllVendoredNests
    PolyEnableInterchange = TRUE
INVARIANTS
    DomainHoldsAllInstances
