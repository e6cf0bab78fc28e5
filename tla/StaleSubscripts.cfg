SPECIFICATION RootsSpec
CONSTANTS
    Nests <- StaleNests
    PolyEnableInterchange = TRUE
INVARIANTS
    LoadsReadTheirSource
