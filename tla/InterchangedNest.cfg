SPECIFICATION FairSpec
CONSTANTS
    Nests <- SupportedNests
    PolyEnableInterchange = TRUE
INVARIANTS
    TypeOK
    AnalysisIsSound
    LoadsReadTheirSource
    MemoryIsPreserved
    ValidNestsAreInterchanged
    ExecutedIsPrefix
PROPERTIES
    RespectsDependences
    Terminates
