SPECIFICATION FairSpec
CONSTANTS
    Programs <- SomePrograms
INVARIANTS
    TypeOK
    ResultIsHonest
    IslIsReleased
    InnerNestsComeFirst
    ExchangedBoundsAreInvariant
PROPERTIES
    Terminates
