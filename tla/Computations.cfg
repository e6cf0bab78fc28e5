SPECIFICATION MCFairSpec
CONSTANTS
    Depth = 3
    Wide = 4
    Narrow = 3
    Points <- SomePoints
    NarrowSymbols = {"m"}
    Constants = {3}
    MaxNodes = 7
    Letters = {"i", "p"}
    Digits = {"0", "1"}
    Others = {".", "_", "%"}
    FirstNames <- Mem2RegNames
    Suffix <- Interchanged
    Square <- UnitSquare
    Domains <- Boxes
    Accesses <- SomeAccesses
    MaxAccesses = 2
    MaxFuel = 12
    NoMap = NoMap
    N = 4
    Questions <- SomeQuestions
INVARIANTS
    MCTypeOK
    ExpressionsAreRight
    PlainTextIsReadBack
    DimensionsAreNames
    ObjectsAreOwned
    LegalityHasAllDependences
    DependencesAreRight
    GraphIsDecomposed
    ComponentsAreGiven
PROPERTIES
    NoCallAfterAnError
    ComputationsEnd
