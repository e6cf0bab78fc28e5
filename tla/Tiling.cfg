SPECIFICATION Spec
CONSTANTS
    Programs <- SomePrograms
INVARIANTS
    TilingDoesNotCrash
