SPECIFICATION Spec
CONSTANTS
    Depth = 2
INVARIANTS
    LegalityIsProved
