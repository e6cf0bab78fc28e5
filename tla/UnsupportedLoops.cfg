SPECIFICATION Spec
CONSTANTS
    Programs <- UnsupportedPrograms
INVARIANTS
    CandidatesAreSupported
