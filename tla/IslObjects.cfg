SPECIFICATION MCSpec
CONSTANTS
    Keys <- KeyNames
    HashOf <- Hashes
    Ids = {1, 2, 3, 4, 5, 6}
    NoId = NoId
    AddressFor <- Addresses
    MaxHandles = 2
    Handles = {h1, h2}
    Values = {0, 1}
    Objects = {1, 2, 3, 4, 5, 6, 7}
    MaxLen = 2
    MaxMemory = 3
    Null = Null
    Blocks = {b1, b2, b3, b4, b5}
    Sizes = {0, 1, 2, 3, 6}
    CacheSize = 3
    MaxMiss = 2
    Slack = 2
SYMMETRY Symmetry
VIEW StateView
INVARIANTS
    MCTypeOK
    IdsAreFound
    ReferencesAreExact
    BlocksAreOwned
    CacheServes
PROPERTIES
    IdsAreInterned
    ListsAreValues
