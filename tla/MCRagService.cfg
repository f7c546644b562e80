SPECIFICATION Spec
CONSTANTS
    guide = guide
    notes = notes
    small = small
    large = large
    Docs = {guide, notes}
    Dirs <- MCDirs
    Texts <- MCTexts
    Models = {small, large}
    Dim <- MCDim
    Calls = {c1, c2}
    MinSize = 2
    ChunkSize = 3
    Overlap = 1
    MaxChars = 4
    Batch = 2
    Ttl = 1
    MaxAnswer = 1
    NoEntry = NoEntry
    MaxUploads = 2
    MaxReloads = 1
    MaxRestarts = 1
    MaxTime = 3
SYMMETRY Symmetry
INVARIANT LatestIsWhole
INVARIANT MetadataFollows
INVARIANT UsableIsRecent
INVARIANT RefusedOnlyAfterExchange
CHECK_DEADLOCK FALSE
