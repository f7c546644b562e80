SPECIFICATION BothSpec
CONSTANTS
    Lookups = {l1, l2}
    Startup = startup
    Roles = {someRole}
    NoRole = NoRole
    NoEntry = NoEntry
    Ttl = 1
    MaxLatency = 1
    CalmPrewarming = TRUE
    MaxRestarts = 1
    MaxClock = 3
    Writers = {w1, w2}
    BatchSize = 2
    MaxConversations = 2
    MaxImports = 1
SYMMETRY Symmetry
INVARIANT PermissionsFresh
INVARIANT InvalidationWorks
INVARIANT SyncedIsIndexed
INVARIANT OnlyRestoredForgotten
PROPERTY RowsStayGone
CHECK_DEADLOCK FALSE
