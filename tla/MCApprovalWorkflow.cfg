SPECIFICATION FairSpec
CONSTANTS
    Requests = {r1}
    Responders = {p1, p2}
    Nobody = Nobody
    Waiter = Waiter
    NoJob = NoJob
    Kinds <- MostKinds
    IdForms <- AnyIds
    DbMayFail = TRUE
    CleanupRuns = TRUE
    MaxCrashes = 1
INVARIANT ExecutionAuthorised
INVARIANT VerdictMatchesRow
PROPERTY EveryCallAnswered
PROPERTY ImplementsDecision
CHECK_DEADLOCK FALSE
