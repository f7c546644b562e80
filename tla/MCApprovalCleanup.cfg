SPECIFICATION MaintainedSpec
CONSTANTS
    Requests = {r1}
    Responders = {p1}
    Nobody = Nobody
    Waiter = Waiter
    NoJob = NoJob
    Kinds <- MostKinds
    IdForms <- AnyIds
    DbMayFail = FALSE
    CleanupRuns = FALSE
    MaxCrashes = 1
PROPERTY EveryRowDecided
CHECK_DEADLOCK FALSE
