SPECIFICATION ServicesSpec
CONSTANTS
    small = small
    large = large
    Models = {small, large}
    NoModel = NoModel
    DefaultModel = small
    Dim <- MCDim
    Callers = {t1, t2}
    Loader = loader
    Free = Free
    MaxFailures = 2
    BatchSize = 2
    MaxRetries = 1
    SmtpAttempts = 2
    MaxEvents = 3
    Client = {c1}
    Request = {r1, r2, r3}
    NoRequest = NoRequest
    NoClient = NoClient
    MaxPolls = 3
    MaxCrashes = 2
INVARIANT LabelledRight
PROPERTY ImplementsContract
PROPERTY LoaderRecovers
INVARIANT GivenUpLast
INVARIANT OvertakenOnlyInBatch
PROPERTY EveryEventSettled
INVARIANT AtMostOnce
INVARIANT ToldTheTruth
PROPERTY EveryClientTold
CHECK_DEADLOCK FALSE
