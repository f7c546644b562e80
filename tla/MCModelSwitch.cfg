SPECIFICATION BothSpec
CONSTANTS
    Calls = {c1, c2}
    Chat = chat
    Code = code
    Single = inference
    chatModel = chatModel
    codeModel = codeModel
    Models = {chatModel, codeModel}
    Target <- MCTarget
    NoModel = NoModel
    MaxWait = 2
    QueueSize = 2
    MaxEntries = 5
INVARIANT ReportIsTrue
PROPERTY LayoutLostByFailedStart
PROPERTY EverySwitchReturns
INVARIANT StoredInOrder
INVARIANT StopDrains
PROPERTY EveryEntrySettled
CHECK_DEADLOCK FALSE
