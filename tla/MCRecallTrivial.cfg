SPECIFICATION RecallSpec
CONSTANTS
    Exchanges = {e1, e2}
    Direct = {e2}
    Features <- MCFeatures
    Searches = {q1}
    Limit = 1
    Days = {0, 179, 180}
    MaxOutages = 1
INVARIANT TrivialIsOverdue
