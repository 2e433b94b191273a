SPECIFICATION SubFairSpec
CONSTANTS
    Clients = {1, 2}
    Chats = {h1}
    DailyLimit = 2
    MonthlyLimit = 3
    MaxCall = 1
    MaxCalls = 2
    MaxLosses = 1
    Videos = {v1, v2}
    Stored = {v1}
    MaxVideoIds = 2
    MaxIds = 3
    MaxBatches = 1
INVARIANTS EachAnswersItsVideo SpendBounded
PROPERTY BatchReturns
CHECK_DEADLOCK FALSE
