SPECIFICATION Spec
CONSTANTS
    Streams = {s1}
    CutPoints <- AllPoints
    Reanswer = FALSE
    MaxChats = 3
    MaxMessages = 2
    MaxAsks = 1
    MaxPosts = 1
    MaxCuts = 1
INVARIANT OnlyAllowedCallsRun
CHECK_DEADLOCK FALSE
