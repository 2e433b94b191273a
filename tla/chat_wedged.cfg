SPECIFICATION Spec
CONSTANTS
    Streams = {s1}
    CutPoints <- ModelErrors
    Reanswer = FALSE
    MaxChats = 2
    MaxMessages = 1
    MaxAsks = 1
    MaxPosts = 1
    MaxCuts = 1
INVARIANT StoppedMeansApproval
CHECK_DEADLOCK FALSE
