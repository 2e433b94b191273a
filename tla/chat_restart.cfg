SPECIFICATION FairSpec
CONSTANTS
    Streams = {s1}
    CutPoints <- RestartPoints
    Reanswer = FALSE
    MaxChats = 3
    MaxMessages = 2
    MaxAsks = 2
    MaxPosts = 3
    MaxCuts = 2
INVARIANTS OnlyAllowedCallsRun RunsAtMostOnce OneDialogPerCall
PROPERTIES GateSpec StreamFinishes
CHECK_DEADLOCK FALSE
