SPECIFICATION FairSpec
CONSTANTS
    Streams = {s1, s2}
    CutPoints <- AllPoints
    Reanswer = TRUE
    MaxChats = 2
    MaxMessages = 1
    MaxAsks = 1
    MaxPosts = 2
    MaxCuts = 1
INVARIANTS DenyByDefault
PROPERTIES DecidedWakes
CHECK_DEADLOCK FALSE
