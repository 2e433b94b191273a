SPECIFICATION Spec
CONSTANTS
    Channels = {c1, c2}
    Slugs = {etc, dev}
    Default = etc
    Sorters = {p1, p2}
    MaxRuns = 3
    MaxAborts = 1
INVARIANTS UserChoiceKept AutoIsReviewed PaidOnce
CHECK_DEADLOCK FALSE
