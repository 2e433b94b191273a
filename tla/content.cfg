SPECIFICATION Spec
CONSTANTS
    v1 = v1
    v2 = v2
    c1 = c1
    c2 = c2
    Videos = {v1, v2}
    Categories = {c1, c2}
    CategoryVideos <- SharedVideos
    Runs = {r1, r2}
    Clicks = {k1, k2}
    All = all
    MaxNavigations = 2
    MaxChanges = 3
    MaxClicks = 2
SYMMETRY Symmetry
INVARIANTS BadgedOnce LateCardsBadged FilterHonest
CHECK_DEADLOCK FALSE
