SPECIFICATION Spec
CONSTANTS
    Requests = {r1, r2}
    Videos = {v1, v2}
    CandidateLimit = 2
    BriefingLimit = 1
    MaxRequests = 2
    MaxFailures = 1
    MaxDays = 1
SYMMETRY Symmetry
INVARIANTS CachedIsSummarized CallsBounded TranscriptFirst
CHECK_DEADLOCK FALSE
