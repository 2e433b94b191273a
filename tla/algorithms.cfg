SPECIFICATION Spec
CONSTANTS
    MaxSegments = 5
    MaxTokens = 3
    MaxTime = 5
    MaxMessages = 7
    KeepRecent = 3
    Videos = {v1, v2, v3, v4}
    Pool = 3
    K = 2
    MaxUsage = 2
    MaxChunks = 3
    MaxScore = 1
    MaxLimit = 2
    EvaluatedChunks = 2
    MaxRelevant = 2
    MaxCandidates = 3
    FeedVideos = {v1, v2, v3}
    FeedChannels = {c1, c2}
    FeedCategories = {dev, music}
    Null = null
INVARIANTS ChunksCover ExcerptsTile CompactKeepsRecent
           BothBeatOne BilledOnce SemanticBestChunk HybridTellsTruth RerankKeepsCandidates
           RecallHonest CountsAgree
CHECK_DEADLOCK FALSE
