SPECIFICATION FairSpec
CONSTANTS
    Videos = {v1, v2}
    Workers = {w}
    Clis = {cli}
    Limit = 1
    BatchSize = 1
    MaxAborts = 1
INVARIANT ChunksBehindLevel
PROPERTIES PromiseKept EverythingIndexed
CHECK_DEADLOCK FALSE
