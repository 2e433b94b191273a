SPECIFICATION Spec
CONSTANTS
    Conns = {c1, c2}
    Videos = {v1, v2, v3}
    Older = {v1}
    MaxMemories = 2
    MaxRecalls = 2
INVARIANTS EveryVideoFound FoundOnce UsesCounted
CHECK_DEADLOCK FALSE
