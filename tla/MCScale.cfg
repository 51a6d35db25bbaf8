CONSTANTS
    SAMEVALUE_CNT = 2
    TimeOut = 1
    Heard <- MCHeard
    Urls = {"a", "b"}
    Triples <- MCTriples
    MaxTime = 2
    MaxFrames = 5
SPECIFICATION Spec
CHECK_DEADLOCK FALSE
INVARIANTS
    PostsWhenDue
    PostsToTargets
    TargetsAsConfigured
