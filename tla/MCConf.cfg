CONSTANTS
    Tokens <- MCTokens
    Files <- MCFiles
    NumberOf <- MCNumberOf
    LineMax = 10
SPECIFICATION Spec
CHECK_DEADLOCK FALSE
INVARIANTS
    CommentsIgnored
    ContinuationJoins
    ValuesAsWritten
