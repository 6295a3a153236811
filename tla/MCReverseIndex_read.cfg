\* A recommend index (level-3 cache), readers against the merge.
CONSTANTS
    Miss = Miss
    Terms <- MCTerms
    Pks <- MCPks
    MaxWrites = 3
    SecondLen = 1
    CachedLen = 1
    IsOverCache = TRUE
SPECIFICATION Spec
INVARIANTS
    ReadCorrect
CHECK_DEADLOCK FALSE
