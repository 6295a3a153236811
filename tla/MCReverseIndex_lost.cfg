\* A fulltext index, the merge deleting the level-1 nodes its iterator read.
CONSTANTS
    Miss = Miss
    Terms <- MCTerms
    Pks <- MCPks
    MaxWrites = 3
    SecondLen = 2
    CachedLen = 1
    IsOverCache = FALSE
SPECIFICATION Spec
PROPERTIES
    Refines
CHECK_DEADLOCK FALSE
