\* A fulltext index (no level-3 cache): two terms, two documents, three
\* writes, level 2 moved down at two nodes.
CONSTANTS
    Miss = Miss
    Terms <- MCTerms
    Pks <- MCPks
    MaxWrites = 3
    SecondLen = 2
    CachedLen = 1
    IsOverCache = FALSE
SPECIFICATION Spec
INVARIANTS
    TypeOK
    ReadCorrect
PROPERTIES
    L1Drains
CHECK_DEADLOCK FALSE
