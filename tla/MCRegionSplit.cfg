\* One split, normal or tail, racing three writers.  Deadlock checking is
\* off: the writers and the split are finite, so every behaviour ends in a
\* quiet region.
CONSTANTS
    w1 = w1
    w2 = w2
    w3 = w3
    NoWriter = NoWriter
    Writers <- MCWriters
    KeyOf <- MCKeyOf
    SplitKey <- MCSplitKey
    AddVersionTries <- MCAddVersionTries
SPECIFICATION Spec
INVARIANTS
    TypeOK
    ChildOwnsRange
PROPERTIES
    SplitSettles
CHECK_DEADLOCK FALSE
