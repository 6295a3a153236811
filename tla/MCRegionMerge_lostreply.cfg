\* D applies OP_ADJUSTKEY_AND_ADD_VERSION but its answer to S is lost.
CONSTANTS
    w1 = w1
    w2 = w2
    NoInfo = NoInfo
    Writers <- MCWriters
    MaxRetry <- MCMaxRetry
    AtomicBarrier = TRUE
SPECIFICATION Spec
INVARIANTS
    RangesDisjoint
CHECK_DEADLOCK FALSE
