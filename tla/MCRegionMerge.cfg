\* The merge with the barrier as the code has it (the wait and the count are
\* two steps), checking the meta server's routing.  Deadlock checking is
\* off: two writers and a merged-away S leave nothing more to do.
CONSTANTS
    w1 = w1
    w2 = w2
    NoInfo = NoInfo
    Writers <- MCWriters
    MaxRetry <- MCMaxRetry
    AtomicBarrier = FALSE
SPECIFICATION Spec
INVARIANTS
    TypeOK
    MetaRoutesToLive
PROPERTIES
    MergeRouted
CHECK_DEADLOCK FALSE
