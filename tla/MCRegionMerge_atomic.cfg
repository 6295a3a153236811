\* The merge with a writer's disable wait and count taken in one step:
\* acknowledged writes stay readable.
CONSTANTS
    w1 = w1
    w2 = w2
    NoInfo = NoInfo
    Writers <- MCWriters
    MaxRetry <- MCMaxRetry
    AtomicBarrier = TRUE
SPECIFICATION Spec
INVARIANTS
    AckedWritesReadable
CHECK_DEADLOCK FALSE
