\* The barrier as the code has it: a writer that returned from
\* _disable_write_cond.timed_wait before the barrier went up is counted
\* only after the merge drained _real_writing_cond.
CONSTANTS
    w1 = w1
    w2 = w2
    NoInfo = NoInfo
    Writers <- MCWriters
    MaxRetry <- MCMaxRetry
    AtomicBarrier = FALSE
SPECIFICATION Spec
INVARIANTS
    AckedWritesReadable
CHECK_DEADLOCK FALSE
