\* The TXN_FOLLOW_UP check as region.cpp:498 has it (only while last_seq is
\* 0): a new leader that a stale call gave a txn runs a later statement
\* without the ones in between.
CONSTANTS
    NDml <- MCNDml
    MaxTries <- MCMaxTries
    MaxLeaderChanges = 2
SPECIFICATION Spec
INVARIANT
    PrepareComplete
CHECK_DEADLOCK FALSE
