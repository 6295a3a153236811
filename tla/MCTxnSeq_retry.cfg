\* A statement may fail on one run and succeed on another (a lock wait
\* timeout): a stale call that runs it again on a new leader and fails there
\* leaves its partial rows in the leader's txn and out of its cache plans.
CONSTANTS
    NDml <- MCNDml
    MaxTries <- MCMaxTries
    MaxLeaderChanges = 2
SPECIFICATION Spec
INVARIANT
    ReplicasAgree
CHECK_DEADLOCK FALSE
