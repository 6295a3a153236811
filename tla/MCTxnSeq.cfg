\* Three DML statements, two calls per statement, two leader changes.
CONSTANTS
    NDml <- MCNDml
    MaxTries <- MCMaxTries
    MaxLeaderChanges = 2
SPECIFICATION Spec
INVARIANTS
    TypeOK
\* The behaviour ends when the client is done or has given up and the
\* network has drained.
CHECK_DEADLOCK FALSE
