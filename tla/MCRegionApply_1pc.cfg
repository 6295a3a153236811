\* dml_1pc with txn_id # 0 writes the pre_commit key before txn->commit()
\* of a RocksDB txn that was never prepared; the process may die between
\* the two.  Expected: StateMatchesLog is violated after the restart.
CONSTANTS
    t1 = t1
    t2 = t2
    a1 = a1
    Txns <- MCTxns
    Autos <- MCAutos
    NoTxn = NoTxn
    MaxLog = 4
    MaxCrashes = 2
    CrashInOnePcCommit = TRUE
    CrashInRecovery = FALSE
SPECIFICATION Spec
CHECK_DEADLOCK FALSE
INVARIANTS
    StateMatchesLog
