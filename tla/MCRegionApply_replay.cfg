\* on_snapshot_load replays prepared entries, each of which rewrites the
\* durable applied_index to its own log index, and restores it only after
\* the last one; the process may die in between.  Expected: ExactlyOnce is
\* violated when braft re-delivers already applied entries.
CONSTANTS
    t1 = t1
    t2 = t2
    a1 = a1
    Txns <- MCTxns
    Autos <- MCAutos
    NoTxn = NoTxn
    MaxLog = 4
    MaxCrashes = 2
    CrashInOnePcCommit = FALSE
    CrashInRecovery = TRUE
SPECIFICATION Spec
CHECK_DEADLOCK FALSE
INVARIANTS
    ExactlyOnce
