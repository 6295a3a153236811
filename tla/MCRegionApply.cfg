\* Crash-recovery of the apply path, with crashes allowed everywhere except
\* inside dml_1pc's pre_commit/commit window and inside the replay of
\* on_snapshot_load (each has its own run).
CONSTANTS
    t1 = t1
    t2 = t2
    a1 = a1
    Txns <- MCTxns
    Autos <- MCAutos
    NoTxn = NoTxn
    MaxLog = 4
    MaxCrashes = 2
    CrashInOnePcCommit = FALSE
    CrashInRecovery = FALSE
SPECIFICATION Spec
CHECK_DEADLOCK FALSE
INVARIANTS
    TypeOK
    ExactlyOnce
    StateMatchesLog
PROPERTIES
    AllApplied
