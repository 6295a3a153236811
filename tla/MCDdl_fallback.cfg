\* One peer, an add then a drop or re-add, two seconds, two backfill
\* bthreads, one split.
CONSTANTS
    p1 = p1
    NoJob = NoJob
    NoWork = NoWork
    NoResp = NoResp
    Peers <- MCOnePeer
    Slots <- MCSlots
    Catalog <- MCCatalog
    DdlIndex = "k"
    DdlInfo <- MCDdlInfo
    MaxCands = 3
    PrimaryOffered = FALSE
    MaxJobs = 2
    MaxTs = 2
    MaxOther = 1
SPECIFICATION Spec
INVARIANT ScanReadsBuiltIndex
CHECK_DEADLOCK FALSE
