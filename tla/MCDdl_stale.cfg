\* One peer, three jobs: an add rolled back into a drop, then a re-add,
\* while a second start_add_index bthread is still running.
CONSTANTS
    p1 = p1
    NoJob = NoJob
    NoWork = NoWork
    NoResp = NoResp
    Peers <- MCOnePeer
    Slots <- MCSlots
    Catalog <- MCCatalog
    DdlIndex = "k"
    DdlInfo <- MCDdlInfo
    MaxCands = 3
    PrimaryOffered = TRUE
    MaxJobs = 3
    MaxTs = 2
    MaxOther = 1
SPECIFICATION Spec
PROPERTIES
    PublicAfterBackfill
CHECK_DEADLOCK FALSE
