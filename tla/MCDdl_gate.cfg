\* One peer, one add and one split.
CONSTANTS
    p1 = p1
    NoJob = NoJob
    NoWork = NoWork
    NoResp = NoResp
    Peers <- MCOnePeer
    Slots <- MCSlots
    Catalog <- MCCatalog
    DdlIndex = "k"
    DdlInfo <- MCDdlInfo
    MaxCands = 3
    PrimaryOffered = TRUE
    MaxJobs = 1
    MaxTs = 2
    MaxOther = 1
SPECIFICATION Spec
INVARIANTS
    GateHeld
CHECK_DEADLOCK FALSE
