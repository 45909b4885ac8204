\* Recovery precedes service; store writes may fail, the process may crash.
CONSTANTS
    Jobs = {j1, j2}
    Requests = {r1, r2}
    NoReq = NoReq
    NoJob = NoJob
    Workers = {w1, w2}
    NumItems = 2
    ItemWorkers = 2
    QueueSize = 1
    LateRecovery = FALSE
    MaxFaults = 1
    MaxCrashes = 2
SPECIFICATION Spec
SYMMETRY Symmetry
INVARIANTS TypeOK OneOwner AckedIsKept NoStrandedJob Ownership
PROPERTIES CompletedIsFinal DurableItemSurvives ImplementsPromise
