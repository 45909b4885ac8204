\* HTTP is served before Recover has succeeded.
CONSTANTS
    Jobs = {j1}
    Requests = {r1, r2}
    NoReq = NoReq
    NoJob = NoJob
    Workers = {w1, w2}
    NumItems = 1
    ItemWorkers = 1
    QueueSize = 1
    LateRecovery = TRUE
    MaxFaults = 0
    MaxCrashes = 1
SPECIFICATION Spec
PROPERTIES CompletedIsFinal

