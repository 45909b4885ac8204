\* Fair scheduling.  HTTP is served before Recover has succeeded, a write may
\* fail, and failed or deferred recoveries are retried.
CONSTANTS
    Jobs = {j1, j2}
    Requests = {r1}
    NoReq = NoReq
    NoJob = NoJob
    Workers = {w1}
    NumItems = 1
    ItemWorkers = 1
    QueueSize = 1
    LateRecovery = TRUE
    MaxFaults = 1
    MaxCrashes = 1
SPECIFICATION FairSpec
PROPERTIES AckedCompletes RecoveryEnds RecoveryRetried
