\* Retentions in the order of the defaults; the mount may be away for a moment,
\* so that two jobs replace each other's cache entry.
CONSTANTS
    Jobs = {j1, j2}
    Artifacts = {a1, a2}
    Inputs = {i1}
    JobWorkers = 2
    ArtifactRetention = 2
    StateRetention = 1
    CacheRetention = 1
    StagingRetention = 1
    JobTicks = 0
    MaxMisses = 1
    MaxFaults = 0
    MaxCrashes = 0
SPECIFICATION FairSpec
INVARIANT ResultsResolve
PROPERTY Reclaimed
