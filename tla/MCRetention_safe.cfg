\* Two jobs at once share an artifact through the cache while a pass goes on,
\* and an artifact may be old before its cache entry is.
CONSTANTS
    Jobs = {j1, j2}
    Artifacts = {a1, a2}
    Inputs = {i1}
    JobWorkers = 2
    ArtifactRetention = 3
    StateRetention = 1
    CacheRetention = 3
    StagingRetention = 1
    JobTicks = 1
    MaxMisses = 0
    MaxFaults = 1
    MaxCrashes = 1
SPECIFICATION Spec
SYMMETRY Symmetry
INVARIANTS TypeOK ResultsResolve
PROPERTIES UnfinishedStay InputsStay
