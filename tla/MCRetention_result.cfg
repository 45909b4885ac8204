\* A short job that was queued for STATE_RETENTION completes while the
\* janitor looks at its record.
CONSTANTS
    Jobs = {j1, j2}
    Artifacts = {a1, a2}
    Inputs = {i1}
    JobWorkers = 1
    ArtifactRetention = 3
    StateRetention = 2
    CacheRetention = 1
    StagingRetention = 1
    JobTicks = 0
    MaxMisses = 0
    MaxFaults = 0
    MaxCrashes = 1
SPECIFICATION Spec
SYMMETRY Symmetry
PROPERTY ResultsRetained
