\* Two jobs with the same input, one of two items: items run side by side, and
\* a later one may be answered from the cache.  It stops when both jobs are
\* completed.
CONSTANTS
    k1 = k1
    j1 = j1
    j2 = j2
    i1 = i1
    i2 = i2
    i3 = i3
    Jobs = {j1, j2}
    Items = {i1, i2, i3}
    ItemsOf <- TwoAndOne
    Keys = {k1}
    Key <- SameKey
    MaxFaults = 2
    MaxCrashes = 1
SPECIFICATION Spec
SYMMETRY Symmetry
INVARIANTS TypeOK NamedBeforeVisible CrashIsTransparent CacheHoldsCommitted
PROPERTIES SuccessIsVouched RecoveryFindsArtifacts RecoveryFitsLifecycle
CHECK_DEADLOCK FALSE
