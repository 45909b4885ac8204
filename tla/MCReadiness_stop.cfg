\* A probe publishes its result during the shutdown.
CONSTANTS
    Probes = {p1, p2}
    MaxHangs = 2
    MaxFlips = 2
SPECIFICATION Spec
SYMMETRY Symmetry
INVARIANT StoppedIsUnready
CHECK_DEADLOCK FALSE
