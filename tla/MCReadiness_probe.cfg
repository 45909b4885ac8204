\* Probes that hang or answer late while the mount comes and goes.
\* A stopped service without probes has nothing left to do.
CONSTANTS
    Probes = {p1, p2, p3}
    MaxHangs = 2
    MaxFlips = 2
SPECIFICATION FairSpec
INVARIANTS TypeOK OneProbeInFlight
PROPERTIES FailsClosed Rearms
CHECK_DEADLOCK FALSE
