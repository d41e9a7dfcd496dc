SPECIFICATION Spec
CONSTANTS
    Pod = {p1, p2}
    Map = {"m1", "m2"}
    MaxVersion = 3
    Upstream <- UpstreamOf
    Stream <- StreamOf
    Cve = {2}
    RollingFrom = 1
    ReloadFrom = 3
    InitialSpecs <- BothSpecs
    MaxEvents = 2
    MaxFaults = 1
INVARIANTS
    Converged
PROPERTIES
    RestartOnlyForChange
    PodsFollow
CHECK_DEADLOCK FALSE
