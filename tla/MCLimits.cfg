CONSTANTS
    Client = client
    Others = {other}
    Proxies = {proxy}
    Junk = junk
    Headers = 2
    MaxParts = 1
    MaxHops = 3
    Callers = {p1, p2}
    Limit = 2
    Window = 3
    WindowIdle = 4
    Burst = 1
    MaxCost = 2
    BandwidthIdle = 4
    MaxDelay = 1
    MaxTime = 8
SYMMETRY Symmetry
SPECIFICATION MCSpec
INVARIANTS
    CountedAsClient
    WindowBound
    RateBound
CHECK_DEADLOCK FALSE
