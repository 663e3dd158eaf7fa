CONSTANTS
    Streams = {s1, s2}
    Zones <- MCZones
    Class <- MCClass
    V4 <- MCV4
    Configs <- MCConfigs
    TTL = 1
    Timeout = 1
    SynLimit = 1
    Window = 1
    MinSamples = 2
    FailPercent = 100
    MaxDelay = 1
    MaxDials = 3
    MaxTime = 4
SPECIFICATION Spec
INVARIANTS
    AnswerIsRecent
    DialsBestAllowed
    SynExact
PROPERTIES
    MatchIsJustified
SYMMETRY StreamSymmetry
CHECK_DEADLOCK FALSE
