SPECIFICATION ReputationSpec
CONSTANTS
    Procs = {p1}
    Sources = {s1}
    Dests = {d1}
    Weights <- MCWeights
    Escalation = 50
    Decays = {0, 50}
    Warn = 20
    Throttle = 50
    Strict = 80
PROPERTIES
    RestartRestores
    TierFallsByDecay
