SPECIFICATION FairSpec
CONSTANTS
    Callers = {c1}
    Configs <- MCConfigs
    Ports <- MCPorts
    MaxCount = 2
    MaxWorkers = 3
INVARIANTS
    ListsMatch
    RoundRobin
PROPERTIES
    CallsSettle
CHECK_DEADLOCK FALSE
