SPECIFICATION Spec
CONSTANTS
    Callers = {c1}
    Configs <- MCConfigs
    Ports <- MCPorts
    MaxCount = 2
    MaxWorkers = 3
INVARIANT NoOrphan
