SPECIFICATION Spec
CONSTANTS
    Executions = {"e1"}
    Pids = {1, 2, 3}
    HostPid = 1
    RingCapacity = 1
    MaxDepth = 4
    PidReuse = TRUE
INVARIANTS
    NeverMisattributed
