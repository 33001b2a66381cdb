SPECIFICATION Spec
CONSTANTS
    Executions = {"e1", "e2"}
    Pids = {1, 2, 3}
    HostPid = 1
    RingCapacity = 2
    MaxDepth = 4
    PidReuse = FALSE
INVARIANTS
    NeverMisattributed
    UnregisterRemovesMapping
