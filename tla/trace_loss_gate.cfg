SPECIFICATION Spec
CONSTANTS
    LStrip <- FrontBlanks
    RStrip <- Blanks
    Ephemeral = {"pytest-1"}
    IgnoredNames = {"x.so"}
    Address <- Addresses
    Loopback = {"127.0.0.1", "::1"}
    Port <- PortNumbers
    Digits = {"0", "1"}
    Executable <- Commands
    NoEdgeRisk = 1
    Events <- TraceEvents
    SinkPrefixes <- PolicyPrefixes
    ReplayPrefixes <- ConfiguredPrefixes
    Capacity = 2
    MaxEvents = 3
    MinimumQuality = 80
INVARIANT
    LossyTraceIsRejected
