\* Every generator mode, with and without firmware cores.
SPECIFICATION Spec
CONSTANTS
    Modes = {"sync", "async", "strict", "size", "time"}
    Depths = {1, 2, 3}
    CoreCounts = {0, 1, 2}
    MaxLines = 4
    MaxTick = 2
    Ops = {"known", "unknown"}
    Traces <- MCTraces
    Limits = {0, 3}
    Volume = 5
    Latency = {1, 2, 4}
    JobLatency = 1
    SubmissionLatency = 1
    CompletionLatency = 1
    Horizon = 40
INVARIANTS RequestsAccounted CompletionScheduled DepthKept EndsOnce
PROPERTIES Terminates
CHECK_DEADLOCK FALSE
