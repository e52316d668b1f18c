\* Strict replay: when the requests are issued
SPECIFICATION Spec
CONSTANTS
    Modes = {"strict"}
    Depths = {2}
    CoreCounts = {0}
    MaxLines = 3
    MaxTick = 2
    Ops = {"known"}
    Traces <- MCTraces
    Limits = {0}
    Volume = 5
    Latency = {1, 2, 4}
    JobLatency = 1
    SubmissionLatency = 1
    CompletionLatency = 1
    Horizon = 40
INVARIANTS StrictTiming
CHECK_DEADLOCK FALSE
