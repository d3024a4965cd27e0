CONSTANTS
    Callers <- MCCallers
    Workers <- MCWorkers
    NumShadows = 1
    ChanSize = 1
    MaxWorker = 1
    RingSize = 2
    Latencies = {1, 3}
    NsPerSecond = 2
    MaxCalls = 2
    IgnoreReadOnly = TRUE

SPECIFICATION Spec


CHECK_DEADLOCK FALSE
INVARIANT NoSendOnClosedChannel
