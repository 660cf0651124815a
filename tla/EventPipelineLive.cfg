SPECIFICATION CallerSpec
CONSTANTS
    Producers = {p1, p2}
    Events = {e1, e2}
    NoEvent = NoEvent
    QueueSize = 1
    BatchSize = 2
    MaxRetry = 2
    EnqueueTries = 2
\* Every event may have been reported and the processor stopped.
CHECK_DEADLOCK FALSE
PROPERTIES
    SendEventReturns
    EventsDecided
    StopReturns
