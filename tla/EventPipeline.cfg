SPECIFICATION Spec
CONSTANTS
    Producers = {p1, p2}
    Events = {e1, e2, e3, e4}
    NoEvent = NoEvent
    QueueSize = 2
    BatchSize = 2
    MaxRetry = 2
    EnqueueTries = 2
SYMMETRY Symmetry
\* Every event may have been reported and the processor stopped.
CHECK_DEADLOCK FALSE
INVARIANTS
    OneOwner
    DuplicatesBounded
    MemoryBounded
    CountersHonest
PROPERTIES
    DecidedOnce
    ImplementsChannel
