SPECIFICATION Spec
CONSTANTS
    None = None
    MaxThreads = 2
    MaxStarts = 2
\* A client that was stopped for good may do nothing.
CHECK_DEADLOCK FALSE
INVARIANTS  OneOfEach
