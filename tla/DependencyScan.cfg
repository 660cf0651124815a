SPECIFICATION FairSpec
CONSTANTS
    None = None
    Requests = {r1, r2}
    Garbled = Garbled
    MaxStarts = 2
\* A client that was stopped for good may do nothing.
CHECK_DEADLOCK FALSE
INVARIANTS SucceededIsReported
PROPERTIES VerdictStands RequestAnswered
