SPECIFICATION FairSpec
CONSTANTS
    Callers = {c1}
    Loops = {l1, l2}
    None = None
    Keys = {k1, k2}
    Fields = {is_authenticated}
    Values = {False, True}
    Falsy = {False}
    Absent = Absent
    MaxBatch = 2
    MaxTracked = 1
    Outcomes = {"stored", "refused", "fault", "lost"}
    MaxSightings = 2
\* Nobody need see an identity or call start() or stop().
CHECK_DEADLOCK FALSE
INVARIANTS NothingForgotten SuppressionHonest OneLoop
PROPERTY SightingReported
