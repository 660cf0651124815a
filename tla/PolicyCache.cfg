SPECIFICATION FairSpec
CONSTANTS
    Nobody = Nobody
    Feed = feed
    Others = {f1}
    Readers = {r1}
    MaxVersion = 2
    MaxLoads = 2
\* Nothing need happen once the bounds are reached.
CHECK_DEADLOCK FALSE
INVARIANTS NoPolicyBuiltTwice QuietMeansWarned
PROPERTIES ImplementsFreshCache PolicyArrives
