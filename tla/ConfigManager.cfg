SPECIFICATION FairSpec
CONSTANTS
    Callers = {c1}
    EmptyVersions = {0, 2}
    MaxVersion = 3
\* Nothing need happen: nobody has to call and the server to publish.
CHECK_DEADLOCK FALSE
INVARIANTS ListenerUpToDate StartedMeansRunning
PROPERTIES ConfigArrives NeverGoesBack
