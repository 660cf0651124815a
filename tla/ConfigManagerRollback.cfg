SPECIFICATION Spec
CONSTANTS
    Callers = {c1, c2}
    EmptyVersions = {0, 2}
    MaxVersion = 2
\* Nothing need happen: nobody has to call and the server to publish.
CHECK_DEADLOCK FALSE
PROPERTY ImplementsFreshCache
