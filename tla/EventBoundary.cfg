SPECIFICATION MCSpec
CONSTANTS
    None = None
    Unreadable = Unreadable
    Objects = {"payload", "context", "o1", "o2"}
    MaxDepth = 2
    MaxItems = 3
    Events <- AllEvents
    Payloads <- AllPayloads
    Rates <- ThreeRates
    Full = 3
    BucketOf <- Buckets
    Hooks <- HookKinds
    MaxCalls = 2
    Null = Null
    Defaults <- MCDefaults
    Retired = {"source_root"}
    Required = {"api_key"}
    Files <- AllFiles
    Environments <- AllEnvironments
    Given <- Argument
\* The bound on the calls stops it, and a client is built once.
CHECK_DEADLOCK FALSE
INVARIANTS SequenceWhole NothingEscapes NothingLost TruncatedAtLimits Precedence
