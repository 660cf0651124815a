SPECIFICATION Spec
CONSTANTS
    None = None
    AnyMethod = AnyMethod
    HashOf <- Hashes
    Cases <- TheCases
    Configs <- ConfigsOf
    Policies <- PoliciesOf
    Requests <- RequestsOfCase
    MaxPublished <- PublishedOf
    ProjectKeys <- ProjectKeySet
    Failures <- AllFailures
    MaxNow = 1
\* One call is followed to its end.
CHECK_DEADLOCK FALSE
INVARIANTS CachedAgrees RunsWhenApproved ControlsStand MismatchMeansChange
