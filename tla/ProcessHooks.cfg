SPECIFICATION HooksSpec
CONSTANTS
    Clients = {c1, c2}
    Loggers = {"root", "service"}
    Unset = Unset
    MaxWrappers = 2
SYMMETRY Permuted
INVARIANTS TrackedOnce OnlyAsked
