CONSTANTS
    IntWidth = 3
    MaxCallDepth = 2
    EntryName = "run"
    Policies <- NameClashPolicies
    ArgValues <- MCArgValues
SPECIFICATION Spec
INVARIANTS
    CallsReachCallee
