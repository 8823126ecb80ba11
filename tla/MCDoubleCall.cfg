CONSTANTS
    IntWidth = 3
    MaxCallDepth = 2
    EntryName = "run"
    Policies <- RejectedWellFormedPolicies
    ArgValues <- MCArgValues
SPECIFICATION Spec
INVARIANTS
    WellFormedCompiles
