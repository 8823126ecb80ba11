CONSTANTS
    IntWidth = 3
    MaxCallDepth = 2
    EntryName = "run"
    Policies <- MCPolicies
    ArgValues <- MCArgValues
SPECIFICATION Spec
INVARIANTS
    TypeOK
    CompiledMatchesReference
    StackBalancedAtExit
PROPERTIES
    Termination
