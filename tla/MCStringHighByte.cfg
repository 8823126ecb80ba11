CONSTANTS
    Inputs <- HighByteInputs
SPECIFICATION Spec
INVARIANTS
    ParsedMatchesSpec
