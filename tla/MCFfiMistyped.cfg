CONSTANTS
    nodef = nodef
    NoDef <- nodef
    Impls <- MCMistypedImpls
    MaxProc = 2
    FfiStructs <- MCFfiStructs
SPECIFICATION Spec
INVARIANTS
    CallAcceptsSchemaTypes
