CONSTANTS
    nodef = nodef
    NoDef <- nodef
    Impls <- MCImpls
    MaxProc = 2
    FfiStructs <- MCFfiStructs
SPECIFICATION Spec
INVARIANTS
    TypeOK
    ArgsInDeclarationOrder
    StackEffect
    CallAcceptsSchemaTypes
    StructArgsExact
