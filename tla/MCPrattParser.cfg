CONSTANTS
    IntWidth = 4
    MaxTokens = 7
    Primaries <- MCPrimaries
    Prefixes <- MCPrefixes
    Infixes <- MCInfixes
    Postfixes <- MCPostfixes
SPECIFICATION Spec
INVARIANTS
    TypeOK
    ParseMatchesSpec
    ArmAcceptsOnlyLiterals
    NegationNeverPanics
