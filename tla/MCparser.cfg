SPECIFICATION Spec

CONSTANTS
    HalfRange <- MCHalfRange
    GPR <- MCGPR
    BitOp <- MCBitOp
    LabelName <- MCLabels
    VariableName <- MCVariables
    Sessions <- ParserSessions
    InDataAtStart = {TRUE, FALSE}

INVARIANTS
    TypeOK
    UnresolvedHoldPlace
    VariablesAreKnown
    AssembledAsWritten
    FeedsTheCPU
