SPECIFICATION Spec

CONSTANTS
    HalfRange <- MCHalfRange
    GPR <- MCGPR
    BitOp <- MCBitOp
    LabelName <- MCLabels
    VariableName <- MCVariables
    Sessions <- SpacesSessions
    InDataAtStart = {TRUE, FALSE}

INVARIANTS
    LinesAreParsedOnce
