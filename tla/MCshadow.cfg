SPECIFICATION Spec

CONSTANTS
    HalfRange <- MCHalfRange
    GPR <- MCGPR
    BitOp <- MCBitOp
    MemSize = 2
    Programs <- Shadowed
    Memories <- OneMemory
    Garbage = {5}
    RunningAtStart = {TRUE}

PROPERTIES
    SkippedStoresHaveNoEffect
