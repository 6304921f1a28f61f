SPECIFICATION Spec

CONSTANTS
    HalfRange <- MCHalfRange
    GPR <- MCGPR
    BitOp <- MCBitOp
    MemSize = 2
    Programs <- Based
    Memories <- OneMemory
    Garbage = {5}
    RunningAtStart = {TRUE}

INVARIANTS
    LoadsAreRelativeToBase
