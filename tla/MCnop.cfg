SPECIFICATION Spec

CONSTANTS
    HalfRange <- MCHalfRange
    GPR <- MCGPR
    BitOp <- MCBitOp
    NumDecoders = 1
    NumAdders = 1
    NumLoadStores = 1
    StationsPerUnit = 2
    RobSize = 5
    BpModes = {0}
    BtbSize = 3
    MemSize = 2
    MaxDecodes = 60
    Programs <- WithNop
    Memories <- OneMemory
    BtbOverrun = {0}
    Garbage = {5}

INVARIANTS
    HaltsOnlyAtHalt
