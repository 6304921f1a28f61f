SPECIFICATION Spec

CONSTANTS
    HalfRange <- MCHalfRange
    GPR <- MCGPR
    BitOp <- MCBitOp
    NumDecoders = 2
    NumAdders = 1
    NumLoadStores = 2
    StationsPerUnit = 2
    RobSize = 3
    BpModes = {0}
    BtbSize = 3
    MemSize = 2
    MaxDecodes = 60
    Programs <- Aliasing
    Memories <- OneMemory
    BtbOverrun = {0}
    Garbage = {5}

INVARIANTS
    LoadsFollowStores
    LoadsReadCommittedStores

PROPERTIES
    SequentialSpec
