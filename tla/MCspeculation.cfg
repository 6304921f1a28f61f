SPECIFICATION FairSpec

CONSTANTS
    HalfRange <- MCHalfRange
    GPR <- MCGPR
    BitOp <- MCBitOp
    NumDecoders = 2
    NumAdders = 2
    NumLoadStores = 1
    StationsPerUnit = 2
    RobSize = 5
    BpModes = {0, 1, 2}
    BtbSize = 1
    MemSize = 2
    MaxDecodes = 90
    Programs <- Speculating
    Memories <- OneMemory
    BtbOverrun = {0}
    Garbage = {5}

INVARIANTS
    SpeculationPath
    FetchInBounds

PROPERTIES
    SequentialSpec
    EventuallyHalts
