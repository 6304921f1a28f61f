SPECIFICATION FairSpec

CONSTANTS
    HalfRange <- MCHalfRange
    GPR <- MCGPR
    BitOp <- MCBitOp
    MemSize = 2
    Programs <- PipelinePrograms
    Memories <- OneMemory
    Garbage = {5}
    RunningAtStart = {TRUE, FALSE}

INVARIANTS
    TypeOK
    InOrder
    LocksAreHeld
    WritersAreGuarded
    ValuesAreCurrent

PROPERTIES
    ImplementsSequential
    KeepsRetiring
