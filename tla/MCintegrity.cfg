SPECIFICATION Spec

CONSTANTS
    HalfRange <- MCHalfRange
    GPR <- MCGPR
    BitOp <- MCBitOp
    NumDecoders = 2
    NumAdders = 1
    NumLoadStores = 2
    StationsPerUnit = 2
    RobSize = 4
    BpModes = {0}
    BtbSize = 1
    MemSize = 2
    MaxDecodes = 12
    Programs <- AnyProgram
    Memories <- OneMemory
    BtbOverrun = {0}
    Garbage = {5}

INVARIANTS
    TypeOK
    TagDiscipline
    RenameTable
    OperandFlow
    ReadyHasOperands
    ExecutionOwnership
    OldestProceeds
    AgeOrder

PROPERTIES
    ResultsAreFinal
    RobIsQueue
