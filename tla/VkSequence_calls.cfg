SPECIFICATION FairSpec
CONSTANTS
    a = a
    b = b
    Torn = Torn
    Wrong = Wrong
    Lost = Lost
    Cells <- MCCells
    Tensors <- MCTensors
    Kernels <- MCKernels
    NoWeight = NoWeight
    XCap = 1
    UCap = 1
    CmdBufs = 2
    RollRing = 2
    Rotate = 2
    MaxDispatch = 3
    DirtyCap = 4
    MaxLost = 1
    MaxCalls = 4
CHECK_DEADLOCK FALSE
INVARIANTS
    KernelsSeeProgramOrder
    HostReadsResults
    FailureReachesReadback
PROPERTIES
    EveryCallReturns
