SPECIFICATION StreamSpec
CONSTANTS
    a = a
    b = b
    p = p
    q = q
    r = r
    Torn = Torn
    Wrong = Wrong
    Lost = Lost
    NoWeight = NoWeight
    Cells <- MCCells
    Tensors <- MCTensors
    Kernels <- MCKernels
    Weights <- MCWeights
    Size <- MCSize
    Linears <- MCLinears
    StageSlots = 1
    Parts = 4
    Async = TRUE
    XCap = 1
    UCap = 0
    CmdBufs = 4
    RollRing = 3
    Rotate = 2
    MaxDispatch = 100
    DirtyCap = 6
    MaxLost = 0
    MaxCalls = 3
CHECK_DEADLOCK FALSE
INVARIANTS
    KernelsSeeProgramOrder
