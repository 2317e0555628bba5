SPECIFICATION Spec
CONSTANTS
    s1 = s1
    s2 = s2
    Sessions <- TwoSessions
    Tensors <- TwoTensors
    Result = Result
    Nobody = Nobody
    RotateEvery = 1
    PendingCap = 1
    RefCap = 1
    MayFail <- ButReopening
    MaxFailures = 1
    MaxOps <- LongAndShort
INVARIANTS TypeOK SequenceIsPrivate CommandsSeeProgramOrder HostReadsResults LockOnlyInRegions
CHECK_DEADLOCK FALSE
