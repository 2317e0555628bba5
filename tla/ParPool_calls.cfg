SPECIFICATION FairSpec
CONSTANTS
    Forms <- TwoForms
    c1 = c1
    c2 = c2
    Callers <- TwoCallers
    Sizes <- UnevenSizes
    MaxThreads = 4
    PoolMax = 3
    MaxCalls = 1
INVARIANTS TypeOK EachItemOnce TaskStable NoLostWakeup JoinedMeansDone
PROPERTIES ImplementsParFor EveryCallReturns
CHECK_DEADLOCK FALSE
