SPECIFICATION FairSpec
CONSTANTS
    Chunk = 2
    MelCap = 15
    Pushes <- MCPushes
    MaxTurns = 2
    MaxFaults = 1
INVARIANTS TurnIsAttach DrainBehindPublish
PROPERTIES FirstBlockIsEarly WaitsEnd
CHECK_DEADLOCK FALSE
