SPECIFICATION Spec
CONSTANTS
    Chunk = 2
    MelCap = 15
    Pushes <- MCPushes
    MaxTurns = 2
    MaxFaults = 0
INVARIANTS TurnsDoNotMix
CHECK_DEADLOCK FALSE
