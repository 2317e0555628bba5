SPECIFICATION Spec
CONSTANTS
    Bounds <- MCBounds
    Models <- MCModels
    Tokens <- MCTokens
    Predict <- MCPredict
    MMax = 3
    Slots = 2
    RowSlots = 1
INVARIANTS PendingIsCurrent RecurrenceMatchesCache
PROPERTIES CancelIsExact ImplementsConversation RefusalsChangeNothing FailuresLoseNothing
