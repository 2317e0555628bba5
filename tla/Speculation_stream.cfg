SPECIFICATION Spec
CONSTANTS
    Models <- Targets
    DraftModels <- DenseOrReplays
    Tokens <- MCTokens
    Predict <- MCPredict
    DraftPredict <- MCDraftPredict
    MMax = 7
    Slots = 2
    RowSlots = 1
    MaxSuffix = 4
    MinMatch = 2
    KMax = 4
    MaxPrompt = 2
    MaxTurns = 1
    MaxFaults = 1
INVARIANTS RecurrencesMatch
PROPERTIES StreamIsGreedy DraftInStep AcceptsWhatAgrees
