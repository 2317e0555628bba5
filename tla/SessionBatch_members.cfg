SPECIFICATION Spec
SYMMETRY Swap
CONSTANTS
    anna = anna
    bert = bert
    Members <- MCMembers
    Models <- MCModels
    Tokens <- MCTokens
    Predict <- MCPredict
    MMax = 3
    Slots = 1
    RowSlots = 1
    BatchMax = 2
    MaxPrompt = 1
    MaxGuesses = 1
    MaxFaults = 1
    MaxCalls = 7
CHECK_DEADLOCK FALSE
PROPERTIES EachIsAConversation BatchIsAllOrNothing
