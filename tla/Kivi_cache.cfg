SPECIFICATION CacheSpec
CONSTANTS
    a = a
    b = b
    NoRow = NoRow
    Tokens <- TwoTokens
    R = 2
    MMax = 2
    Contexts <- MCContexts
    SpecMax = 2
    NLayers = 2
    MaxPrompt = 3
    MaxFaults <- MCFaults
    MayCancel = TRUE
SYMMETRY TokenSymmetry
INVARIANTS CacheIsText PrefixKept UndrainedOnlyCut
