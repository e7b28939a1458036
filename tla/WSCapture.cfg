SPECIFICATION Spec
CONSTANTS
    MaxTurns = 2
    MaxParts = 2
    MaxRedeliveries = 1
    TapCap = 1
    DeltaLen <- MCDeltaLen
    CharEnds <- MCCharEnds
    MaxText = 2
    Breakable = {}
    Capture = TRUE
INVARIANTS
    StoredOnce
    AnswerIsWhole
PROPERTIES
    PairsLatestHeard
