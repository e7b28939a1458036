SPECIFICATION Spec
CONSTANTS
    MaxTurns = 2
    MaxParts = 1
    MaxRedeliveries = 0
    TapCap = 4
    DeltaLen <- MCDeltaLen
    CharEnds <- MCCharEnds
    MaxText = 2
    Breakable = {}
    Capture = TRUE
INVARIANTS
    PairedWithItsTurn
