SPECIFICATION FairSplice
CONSTANTS
    MaxTurns = 2
    MaxParts = 1
    MaxRedeliveries = 0
    TapCap = 1
    DeltaLen <- MCDeltaLen
    CharEnds <- MCCharEnds
    MaxText = 2
    Breakable = {"agent"}
    Capture = TRUE
PROPERTIES
    ForwardingNeverStalls
    ParsersEnd
