\* Two Enrich calls at a time, one evicting what the other recalls.
CONSTANTS
    Turns = {t1, t2, t3}
    Queries <- MCQueries
    Memories <- MCOneMemory
    Cosine <- MCCosineOne
    Similar <- MCExact
    DefaultGate = 60
    Gates <- MCDefaultGateOnly
    NoQuery = NoQuery
    NoTurn = NoTurn
    Grounding = TRUE
    GroundTopK = 1
    AutoCalibrate = FALSE
    CalibMinSamples = 2
    CalibRefreshEach = 1
    CalibCap = 3
    DecayFloor = 20
    IntentTTL = 3
    NegativeTTL = 2
    RetryInterval = 1
    MaxAttempts = 0
    JudgeTicks = 1
    MaxInFlight = 2
    MaxTime = 0
SPECIFICATION Spec
SYMMETRY MCSymmetry
PROPERTIES
    ReuseIsVetted
