\* Two Enrich calls, one after the other or at a time, with a judge and a
\* self-tuning gate.
CONSTANTS
    Turns = {t1, t2}
    Queries <- MCQueries
    Memories <- MCMemories
    Cosine <- MCCosine
    Similar <- MCExact
    DefaultGate = 60
    Gates <- MCGates
    NoQuery = NoQuery
    NoTurn = NoTurn
    Grounding = TRUE
    GroundTopK = 1
    AutoCalibrate = TRUE
    CalibMinSamples = 2
    CalibRefreshEach = 1
    CalibCap = 3
    DecayFloor = 50
    IntentTTL = 2
    NegativeTTL = 1
    RetryInterval = 1
    MaxAttempts = 2
    JudgeTicks = 1
    MaxInFlight = 2
    MaxTime = 3
SPECIFICATION Spec
SYMMETRY MCSymmetry
INVARIANTS
    SessionStartsOnce
PROPERTIES
    ReuseIsFresh
    MissIsSound
    ReuseIsVettedAlone
