SPECIFICATION FairSpec
CONSTANTS
    e1 = e1
    e2 = e2
    e3 = e3
    e4 = e4
    e5 = e5
    p = p
    q = q
    NoConcept = NoConcept
    None = None
    Exchanges = {e1, e2, e3}
    d1 = d1
    d2 = d2
    Drainers = {d1, d2}
    Concepts = {p, q}
    Concept <- MCConcept
    Content <- MCContent
    Size <- MCSize
    RingSize = 1
    QueueCap = 1
    ByteCap = 3
    MaxBatch = 2
    MaxAttempts = 2
INVARIANTS
    SavedIsStored
    NoDuplicateMemory
    BudgetExact
    Conservation
    NoSendOnClosedChannel
PROPERTIES
    RepeatIsJustified
    ImplementsDelivery
    EveryExchangeSettles
    DrainReturns
