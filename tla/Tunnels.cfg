SPECIFICATION TunnelFairSpec
CONSTANTS
    t1 = t1
    Turns = {t1}
    Requests <- MCRequests
    Replies <- MCReplies
    CapturePaths = {"chat"}
    ExcludePaths = {}
    MaxEvents = 2
    Idle = 1
    Faulty = {t1}
    api = api
    apiDot = apiDot
    other = other
    Hosts = {api, apiDot, other}
    Canon <- MCCanon
    Intercepted = {api, other}
    c1 = c1
    c2 = c2
    Conns = {c1, c2}
    MaxCache = 1
    TunnelIdle = 1
    MaxChunks = 1
    MaxUpgrades = 1
    MaxRequests = 2
INVARIANTS
    OneExchange
    HealthyMeansSaved
    LeafIsRight
    TurnsAndTunnelsAddUp
PROPERTIES
    CutOnlyWhenAgentStalls
    ImplementsTurnLife
    TunnelEnds
CHECK_DEADLOCK FALSE
