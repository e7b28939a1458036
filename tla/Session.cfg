SPECIFICATION SessionFairSpec
CONSTANTS
    t1 = t1
    t2 = t2
    Turns = {t1, t2}
    Tunnelled = {t2}
    agy = agy
    aider = aider
    claude = claude
    codex = codex
    qwen = qwen
    ANTHROPIC_BASE_URL = ANTHROPIC_BASE_URL
    OPENAI_BASE_URL = OPENAI_BASE_URL
    OPENAI_API_BASE = OPENAI_API_BASE
    CODE_ASSIST_ENDPOINT = CODE_ASSIST_ENDPOINT
    GOOGLE_GEMINI_BASE_URL = GOOGLE_GEMINI_BASE_URL
    GEMINI_API_KEY = GEMINI_API_KEY
    anthropic = anthropic
    openai = openai
    dashscope = dashscope
    cloudcode = cloudcode
    gemini = gemini
    custom = custom
    outer = outer
    inner = inner
    Unset = Unset
    Agents <- MCAgents
    EnvKey <- MCEnvKey
    ExtraKeys <- MCExtraKeys
    ArgsRouted = {qwen}
    DetectEnv <- MCDetectEnv
    DefaultURL <- MCDefaultURL
    AltCond <- MCAltCond
    AltURL <- MCAltURL
    Settings <- MCSettings
    Terminals <- MCTerminals
    Environments <- MCEnvironments
    Proxies = {outer, inner}
    ChildCodes = {3}
    MaxSignals = 2
INVARIANTS
    NothingLostSilently
    SignalOnce
    AgentAccountedFor
    UpstreamIsReal
PROPERTIES
    SessionEnds
CHECK_DEADLOCK FALSE
