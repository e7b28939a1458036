\* Exchanges over HTTP with every format, answer and block, and one direction of
\* an upgraded connection.  An exchange ends.
SPECIFICATION Spec
CHECK_DEADLOCK FALSE
CONSTANTS
    MaxToolArgRunes = 3
    Wide <- MCWide
    Runes <- MCRunes
    Secrets = {"sk-1"}
    CharPerToken = 4
    MinOversizedMemoryBytes = 4
    MaxInt = 100
    MaxGuideRunes = 2
    MaxWhereLeftOffEntries = 2
    MaxWhereLeftOffLabelRunes = 2
    Ours = {"muninn_recall"}
    ToolNames = {"Read"}
    MaxTokenCount = 5
    EventDoc <- MCEventDoc
    LineLen <- MCLineLen
    Control <- MCControl
    OpensObject <- MCOpensObject
    MaxStreamBuf = 4
    MaxRetainedLine = 4
    MaxTextAccum = 3
    MaxToolNames = 2
    Scenes <- MCScenes
    Noise = {"continued"}
    MaxQueryRunes = 3
    ConceptRunesBoth = 2
    ConceptRunesSingle = 3
    AssistantRunesPreview = 2
    SideRunesBody = 3
    WsMaxMessage = 2
    Window = 3
    Expands = {1, 2}
    Fragmentings <- MCFragmentings
    MaxMessages = 3
    MaxControl = 1
INVARIANTS
    CaptureIsTheAgents
    BlockFitsItsBudget
    AnswerIndependentOfChunks
    FramesDecoded
