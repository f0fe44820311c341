SPECIFICATION Spec
CONSTANTS
    Chats = {h1}
    Runs = {}
    Warmups = {w1}
    AgentModels = {m1}
    ChatModels = {m1, core}
    Chatter = Chatter
    Nobody = Nobody
    NoModel = NoModel
    Modes = {"automatic"}
    CoreInstalled = TRUE
    RamFits = TRUE
    GpuFits = TRUE
    MaxDeaths = 1
INVARIANTS
    FailureIsNotStale
    StatusIsLive
PROPERTIES EveryAcquireEnds
CHECK_DEADLOCK FALSE
