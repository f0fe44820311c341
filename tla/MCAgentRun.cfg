SPECIFICATION Spec
CONSTANTS
    Conversations = {c1}
    Actions = {"edit", "check", "deliver", "prohibited"}
    Kind <- MCKind
    NoAction = NoAction
    NoConversation = NoConversation
    Modes = {"risk_based"}
    FullAccess = TRUE
    HasTargets = FALSE
    Faults = {"start", "admit", "record", "finish", "restore"}
    MAX_AGENT_STEPS = 3
    MAX_AGENT_FAILURES = 2
    MAX_IDENTICAL_ACTION_REPEATS = 1
    MAX_VALIDATION_DEFERRALS = 0
    MaxRuns = 2
    MaxMishaps = 1
    MaxRestores = 1
INVARIANTS
    ApprovalsPayForActions
    
    TornFilesAreReported
PROPERTIES StoppedRunEnds
CHECK_DEADLOCK FALSE
