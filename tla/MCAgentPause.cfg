SPECIFICATION Spec
CONSTANTS
    Conversations = {c1}
    Actions = {"edit", "check", "deliver", "prohibited"}
    Kind <- MCKind
    NoAction = NoAction
    NoConversation = NoConversation
    Modes = {"risk_based"}
    FullAccess = TRUE
    HasTargets = FALSE
    Faults = {}
    MAX_AGENT_STEPS = 3
    MAX_AGENT_FAILURES = 2
    MAX_IDENTICAL_ACTION_REPEATS = 1
    MAX_VALIDATION_DEFERRALS = 0
    MaxRuns = 1
    MaxMishaps = 0
    MaxRestores = 0
INVARIANTS EndedRunIsAnnounced
CHECK_DEADLOCK FALSE
