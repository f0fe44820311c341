SPECIFICATION Spec
CONSTANTS
    c1 = c1
    c2 = c2
    k1 = k1
    k2 = k2
    f1 = f1
    f2 = f2
    g1 = g1
    t1 = t1
    t2 = t2
    None = None
    NoText = NoText
    Keys = {k1, k2}
    CallsOf <- MCCallsOf
    KeyOf <- MCKeyOf
    Files = {f1, f2, g1}
    Callers = {c1, c2}
    Texts = {t1, t2}
    ServersOf <- MCServersOf
    MaxPooled = 1
    MaxOpen = 1
    MaxSessions = 3
    MaxCalls = 2
    MaxFaults = 1
INVARIANTS
    EvictionSparesLeases
    AnswersAreAboutTheText
    DiagnosticsAreAboutTheText

    
CHECK_DEADLOCK FALSE
