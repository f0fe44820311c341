SPECIFICATION Spec
CONSTANTS
    i1 = i1
    i2 = i2
    v1 = v1
    c1 = c1
    c2 = c2
    Images = {i1, i2}
    Videos = {v1}
    CpuOnly = {i2}
    Chats = {c1, c2}
    ChatOf <- MCApart
    Nobody = Nobody
    MaxMishaps = 1
INVARIANTS
    ReadyHasItsImage
    CancelledIsNeverReady
PROPERTIES
    RecoverySparesLiveJobs
    
CHECK_DEADLOCK FALSE
