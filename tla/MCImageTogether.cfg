SPECIFICATION Spec
CONSTANTS
    i1 = i1
    i2 = i2
    v1 = v1
    c1 = c1
    c2 = c2
    Images = {i1, i2}
    Videos = {}
    CpuOnly = {i2}
    Chats = {c1}
    ChatOf <- MCTogether
    Nobody = Nobody
    MaxMishaps = 0
INVARIANTS ReadyHasItsImage
CHECK_DEADLOCK FALSE
