SPECIFICATION Spec
CONSTANTS
    u1 = u1
    u2 = u2
    call1 = call1
    call2 = call2
    Conns = {u1, u2}
    Calls = {call1, call2}
    Cap = 1
    MaxFailures = 0
    MaxBoard = 1
    StaleCloses = FALSE
INVARIANTS
    CapHolds
CHECK_DEADLOCK FALSE
