SPECIFICATION FairSpec
CONSTANTS
    A = A
    B = B
    Obs = {A, B}
    SinkOf <- TwoSinks
    MaxIdle = 8
    Window = 1
    MaxFrames = 1
    MaxCalls = 1
    MaxStarts = 2
PROPERTY DrainEnds
CHECK_DEADLOCK FALSE
