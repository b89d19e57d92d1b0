SPECIFICATION Spec
CONSTANTS
    A = A
    B = B
    Obs = {A, B}
    SinkOf <- OneSink
    MaxIdle = 2
    Window = 1
    MaxFrames = 1
    MaxCalls = 2
    MaxStarts = 2
SYMMETRY Observations
INVARIANT TypeOK
INVARIANT BoardKnowsTheWorker
INVARIANT NoLostWake
CHECK_DEADLOCK FALSE
