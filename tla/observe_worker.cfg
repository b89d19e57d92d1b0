SPECIFICATION FairSpec
CONSTANTS
    A = A
    B = B
    Obs = {A}
    SinkOf <- AloneSink
    MaxIdle = 6
    Window = 1
    MaxFrames = 2
    MaxCalls = 4
    MaxStarts = 2
INVARIANT MarkersArrive
INVARIANT QuietWhilePaused
INVARIANT ProgressIsNoStall
PROPERTY StopEnds
PROPERTY ResumeObeyed
CHECK_DEADLOCK FALSE
