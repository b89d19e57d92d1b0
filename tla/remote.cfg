SPECIFICATION FairSpec
CONSTANTS
    u1 = u1
    u2 = u2
    call1 = call1
    call2 = call2
    Conns = {u1, u2}
    Calls = {call1}
    Cap = 1
    MaxFailures = 1
    MaxBoard = 1
    StaleCloses = FALSE
INVARIANTS
    TypeOK
    AnswersAreTrue
PROPERTIES
    NoCallAfterTheEnd
    CallsAreAnswered
    ReachedAgain
    EndIsTold
CHECK_DEADLOCK FALSE
