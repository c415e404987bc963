SPECIFICATION Spec
CONSTANTS
    Word <- Words
    Environ <- Environs
    Request <- Requests
    NoName = {"9 no name"}
    MaxInt = 1000
    Deviations = 2
    MaxAttempts = 2
    MaxRestarts = 1
INVARIANTS
    TypeOK
    ServerVariablesWin
    DefaultsFillGaps
    ReviewFollowsParent
PROPERTIES
    ImageIsCurrent
CHECK_DEADLOCK FALSE
