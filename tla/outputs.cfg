SPECIFICATION FairSpec
CONSTANTS
    Reader = {r1}
    MaxAttempts = 3
    FaultKinds = {"store", "run", "copy", "file"}
    MaxFaults = 1
    MaxCrashes = 1
INVARIANTS
    OutputURLMeansLog
    AnswersAreWhole
PROPERTIES
    MetadataFollows
CHECK_DEADLOCK FALSE
