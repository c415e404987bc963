SPECIFICATION Spec
CONSTANTS
    Reader = {r1}
    MaxAttempts = 2
    FaultKinds = {}
    MaxFaults = 0
    MaxCrashes = 0
INVARIANTS
    MetadataServedIsFinal
CHECK_DEADLOCK FALSE
