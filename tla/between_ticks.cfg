SPECIFICATION QuietSpec
CONSTANTS
    MaxTasks = 2
    MaxContainers = 4
    MaxUserRetries = 2
    MaxConcurrent = 1
    Client = {c1}
    Requests = {"create", "delete", "retry"}
    FaultKinds = {}
    MaxFaults = 0
    MaxCrashes = 0
INVARIANTS
    SlotsExact
    NoOrphanContainer
    GateOnlyWhenEnded
PROPERTIES
    RetryAfterCleanup
    EndedStaysEnded
    ImplementsLifecycle
