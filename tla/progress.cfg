SPECIFICATION FairQuietSpec
CONSTANTS
    MaxTasks = 2
    MaxContainers = 2
    MaxUserRetries = 1
    MaxConcurrent = 1
    Client = {c1}
    Requests = {"create", "delete", "retry"}
    FaultKinds = {}
    MaxFaults = 0
    MaxCrashes = 1
PROPERTIES
    PendingLeavesQueue
    ActiveEnds
    CancelledIsCleaned
    RetryGateOpens
