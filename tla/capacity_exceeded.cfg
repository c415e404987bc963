SPECIFICATION QuietSpec
CONSTANTS
    MaxTasks = 3
    MaxContainers = 3
    MaxUserRetries = 0
    MaxConcurrent = 2
    Client = {c1}
    Requests = {"create", "delete"}
    FaultKinds = {"store"}
    MaxFaults = 1
    MaxCrashes = 0
INVARIANTS
    CapacityRespected
