SPECIFICATION Spec
CONSTANTS
    MaxTasks = 1
    MaxContainers = 2
    MaxUserRetries = 1
    MaxConcurrent = 1
    Client = {c1}
    Requests = {"create", "delete", "retry"}
    FaultKinds = {}
    MaxFaults = 0
    MaxCrashes = 0
PROPERTIES
    CancelIsHonoured
