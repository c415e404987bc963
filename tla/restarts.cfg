SPECIFICATION Spec
CONSTANTS
    MaxTasks = 2
    MaxContainers = 3
    MaxUserRetries = 0
    MaxConcurrent = 2
    Client = {c1}
    Requests = {"create", "retry"}
    FaultKinds = {}
    MaxFaults = 0
    MaxCrashes = 2
INVARIANTS
    SlotsExact
    ProvisioningIsOwned
PROPERTIES
    LetsGoOfNoLiveContainer
    SuccessIsReported
    ImplementsLifecycle
