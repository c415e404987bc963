SPECIFICATION Spec
CONSTANTS
    MaxTasks = 2
    MaxContainers = 2
    MaxUserRetries = 1
    MaxConcurrent = 1
    Client = {c1, c2}
    Requests = {"create", "retry"}
    FaultKinds = {"store", "inspect", "run", "stop"}
    MaxFaults = 3
    MaxCrashes = 0
INVARIANTS
    TypeOK
    SlotsExact
    RetriesWithinCap
PROPERTIES
    ReviewComesWithCompletion
SYMMETRY ClientSymmetry
