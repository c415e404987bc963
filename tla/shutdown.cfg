SPECIFICATION FairSpec
CONSTANTS
    Emitter = {handler, orchestrator}
    Handler = {handler}
    Closer = {main_close, other_close}
    Timed = {main_close}
    Main = main_close
    BufferSize = 1
    MaxEvents = 3
    MaxSubscribers = 2
    Filtered = {2}
INVARIANTS
    NeverSendsOnClosed
    NothingLostQuietly
    AcknowledgedOnce
PROPERTIES
    ImplementsQueue
    EmitReturns
    ProcessExits
CHECK_DEADLOCK FALSE
