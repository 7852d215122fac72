CONSTANTS
    Hosts = {h1, h2}
    Tasks = {t1}
    NoHost = NoHost
    MaxAttempts = 2
    MaxDisruptions = 2
SPECIFICATION Spec
SYMMETRY HostsAndTasks
INVARIANTS
    MutexFreeForHolder
    FailedNeverMarked
    AttemptsAccounted
    
PROPERTIES
    SupersededClaimWritesNothing
    LiveLeaseRespected
    ReaperNeverRedelivers
    
CHECK_DEADLOCK FALSE
