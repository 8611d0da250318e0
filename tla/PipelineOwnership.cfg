SPECIFICATION Spec
CONSTANTS
    Task = {1}
    Publisher = {p1}
    BatchSize = 1
    Host = {h1, h2}
    WorkerCount = 1
    MaxFaults = 2
    MaxOverruns = 1
SYMMETRY HostSymmetry
INVARIANTS
    TypeOK
    ResultIsFenced
    AckedOnlyAfterTerminal
    SoleExecutor
    SoleOwner
    RetriesCountTakeovers
PROPERTIES
    StatusFollowsTable
    NoEarlyTakeover
    ImplementsLifecycle
