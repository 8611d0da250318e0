SPECIFICATION Spec
CONSTANTS
    Task = {1, 2}
    Publisher = {p1, p2}
    BatchSize = 2
    Host = {h1}
    WorkerCount = 1
    MaxFaults = 1
    MaxOverruns = 0
SYMMETRY PublisherSymmetry
INVARIANTS
    NoTaskIsLost
    MarkNamesItsMessage
    DuplicatesAreBounded
    GateIsExclusive
