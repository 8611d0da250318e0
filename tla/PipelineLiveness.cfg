SPECIFICATION FairSpec
CONSTANTS
    Task = {1, 2}
    Publisher = {p1}
    BatchSize = 2
    Host = {h1}
    WorkerCount = 1
    MaxFaults = 1
    MaxOverruns = 1
PROPERTIES
    EveryTaskEnds
    EveryTaskIsPublished
    PendingListDrains
