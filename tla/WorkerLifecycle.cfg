SPECIFICATION FairSpec
CONSTANTS
    WorkerCount = 2
    MaxFailures = 2
INVARIANTS
    ConnectionsOutliveLoops
    QuietExitWasAsked
PROPERTY StopIsCompleted
