SPECIFICATION Spec
CONSTANTS
    Repo = {1, 2}
    Worker = {w1, w2}
    QueueSize = 2
    Results = {"full"}
    MaxPosts = 2
    MaxRounds = 0
    MaxRestarts = 0
SYMMETRY WorkerSymmetry
CHECK_DEADLOCK FALSE
INVARIANT
    LatestCrawlIsReadable
