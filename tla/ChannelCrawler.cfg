SPECIFICATION Spec
CONSTANTS
    Repo = {1, 2}
    Worker = {w1, w2}
    QueueSize = 1
    Results = {"full", "bare", "items"}
    MaxPosts = 2
    MaxRounds = 1
    MaxRestarts = 1
SYMMETRY WorkerSymmetry
CHECK_DEADLOCK FALSE
INVARIANTS
    TypeOK
    
    CrawlsApartAreStored
