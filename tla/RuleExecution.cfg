SPECIFICATION ExecutionSpec
CONSTANTS
    MaxEdits = 3
    MaxDepth = 4
    Target = {"hackernews", "github", "unlisted"}
    Listed = {"hackernews", "github"}
    Shared = "hackernews"
    Heap <- MCHeap
    Returned <- MCReturned
CHECK_DEADLOCK FALSE
INVARIANTS
    ListedTargetsRunTheirRule
    CollectionsAreFaithful
    StaleRuleIsNoticed
PROPERTY
    CacheCatchesUp
