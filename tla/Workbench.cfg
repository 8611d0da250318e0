SPECIFICATION FairSpec
CONSTANTS
    t1 = t1
    t2 = t2
    old = old
    Task <- MCTask
    Mine <- MCMine
    OldTasks <- MCOldTasks
    RuleOf <- MCRuleOf
    Rules <- MCRules
    Outcomes <- MCOutcomes
    OldOutcomes <- MCOldOutcomes
    Limit = 2
    MaxAttempts = 1
    MaxLoads = 1
    MaxFailures = 1
INVARIANTS
    WatchedResultIsShown
    
    HealthyShowsLatest
PROPERTIES
    ViewNeverGoesBack
    EveryWatchEnds
CHECK_DEADLOCK FALSE
