SPECIFICATION Spec
CONSTANTS
    Timeouts = {2, 13, 14}
    DSNReadTimeout = 4
    DSNWriteTimeout = 2
CHECK_DEADLOCK FALSE
INVARIANTS
    ExecutionLeavesReserve
    BudgetOutlastsClaim
    CommitOverrunIsBounded
