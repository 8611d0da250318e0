SPECIFICATION Spec
CONSTANTS
    Task = {1, 2}
    StreamName = {"crawler:tasks"}
    MaxConfigEdits = 1
INVARIANT
    PublishedIsDelivered
CHECK_DEADLOCK FALSE
