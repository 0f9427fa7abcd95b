SPECIFICATION Spec
CONSTANTS
    Workers = {w1}
    NoWorker = NoWorker
    MaxRuns = 2
    MaxCommands = 3
    MaxFence = 2
    MaxAttempts = 2
    MaxCancelAttempts = 2
    Requests = {"cancel_task", "cancel_run", "retry", "fork", "respond"}
    Faults = {"crash", "create", "find", "stream", "get", "members", "join", "cancel", "db"}
CHECK_DEADLOCK FALSE
INVARIANTS
    OpenReviewIsNewest
    UnattendedOnlyAfterCancel
    TaskOutcomeFromRun
PROPERTIES
    ReviewMovesForward
    ImplementsLifecycle
