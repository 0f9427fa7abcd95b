SPECIFICATION Spec
CONSTANTS
    Workers = {w1, w2}
    NoWorker = NoWorker
    MaxRuns = 1
    MaxCommands = 2
    MaxFence = 3
    MaxAttempts = 3
    MaxCancelAttempts = 2
    Requests = {"cancel_task", "cancel_run"}
    Faults = {"crash", "create", "find"}
SYMMETRY WorkerSymmetry
CHECK_DEADLOCK FALSE
INVARIANTS
    SerialDispatch
    AtMostOneOfficialRun
    CancelledRunStopped
PROPERTIES
    FinishedCommandsFinal
