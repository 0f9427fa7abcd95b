SPECIFICATION Spec
CONSTANTS
    Workers = {w1}
    NoWorker = NoWorker
    MaxRuns = 1
    MaxCommands = 1
    MaxFence = 3
    MaxAttempts = 3
    MaxCancelAttempts = 2
    Requests = {}
    Faults = {"create", "find"}
CHECK_DEADLOCK FALSE
INVARIANTS
    NoSecondOfficialRun
