SPECIFICATION LiveSpec
CONSTANTS
    Workers = {w1}
    NoWorker = NoWorker
    MaxRuns = 2
    MaxCommands = 2
    MaxFence = 2
    MaxAttempts = 2
    MaxCancelAttempts = 2
    Requests = {"retry", "respond"}
    Faults = {"create", "find", "stream", "get", "members", "join"}
CHECK_DEADLOCK FALSE
PROPERTIES
    TaskSettles
    AcceptedResponseSettles
