SPECIFICATION Spec
CONSTANTS
    Workers = {w1}
    NoWorker = NoWorker
    MaxPushes = 3
    MaxLostSends = 3
    Adapters <- MCAdapters
    MaxClaims = 2
    CronWorkers = {w1}
    MaxRevisions = 2
    MaxCrons = 3
    MaxCronAttempts = 2
    MaxCronCrashes = 1
    MaxVerifications = 3
    MaxVerifierLosses = 2
    DeleteKeys = {k1, k2}
    NoDeletion = NoDeletion
    MaxMemoryFaults = 2
    Dispatchers = {d1, d2}
    Reconcilers = {r1}
    Nobody = Nobody
    MaxStalls = 1
CHECK_DEADLOCK FALSE
PROPERTIES
    BackgroundWorkEnds
    LifecycleEnds
    EveryCronCommandEnds
    DispatchedCommandFinishes
