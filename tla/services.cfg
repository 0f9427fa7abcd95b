INIT Init
NEXT Next
CONSTANTS
    Requesters = {r1, r2}
    TriggerIds = {x1, x2}
    Months = {1, 2}
    MaxConcurrentTasks = 2
    MonthlyAdmissions = 2
    MonthlyTriggers = 4
    Identities <- MCIdentities
    Spaces = {s1}
    ApiRequests = {q1}
    MaxTokenAge = 0
    Postmortems = {p1, p2}
    Packets <- MCPackets
    ThresholdChoices <- MCThresholds
    ReviewCallers = {c1, c2}
    MaxExperiments = 2
    ApiProcesses = {a1, a2}
    SendWorkers = {w1}
    Destinations = {1, 2}
    RewrapBatchSize = 1
    MaxRewrapBatches = 3
    MaxDeviceKeys = 2
    MaxRewrapKills = 1
    HookEvents = {e1, e2}
    HookKeys = {k1, k2}
    MaxHookAge = 1
    MaxHookTime = 2
    MaxDeliveries = 2
    Reviews = {1, 2, 3}
    CreatedAt <- MCCreatedAt
    LateReviews = {2}
    MaxSettled = 1
    InboxPageSize = 1
    MaxInboxLimit = 2
    MaxListCalls = 2
    MaxFilterMoves = 1
    Decisions = {"approve", "reject"}
    MaxAttempts = 3
    MaxListsAway = 2
    MaxUnmounts = 1
CHECK_DEADLOCK FALSE
INVARIANTS
    ChargedOnce
    ReleaseBacked
    CredentialsReadable
    EventAcceptedOnce
    InboxWhole
    AnswerTold
PROPERTIES
    AccessIsCurrent
