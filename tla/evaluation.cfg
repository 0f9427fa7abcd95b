INIT Init
NEXT Next
CONSTANTS
    b1 = b1
    b2 = b2
    e1 = e1
    u1 = u1
    EvalCases = {b1, b2}
    BadcaseSeverity <- MCBadcaseSeverity
    ExpectsNoTrade = {b1}
    MinimumCaseCount = 1
    SchemaThreshold = 80
    RequiredSeverities = {"high"}
    EvalRunIds = {e1, e2}
    CandidateAudits <- MCCandidateAudits
    EvalModes = {"cheap", "judge_only_fixture", "judge_openai"}
    ShadowOutcomes = {"completed"}
    People = {u1, u2}
    ConfigHashes = {c1, c2}
    MaterialSets <- MCMaterialSets
    MaxProductionWrites = 0
    MaxSubmissions = 5
CHECK_DEADLOCK FALSE
INVARIANTS
    ReadyRunUntouched
    ReadyRunGrounded
    PromotionGrounded
