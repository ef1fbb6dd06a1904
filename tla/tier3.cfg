SPECIFICATION Spec
CONSTANTS
    n1 = n1
    n2 = n2
    Prompts = {1, 2, 3}
    Sessions = {1, 2, 3}
    Session <- Own
    Scenarios <- Traffic
    Runs = {n1, n2}
    Due <- EveryWindow
    TIER3_ENABLED = TRUE
    KillGuards = TRUE
    Policies <- MCPolicies
    MIN_SESSIONS = 2
    PATTERN_BURST_MIN_SESSIONS = 2
    CATEGORY_BURST_MIN_SESSIONS = 2
    SESSION_RISK_BURST_MIN_SESSIONS = 2
    NearTexts <- Near
    AlikeTexts <- Alike
    Embeddings = TRUE
    WINDOW = 2
    COOLDOWN = 3
    LastPrompt = 2
    MaxClock = 4
    MaxFaults = 1
INVARIANTS
    TypeOK
    BurstIsActedOnOnce
    OrdinaryTrafficIsSpared
    OnlyReplaysKillByDefault
    RecordedKillIsOrdered
    NoReplaySlipsBy
PROPERTIES
    KillsKeepThePromise
CHECK_DEADLOCK FALSE
