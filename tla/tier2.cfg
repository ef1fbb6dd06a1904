SPECIFICATION FairSpec
CONSTANTS
    s1 = s1
    c1 = c1
    c2 = c2
    c3 = c3
    c4 = c4
    c5 = c5
    Prompts = {1, 2}
    Copies = {c1, c2, c3}
    Of <- TwoDelivered
    Session <- OneSession
    Sessions = {s1}
    Scenarios <- Pairs
    Modes = {"enforce"}
    Policy <- Defaults
    KillGuards = TRUE
    EndpointSet = TRUE
    REVIEW_LAYER1_BLOCKED_PROMPTS = FALSE
    SESSION_CONTEXT_MAX = 2
    Serialized = FALSE
    MaxClock = 1
    MaxFaults = 2
INVARIANTS
    TypeOK
    AtMostOnce
    KillIsCorroborated
    ModelAloneNeverKills
    Accounted
PROPERTIES
    KeepsItsPromise
    EveryPromptIsSettled
CHECK_DEADLOCK FALSE
