SPECIFICATION FairSpec
CONSTANTS
    s1 = s1
    c1 = c1
    c2 = c2
    c3 = c3
    c4 = c4
    c5 = c5
    Prompts = {1, 2, 3, 4, 5}
    Copies = {c1, c2, c3, c4, c5}
    Of <- InTurn
    Session <- OneSession
    Sessions = {s1}
    Scenarios <- SmallTalk
    Modes = {"enforce"}
    Policy <- Defaults
    KillGuards = TRUE
    EndpointSet = TRUE
    REVIEW_LAYER1_BLOCKED_PROMPTS = FALSE
    SESSION_CONTEXT_MAX = 2
    Serialized = TRUE
    MaxClock = 9
    MaxFaults = 0
PROPERTIES
    ScoreGrowsByEvidence
CHECK_DEADLOCK FALSE
