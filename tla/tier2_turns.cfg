SPECIFICATION Spec
CONSTANTS
    s1 = s1
    c1 = c1
    c2 = c2
    c3 = c3
    c4 = c4
    c5 = c5
    Prompts = {1, 2, 3}
    Copies = {c1, c2, c3}
    Of <- InTurn
    Session <- OneSession
    Sessions = {s1}
    Scenarios <- Talks
    Modes = {"enforce", "off"}
    Policy <- Defaults
    KillGuards = TRUE
    EndpointSet = TRUE
    REVIEW_LAYER1_BLOCKED_PROMPTS = FALSE
    SESSION_CONTEXT_MAX = 3
    Serialized = TRUE
    MaxClock = 3
    MaxFaults = 0
INVARIANTS
    KillIsCorroborated
    ModelAloneNeverKills
    SafeIntentVetoes
    ShadowTellsTheTruth
CHECK_DEADLOCK FALSE
