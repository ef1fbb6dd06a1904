SPECIFICATION Spec
CONSTANTS
    s1 = s1
    s2 = s2
    r1 = r1
    r2 = r2
    r3 = r3
    r4 = r4
    r5 = r5
    r6 = r6
    r7 = r7
    o1 = o1
    Sessions = {s1, s2}
    Requests = {r1, r2, r3, r4, r5, r6, r7}
    Orders = {}
    Req <- ScreenedRequests
    RuntimeKind <- Unstoppable
    OrderSession <- OrderS1
    TIER1_MODE = "gate"
    DETECTION_FAILURE_POLICY = "fail_closed"
    TRANSPORT_FAILURE_POLICY = "fail_closed"
    TelemetryWired = TRUE
    SessionCap = 2
    SESSION_BLOCK_THRESHOLD = 2
    BonusCap = 0
    Serialized = TRUE
    RowsExpire = FALSE
    MaxReceive = 1
    MaxAttempts = 1
INVARIANTS
    DeliveryIsAccountedFor
    SurvivorsAreHeard
    EveryTurnIsCounted
    KillReportsAreTrue
PROPERTIES
    RefusedOnceTerminated
CHECK_DEADLOCK FALSE
