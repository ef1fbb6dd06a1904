SPECIFICATION Spec
CONSTANTS
    s1 = s1
    s2 = s2
    r1 = r1
    r2 = r2
    r3 = r3
    r4 = r4
    r5 = r5
    r6 = r6
    r7 = r7
    o1 = o1
    Sessions = {s1}
    Requests = {r1, r2}
    Orders = {o1}
    Req <- RaceRequests
    RuntimeKind <- SelfManaged
    OrderSession <- OrderS1
    TIER1_MODE = "sidecar"
    DETECTION_FAILURE_POLICY = "fail_open"
    TRANSPORT_FAILURE_POLICY = "allow_and_mark_degraded"
    TelemetryWired = FALSE
    SessionCap = 2
    SESSION_BLOCK_THRESHOLD = 2
    BonusCap = 1
    Serialized = FALSE
    RowsExpire = TRUE
    MaxReceive = 2
    MaxAttempts = 1
INVARIANTS
    TypeOK
    DeliveryIsAccountedFor
    EveryBlockCarriesAKill
    KillOnlyAfterMark
    KillReportsAreTrue
    SurvivorsAreHeard
    SeenIsNotOvercounted
PROPERTIES
    StopsKeepThePromise
CHECK_DEADLOCK FALSE
