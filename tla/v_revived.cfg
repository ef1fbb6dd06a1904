SPECIFICATION Spec
CONSTANTS
    s1 = s1
    s2 = s2
    r1 = r1
    r2 = r2
    r3 = r3
    r4 = r4
    r5 = r5
    r6 = r6
    r7 = r7
    o1 = o1
    Sessions = {s1}
    Requests = {r1, r2, r3}
    Orders = {}
    Req <- Pursuit
    RuntimeKind <- SelfManaged
    OrderSession <- OrderS1
    TIER1_MODE = "sidecar"
    DETECTION_FAILURE_POLICY = "fail_open"
    TRANSPORT_FAILURE_POLICY = "allow_and_mark_degraded"
    TelemetryWired = TRUE
    SessionCap = 2
    SESSION_BLOCK_THRESHOLD = 2
    BonusCap = 0
    Serialized = FALSE
    RowsExpire = FALSE
    MaxReceive = 2
    MaxAttempts = 2
PROPERTIES
    RefusedOnceTerminated
CHECK_DEADLOCK FALSE
