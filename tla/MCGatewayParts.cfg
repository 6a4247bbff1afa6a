CONSTANTS
    c1 = c1
    c2 = c2
    c3 = c3
    c4 = c4
    c5 = c5
    s1 = s1
    s2 = s2
    s3 = s3
    s4 = s4
    s5 = s5
    p1 = p1
    p2 = p2
    u1 = u1
    u2 = u2
    u3 = u3
    u4 = u4
    t1 = t1
    t2 = t2
    t3 = t3
    q1 = q1
    q2 = q2
    q3 = q3
    q4 = q4
    q5 = q5
    q6 = q6
    q7 = q7
    NoPayload = NoPayload
    Axes <- MCAxes
    Inputs <- MCInputs
    ActualsFor <- MCActualsFor
    PrincipalLimit <- MCPrincipalLimit
    InstallationLimit <- MCInstallationLimit
    Days = 2
    Legacy <- MCLegacy
    StoreCalls <- MCStoreCalls
    BindingOf <- MCBindingOf
    Payloads = {p1, p2}
    MaxUnacknowledged = 2
    MaxUnacknowledgedGlobal = 2
    MaxSucceeded = 1
    Requests <- MCRequests
    Abandonable <- MCRequests
    Users <- MCUsers
    Tokens <- MCTokens
    TokenOf <- MCTokenOf
    UserOf <- MCUserOf
    LaneOf <- MCLaneOf
    laneLimits <- MCLaneLimits
    laneQueueMax <- MCLaneQueueMax
    maxConcurrentPerUser = 1
    maxConcurrentPerToken = 1
    maxInflightPerUser = 2
    visionMaxConcurrentPerUser = 1
    visionMaxInflightPerUser = 1
    Calls <- MCCalls
    Capacity = 2
    PerToken = 2
    QueueMax = 2
    Waits = {0, 2, 4}
    MaxTime = 6
SPECIFICATION PartsSpec
CHECK_DEADLOCK FALSE
INVARIANTS
    WaitersExact
    RateKept
    TokenWakesQueue
    TablesExact
    LanesExact
PROPERTIES
    OutcomesStand
    TurnsKept
