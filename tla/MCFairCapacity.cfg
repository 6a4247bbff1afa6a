CONSTANTS
    u1 = u1
    u2 = u2
    u3 = u3
    u4 = u4
    t1 = t1
    t2 = t2
    t3 = t3
    a1 = a1
    a2 = a2
    a3 = a3
    b1 = b1
    b2 = b2
    e1 = e1
    d1 = d1
    d2 = d2
    d3 = d3
    Users <- MCUsers
    Requests <- PoolRequests
    UserOf <- PoolUserOf
    Tokens <- MCTokens
    TokenOf <- MCTokenOf
    Abandonable <- PoolRequests
    maxConcurrent = 2
    maxConcurrentPerUser = 1
    maxConcurrentPerToken = 1
    queueMax = 4
    maxInflightPerUser = 3
SPECIFICATION PoolFairSpec
INVARIANTS
    PoolExact
PROPERTIES
    WaiterEventuallySettled
