SPECIFICATION PartsSpec
CONSTANTS
    o1 = o1
    o2 = o2
    o3 = o3
    a1 = a1
    b1 = b1
    b2 = b2
    b3 = b3
    d1 = d1
    d2 = d2
    NoOwner = NoOwner
    Owners <- MCOwners
    Requests <- MCRequests
    OwnerOf <- MCOwnerOf
    Abandonable <- MCRequests
    MaxActive = 3
    MaxActivePerOwner = 2
    MaxQueued = 3
    MaxQueuedPerOwner = 2
    c1 = c1
    c2 = c2
    c3 = c3
    NoChild = NoChild
    Children <- MCChildren
    MaxToken = 3
    Signals = TRUE
CHECK_DEADLOCK FALSE
INVARIANTS
    Bookkeeping
    NoRunnableWaiter
    NoStrayChild
    ServerHasToken
PROPERTIES
    ServedInTurn
    WaiterEventuallySettled
    ExitNoticed
