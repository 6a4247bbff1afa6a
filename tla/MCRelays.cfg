\* The image relay with a quota for both tasks, accounts that allow one each,
\* one retry and one crash; the video relay with room for one operation.
SPECIFICATION PartsSpec
CONSTANTS
    openaiKey = openaiKey
    seedreamKey = seedreamKey
    owner = owner
    Tasks = {t1, t2}
    Keys = {openaiKey, seedreamKey}
    Outputs = 2
    Accounts = {a, b}
    QueueMax = 2
    OwnerTaskMax = 2
    OwnerOf <- MCOwnerOf
    Hops <- MCHops
    OwnerQuota = 4
    ProviderQuota = 2
    MaxRetries = 1
    MaxCrashes = 1
    short = short
    long = long
    Ops <- MCOps
    Long <- MCLong
    OpOwnerOf <- MCOwnerOf
    Units <- MCUnits
    Callers = {c1, c2}
    Flights = {f1, f2}
    Versions = {1, 2}
    OwnerLimit = 1
    AccountLimit = 1
CHECK_DEADLOCK FALSE
INVARIANTS
    SpendWithinLimits
    NeverSentAgain
    WorkKept
PROPERTIES
    KeepsContract
    TaskEnds
