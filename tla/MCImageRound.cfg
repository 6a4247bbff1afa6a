SPECIFICATION FairRoundSpec
CONSTANTS
    Keys = {key}
    Callers = {c1, c2}
    Creator = c1
    Refresher = refresher
    Pollers = {c2}
    Cancellers = {c2}
    MaxCrashes = 1
INVARIANTS
    PostedOnce
    KnownFailureIsFree
    CommittedBeforeReleased
PROPERTIES
    PaidWorkIsDelivered
CHECK_DEADLOCK FALSE
