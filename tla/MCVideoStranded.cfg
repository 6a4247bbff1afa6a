\* The video relay: a result whose upload fails after its row was written.
SPECIFICATION VideoSpec
CONSTANTS
    short = short
    long = long
    owner = owner
    Ops = {short, long}
    Long = {long}
    OwnerOf <- MCOwnerOf
    Units <- MCUnits
    Callers = {c1, c2}
    Flights = {f1, f2}
    Versions = {1, 2}
    OwnerLimit = 1
    AccountLimit = 1
    MaxCrashes = 1
INVARIANTS
    PublishingPromotable
CHECK_DEADLOCK FALSE
