CONSTANTS
    i1 = i1
    i2 = i2
    Installations <- MCInstallations
    Me = i1
    MaxSessions = 3
    MaxCalls = 2
    MaxLate = 2
SPECIFICATION FairSpec
CHECK_DEADLOCK FALSE
INVARIANTS
    SessionKept
    OneLiveSession
    RefreshBuysOnce
PROPERTIES
    LogoutGetsItsTurn
