CONSTANTS
    r1 = r1
    r2 = r2
    r3 = r3
    Requests <- MCRequests
    InstallationOf <- MCInstallationOf
    PrincipalOf <- MCPrincipalOf
    OperationOf <- MCOperationOf
    BodyOf <- MCBodyOf
    InputBytes <- MCInputBytes
    RequestedOutput <- MCCapped
    ModelMaxOutput = 2
    PrincipalLimit = 5
    InstallationLimit = 3
    Days = 2
    MaxUnacknowledged = 2
    MaxUnacknowledgedGlobal = 2
    MaxSucceeded = 1
    NoPayload = NoPayload
    LedgerUp = {TRUE}
    StoreUp = {TRUE}
SPECIFICATION MCSpec
INVARIANTS
    QuotaHeld
PROPERTIES
    OperationResolved
