CONSTANTS
    r1 = r1
    r2 = r2
    r3 = r3
    r4 = r4
    Requests <- MCRequests
    InstallationOf <- MCInstallationOf
    PrincipalOf <- MCPrincipalOf
    OperationOf <- MCOperationOf
    BodyOf <- MCBodyOf
    InputBytes <- MCInputBytes
    RequestedOutput <- MCRequestedOutput
    ModelMaxOutput = 2
    PrincipalLimit = 4
    InstallationLimit = 4
    Days = 1
    MaxUnacknowledged = 2
    MaxUnacknowledgedGlobal = 2
    MaxSucceeded = 1
    NoPayload = NoPayload
    LedgerUp = {TRUE, FALSE}
    StoreUp = {TRUE, FALSE}
SPECIFICATION Spec
INVARIANTS
    AtMostOneUpstreamCall
    AnswersPaidAndOwn
PROPERTIES
    SettledAsStored
    ImplementsReplayableOperation
