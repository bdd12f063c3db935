SPECIFICATION Spec
CONSTANTS
    click1 = click1
    hand1 = hand1
    boot1 = boot1
    key1 = key1
    agent = agent
    client = client
    second = second
    service = service
    sidecar = sidecar
    NoReq = NoReq
    Requests = {click1, boot1, hand1, key1}
    Workers = {agent}
    ProcessOf <- OneProcess
    Allowed <- Everything
    Crashable = {}
    TypeOf <- AllTypes
    TTL = 1
    RenewWindow = 1
    MaxRequests = 2
    MaxTime = 2
    MaxApprovals = 2
    MaxEffects = 2
INVARIANT TypeOK
INVARIANT AuditAgrees
INVARIANT AtMostOneEffect
PROPERTY ImplementsLifecycle
