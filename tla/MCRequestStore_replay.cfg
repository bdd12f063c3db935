SPECIFICATION Spec
CONSTANTS
    click1 = click1
    hand1 = hand1
    boot1 = boot1
    key1 = key1
    agent = agent
    client = client
    second = second
    service = service
    sidecar = sidecar
    NoReq = NoReq
    Requests = {click1}
    Workers = {agent, client}
    ProcessOf <- TwoProcesses
    Allowed <- Roles
    Crashable = {}
    TypeOf <- AllTypes
    TTL = 1
    RenewWindow = 1
    MaxRequests = 1
    MaxTime = 1
    MaxApprovals = 1
    MaxEffects = 2
INVARIANT AtMostOneEffect
