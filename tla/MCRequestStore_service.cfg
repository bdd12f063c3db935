SPECIFICATION Spec
CONSTANTS
    click1 = click1
    hand1 = hand1
    boot1 = boot1
    key1 = key1
    agent = agent
    client = client
    second = second
    service = service
    sidecar = sidecar
    NoReq = NoReq
    Requests = {click1, hand1}
    Workers = {agent, client, second}
    ProcessOf <- OneProcess
    Allowed <- Deciders
    Crashable = {service}
    TypeOf <- AllTypes
    TTL = 1
    RenewWindow = 1
    MaxRequests = 1
    MaxTime = 2
    MaxApprovals = 2
    MaxEffects = 2
INVARIANTS  Coherent
PROPERTY NeverForgotten
SYMMETRY ClientSymmetry
