SPECIFICATION Spec
CONSTANTS
    code1 = code1
    phone = phone
    tablet = tablet
    h1 = h1
    h2 = h2
    cli = cli
    service = service
    None = None
    Codes = {code1}
    Devices = {phone, tablet}
    Workers = {h1, h2, cli}
    ProcessOf <- OneProcess
    Allowed <- Everyday
    MaxUses = 1
    PairingTTL = 0
    SessionTTL = 1
    RefreshWindow = 1
    MaxSnapshots = 2
    MaxTime = 1
INVARIANTS TypeOK  SessionsHaveDevices SlidingExpiry 
