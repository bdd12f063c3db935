SPECIFICATION Spec
CONSTANTS
    t1 = t1
    t2 = t2
    phone = phone
    tablet = tablet
    None = None
    Takeovers = {t1, t2}
    Clients = {phone}
    Tools <- DemoTools
    Decisions <- ClientDecisions
    TTL = 2
    Patience = 3
    MaxTouched = 2
INVARIANT ResumesAfterRelease
PROPERTY CallReturns
