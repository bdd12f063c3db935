SPECIFICATION Spec
CONSTANTS
    t1 = t1
    t2 = t2
    phone = phone
    tablet = tablet
    None = None
    Takeovers = {t1}
    Clients = {phone}
    Tools <- GatedTools
    Decisions <- ClientDecisions
    TTL = 1
    Patience = 2
    MaxTouched = 2
INVARIANT ResumesAfterRelease
