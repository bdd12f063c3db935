SPECIFICATION Spec
CONSTANTS
    t1 = t1
    t2 = t2
    phone = phone
    tablet = tablet
    None = None
    Takeovers = {t1, t2}
    Clients = {phone, tablet}
    Tools <- GatedTools
    Decisions <- Outcomes
    TTL = 2
    Patience = 1
    MaxTouched = 2
INVARIANTS TypeOK NoOverrun DuplicatesBounded
PROPERTY CallReturns
