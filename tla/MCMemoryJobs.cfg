SPECIFICATION Spec
CONSTANTS
    a = a
    s1 = s1
    s2 = s2
    Nobody = Nobody
    Threads = {a}
    Workers = {s1, s2}
    MaxVersion = 2
    MaxClaimed = 1
    Retries = 1
    ExtractLease = 1
    GlobalLease = 2
    RetryDelay = 1
    Cooldown = 1
    MaxFaults = 1
INVARIANTS TypeOK ExtractedOnce OneWriter
PROPERTIES WorkspaceSettles 
