SPECIFICATION Spec
CONSTANTS
    Scripts <- EachAlone
    MaxOps = 3
    MaxTasks = 4
    MaxCalls = 1
    MaxFaults = 1
INVARIANTS TypeOK StartsIdle  InputKept
PROPERTIES   SteerAnswered
CHECK_DEADLOCK FALSE
