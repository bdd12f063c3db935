SPECIFICATION Spec
CONSTANTS
    Scripts <- PromptMeetsMail
    MaxOps = 3
    MaxTasks = 4
    MaxCalls = 1
    MaxFaults = 1
INVARIANTS StartsIdle
CHECK_DEADLOCK FALSE
