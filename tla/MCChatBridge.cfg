SPECIFICATION Spec
CONSTANTS
    m1 = m1
    m2 = m2
    p1 = p1
    Remote = {m1, m2}
    Local = {p1}
    Text <- SameText
    Pausing = {m2}
    MaxReplies = 1
    Casts <- Encounters
CHECK_DEADLOCK FALSE
INVARIANTS TypeOK RecordedOnce CompletedAreRecorded
PROPERTIES  RepliesEnd
