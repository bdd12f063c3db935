SPECIFICATION Spec
CONSTANTS
    MaxEvents = 2
    MaxCrashes = 1
INVARIANTS TypeOK  ReleaseStopsInput SuccessIsTrue
 
CHECK_DEADLOCK FALSE
