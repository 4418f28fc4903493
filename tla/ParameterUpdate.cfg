SPECIFICATION FairUpdateSpec
CONSTANTS
    Initial = v0
    Values = {v0, good, bad, refused, reserved}
    Reserved = {reserved}
    Rejected = {refused}
    Fatal = {bad}
    Windows <- MCWindows
    MaxTime = 3
    MaxChanges = 2
    MaxFailures = 2
INVARIANTS ReadyMeansUp CalmUpdateIsSet
PROPERTIES FailedUpdateIsUndone UpdatesEnd
CHECK_DEADLOCK FALSE
