SPECIFICATION FairSpec
CONSTANTS
    Passwords = {p1, p2, bad}
    Invalid = {bad}
    Privileges = {"dba", "unlimited tablespace"}
    Roles = {"dba"}
    Implied <- MCImplied
    Wanted = {{"dba"}, {"unlimited tablespace"}}
    SameName = "yes"
    MaxEdits = 3
    MaxFailures = 1
INVARIANTS ListedMeansExists SyncedMeansGranted
PROPERTIES FinalizerGuardsPdb UsersConverge InstanceDeletionEnds
CHECK_DEADLOCK FALSE
