SPECIFICATION FairSpec
CONSTANTS
    Settings = {s1, s2}
    Hosts = {h1, h2}
    MaxEdits = 2
    MaxFailures = 2
    MaxRestarts = 1
INVARIANTS ReadyMeansMigrated PrimaryIsLetGo
 
CHECK_DEADLOCK FALSE
