CONSTANTS
    MaxTime = 3
    Confs <- MCConfs
    Changes <- MoreOften
    BackupRetention = 1
SPECIFICATION FairScheduleSpec
INVARIANTS
    ConcurrencyPolicyHolds
    RetentionKeepsNewest
PROPERTY DueTriggersAreServed
CHECK_DEADLOCK FALSE
