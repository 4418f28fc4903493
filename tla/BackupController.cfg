CONSTANTS
    b1 = b1
    b2 = b2
    Backups <- MCBackups
    Plans <- MCPlans
    Disks = {DataDisk, LogDisk}
SPECIFICATION FairSpec

    
PROPERTIES
    StartsOnlyPendingBackups
    StartedBackupsEnd
CHECK_DEADLOCK FALSE
