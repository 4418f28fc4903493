CONSTANTS
    StsImages = {v1, v2}
    AgentImages = {a1, a2}
    BadImages = {}
    OtherBackups = TRUE
    EditsOverlap = FALSE
    MaxSpecEdits = 3
    DefaultAgent = a1
    Disks = {data}
    MaxSize = 2
    ConfigDisks = {data}
    ConfigSize = 1
    DefaultSize = 1
    Expandable = {data}
SPECIFICATION FairPatchingSpec
PROPERTIES
    RollbackRestoresContents
    FailedPatchingIsRecovered
    
CHECK_DEADLOCK FALSE
