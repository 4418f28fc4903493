CONSTANTS
    Ids = {i1}
    Jobs = {j1, j2}
    NoJob = NoJob
    TtlAfterDelete = 1
    TtlAfterComplete = 3
SPECIFICATION ServerSpec
PROPERTY StatusIsThreadSafe
