CONSTANTS
    Ids = {i1}
    Jobs = {j1, j2}
    NoJob = NoJob
    TtlAfterDelete = 0
    TtlAfterComplete = 1
SPECIFICATION ServerSpec
INVARIANTS
    OneRunPerOperation
    ReportedOutcomeStands
PROPERTIES
    ImplementsService
