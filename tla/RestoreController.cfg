CONSTANT MaxRequests = 2
SPECIFICATION FairSpec
INVARIANTS
    LaunchedOncePerRequest
    CompleteMeansRestored
 
CHECK_DEADLOCK FALSE
