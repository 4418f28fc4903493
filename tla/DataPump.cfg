SPECIFICATION FairSpec
CONSTANTS
    l1 = l1
    l2 = l2
    o1 = o1
    o2 = o2
    Loads = {l1, l2}
    Others = {o1, o2}
    Plans <- MCPlans
    MaxRestarts = 1
INVARIANTS LoaderPasswordIsCurrent PatchIsUninterrupted ImportCompleteMeansImported
    GcsBackupIsWhole RestoredIsRequested
PROPERTY LoadsAreAnswered
CHECK_DEADLOCK FALSE
