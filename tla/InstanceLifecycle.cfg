SPECIFICATION FairSpec
CONSTANT MaxEvents = 3
INVARIANTS ReadyMeansProvisioned StoppedIsDown
PROPERTIES NothingIsOverwritten ProvisioningEnds DatabaseFollowsSpec
CHECK_DEADLOCK FALSE
