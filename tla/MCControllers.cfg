SPECIFICATION Spec
INVARIANTS PendingOnItsWay NeverAborts DrainCovered OneBurstAtATime HeldBackForRefresh
PROPERTIES ReadsBeforeWrites
