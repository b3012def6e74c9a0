SPECIFICATION FairSpec
CONSTANT Steps = 4
INVARIANTS TypeOK StoppedTourLeavesNothing ReturnedTourIsStopped
PROPERTY CancelledWorkReturns
