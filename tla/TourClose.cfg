SPECIFICATION FairSpec
CONSTANT Steps = 2
PROPERTY CancelledTourReturns
CHECK_DEADLOCK FALSE
