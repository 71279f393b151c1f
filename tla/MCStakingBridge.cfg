CONSTANTS
    NumTargets = 2
    Incentives = {0, 3, 5}
    Limits = {0, 2, 4}
    BridgeUnit = 2
    MaxWithheld = 6
    MaxBatches = 2
    MaxSyncs = 2
    MaxFailures = 1
SPECIFICATION Spec
INVARIANTS TypeOK Backed
PROPERTIES PausedPaysNothing ImplementsDelivery
CHECK_DEADLOCK FALSE
