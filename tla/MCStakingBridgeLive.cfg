CONSTANTS
    NumTargets = 2
    Incentives = {0, 1, 2}
    Limits = {1, 2}
    BridgeUnit = 1
    MaxWithheld = 4
    MaxBatches = 2
    MaxSyncs = 1
    MaxFailures = 0
SPECIFICATION FairSpec
PROPERTIES QueuedIsRedeemed
CHECK_DEADLOCK FALSE
