CONSTANTS
    NumServices = 3
    Owners = {o1}
    StakingContract = stakingContract
    NoOwner = noOwner
    MaxNumServices = 3
    RewardsPerSecond = 1
    LivenessPeriod = 1
    MinNumStakingPeriods = 1
    MaxNumInactivityPeriods = 1
    DepositAmounts = {4}
    MaxTime = 4
    MaxBalance = 4
    MaxDepth = 1
SPECIFICATION Spec
INVARIANTS UnstakeIndexExists
