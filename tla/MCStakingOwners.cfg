CONSTANTS
    NumServices = 2
    Owners = {o1, o2}
    StakingContract = stakingContract
    NoOwner = noOwner
    MaxNumServices = 1
    RewardsPerSecond = 1
    LivenessPeriod = 2
    MinNumStakingPeriods = 1
    MaxNumInactivityPeriods = 1
    DepositAmounts = {3}
    MaxTime = 7
    MaxBalance = 6
    MaxDepth = 2
SPECIFICATION Spec
INVARIANTS Solvency Custody
PROPERTIES ServiceReturnsToStaker
