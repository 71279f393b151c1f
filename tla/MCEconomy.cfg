SPECIFICATION Spec
CONSTANTS
  Year = 4
  CapYears = 2
  InitialSupply = 0
  InflationForYear <- MCInflation
  MaxTime = 9
  Launches = {1, 3}
  MinEpochLen = 2
  MaxEpochLen = 3
  FirstEpochLen = 2
  EpochLens = {3}
  FirstFractions <- MCFirstFractions
  NewFractions <- MCNewFractions
  FirstStakingParams <- MCFirstStakingParams
  NewStakingParams <- MCNewStakingParams
  MaxEpochs = 4
  Supplies = {4800, 19200}
  Payouts = {1600, 4800, 19200}
  Vesting = 1
  MaxProducts = 2
  MaxBonds = 2
  NumNominees = 2
  Retainer = 2
  Scale = 4
  VoteOutcomes <- MCVoteOutcomes
  BridgeUnit <- MCBridgeUnit
  Week = 1
  MaxNumClaimingEpochs = 2
  NumUnits = 3
  UnitTypeOf <- MCUnitTypeOf
  UnitOwner <- MCUnitOwner
  UnitsOf <- MCUnitsOf
  Donations = {100}
  Budgets <- MCBudgets
INVARIANTS TypeOK InflationKept BondBudget BondsBacked StakingConserved RewardsCovered
CHECK_DEADLOCK FALSE
