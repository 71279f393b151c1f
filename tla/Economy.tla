------------------------------- MODULE Economy -------------------------------
(***************************************************************************)
(* Tokenomics, Treasury, Depository, Dispenser and OLAS together: the bond    *)
(* programme, the owners' incentives and the staking incentives draw from the *)
(* inflation of the same epochs, and mint OLAS under the same cap.           *)
(***************************************************************************)
EXTENDS Bonding, DispenserEpochs, UnitIncentives

\* Bounds on the calls other than checkpoints: each behaviour takes one of these records, and
\* makes at most that many calls of each kind.
CONSTANT Budgets
Kinds == {"owner", "bond", "unit", "staking"}
ASSUME BudgetAssumption == \A b \in Budgets : b \in [Kinds -> Nat]

VARIABLE left           \* of the budget

vars == <<now, totalSupply, inflationVars, bondingVars, dispenserVars, incentiveVars, left>>

Init ==
    /\ now \in Launches /\ totalSupply = InitialSupply
    /\ InflationInit /\ BondingInit /\ DispenserInit /\ IncentivesInit
    /\ left \in Budgets

Tick ==
    /\ now < MaxTime /\ now' = now + 1
    /\ UNCHANGED <<totalSupply, inflationVars, bondingVars, dispenserVars, incentiveVars, left>>

Checkpoint ==
    /\ epochCounter < MaxEpochs
    /\ SettleEpoch /\ CountVotes /\ rebalanceTreasury
    /\ UNCHANGED <<now, totalSupply, bondingVars, mapLastClaimed, mapRemoved, filled,
                   distributed, forfeited, left>>

Call(kind) ==
    /\ left[kind] > 0 /\ left' = [left EXCEPT ![kind] = @ - 1]
    /\ UNCHANGED now

OwnerCall ==
    /\ Call("owner")
    /\ \/ \E len \in EpochLens : changeTokenomicsParameters(len)
       \/ \E f \in NewFractions : changeIncentiveFractions(f)
       \/ \E p \in NewStakingParams : changeStakingParams(p)
    /\ UNCHANGED <<totalSupply, bondingVars, dispenserVars, incentiveVars>>

BondCall ==
    /\ Call("bond")
    /\ \/ \E s \in Supplies : create(s)
       \/ \E p \in Products : close(p)
       \/ \E p \in Products, amount \in Payouts : deposit(p, amount)
       \/ \E S \in SUBSET Bonds : redeem(S)
    /\ UNCHANGED <<dispenserVars, incentiveVars>>

UnitCall ==
    /\ Call("unit")
    /\ \/ \E s \in Services, amount \in Donations, eligible \in BOOLEAN : donate(s, amount, eligible)
       \/ \E S \in SUBSET Units : claimOwnerIncentives(S)
    /\ UNCHANGED <<bondingVars, dispenserVars>>

StakingCall ==
    /\ Call("staking")
    /\ \/ \E n \in Nominees : addNominee(n) \/ removeNominee(n) \/ checkpointNominee(n)
       \/ \E n \in Nominees, num \in 1..MaxNumClaimingEpochs : claimStakingIncentives(n, num)
       \/ retain
    /\ UNCHANGED <<bondingVars, incentiveVars>>

Next == Tick \/ Checkpoint \/ OwnerCall \/ BondCall \/ UnitCall \/ StakingCall

Spec == Init /\ [][Next]_vars

TypeOK ==
    /\ now \in 0..MaxTime /\ totalSupply \in Nat /\ left \in [Kinds -> Nat]
    /\ epochCounter \in 1..MaxEpochs
    /\ endTime \in [0..MaxEpochs -> 0..MaxTime]
    /\ epochLen \in MinEpochLen..MaxEpochLen /\ nextEpochLen \in {0} \cup MinEpochLen..MaxEpochLen
    /\ currentYear \in Years /\ inflationPerSecond \in Nat
    /\ fractions \in [1..(MaxEpochs + 1) -> {FirstFractions} \cup NewFractions]
    /\ stakingParams \in [1..(MaxEpochs + 1) -> {FirstStakingParams} \cup NewStakingParams]
    /\ updated \subseteq {"parameters", "fractions", "staking"}
    /\ totalTopUpsOLAS \in [Epochs -> Nat]
    /\ maxBond \in Nat /\ effectiveBond \in Nat
    /\ stakingIncentive \in [1..(MaxEpochs + 1) -> Nat]
    /\ supply \in [Products -> Nat] /\ productCounter \in 0..MaxProducts
    /\ payout \in [Bonds -> Nat] /\ maturity \in [Bonds -> Nat] /\ bondCounter \in 0..MaxBonds
    /\ depositoryOLAS \in Nat /\ redeemed \in Nat
    /\ mapLastClaimed \in [Nominees -> 0..MaxEpochs] /\ mapRemoved \in [Nominees -> 0..MaxEpochs]
    /\ votes \in [Epochs -> VoteOutcomes \cup {NoVotes}]
    /\ filled \in [Nominees -> 0..MaxEpochs]
    /\ distributed \in Nat /\ forfeited \in Nat
    /\ \A f \in {pendingReward, pendingTopUp, reward, topUp} : f \in [Units -> Nat]
    /\ lastEpoch \in [Units -> 0..MaxEpochs] /\ totalDonations \in [Epochs -> Nat]
    /\ sumUnitTopUps \in [Epochs -> [UnitTypes -> Nat]]
    /\ lastDonation \in -1..MaxTime
    /\ ETHFromServices \in Nat /\ ETHOwned \in Nat /\ toppedUp \in Nat

\* The depository holds the OLAS of every bond as long as no epoch has been credited in
\* advance with the inflation of a year whose cap is not yet in force: Treasury.sol:239
\* "guaranteed by the product supply limit, which is limited by the effectiveBond".  Two things
\* that no contract checks are needed beside: the first epoch was to end in the first year, and
\* the weights of no settled epoch exceeded 100% together; else the bonds or the staking
\* incentives may use up room under the cap that belongs to the bonds.
BondsBacked ==
    (FirstInYear /\ Overallocated = 0 /\ YearOf(LastEnd + epochLen) < CapYears) =>
        depositoryOLAS >= Outstanding

\* The inflation of the epochs follows the schedule of OLAS, and what each of the three
\* programmes took out of it was its own, but for what weights above 100% allocate.
InflationKept == ScheduleKept /\ TopUpsCovered /\ StakingCovered
===============================================================================
