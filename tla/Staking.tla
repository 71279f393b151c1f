------------------------------ MODULE Staking -------------------------------
(***************************************************************************)
(* A service staking contract: registries/contracts/staking/StakingBase.sol *)
(* with the deposits and withdrawals of StakingToken and StakingNativeToken.*)
(* Owners stake services, which the contract holds as registry tokens.      *)
(* Anyone may call checkpoint, which rewards the services that pass the     *)
(* activity check out of availableRewards and evicts those inactive for too *)
(* long.                                                                    *)
(*                                                                          *)
(* A call is one action, as a transaction is atomic, except for unstake:    *)
(* it hands the service token back to its owner, whose onERC721Received may *)
(* call the contract again before the reward leaves.  Payouts that wait for *)
(* that callback to return are stacked in pending.                          *)
(***************************************************************************)
EXTENDS Integers, Sequences, Functions, Totals

CONSTANTS
    NumServices,             \* services of the registry that satisfy the contract's requirements
    Owners,                  \* accounts that hold service tokens
    StakingContract,         \* this contract, as a holder of service tokens
    NoOwner,                 \* the zero address
    MaxNumServices,          \* StakingParams.maxNumServices
    RewardsPerSecond,        \* StakingParams.rewardsPerSecond
    LivenessPeriod,          \* StakingParams.livenessPeriod
    MinNumStakingPeriods,    \* StakingParams.minNumStakingPeriods
    MaxNumInactivityPeriods, \* StakingParams.maxNumInactivityPeriods
    DepositAmounts,          \* amounts that are deposited
    MaxTime,                 \* bound on now
    MaxBalance,              \* bound on balance
    MaxDepth                 \* bound on nested unstake calls

\* The checks of _initialize.
ASSUME StakingParamsAssumption ==
    /\ MaxNumServices \in Nat \ {0}
    /\ RewardsPerSecond \in Nat \ {0}
    /\ LivenessPeriod \in Nat \ {0}
    /\ MinNumStakingPeriods \in Nat \ {0}
    /\ MaxNumInactivityPeriods \in Nat \ {0}
    /\ MinNumStakingPeriods >= MaxNumInactivityPeriods

ASSUME EnvironmentAssumption ==
    /\ NumServices \in Nat \ {0}
    /\ StakingContract \notin Owners
    /\ NoOwner \notin Owners
    /\ DepositAmounts \subseteq Nat \ {0}
    /\ MaxTime \in Nat /\ MaxBalance \in Nat /\ MaxDepth \in Nat

Services == 1..NumServices
MinStakingDuration == MinNumStakingPeriods * LivenessPeriod
MaxInactivityDuration == MaxNumInactivityPeriods * LivenessPeriod

VARIABLES
    now,              \* block.timestamp
    tsCheckpoint,     \* timestamp of the last checkpoint
    epochCounter,
    balance,          \* token / ETH balance
    availableRewards, \* the part of it that no service has earned yet
    setServiceIds,    \* the array of staked service ids
    \* mapServiceInfo, one variable per field
    owner,
    tsStart,          \* 0 when there is no record
    reward,
    inactivity,
    \* outside of the contract's storage
    nftOwner,         \* the registry's owner of each service token
    pending           \* stack of rewards that unstake calls still have to withdraw

infoVars == <<owner, tsStart, reward, inactivity>>
epochVars == <<tsCheckpoint, epochCounter, availableRewards>>
vars == <<now, epochVars, balance, setServiceIds, infoVars, nftOwner, pending>>

Init ==
    /\ now = 1
    /\ tsCheckpoint = now
    /\ epochCounter = 0
    /\ balance = 0
    /\ availableRewards = 0
    /\ setServiceIds = <<>>
    /\ owner = [s \in Services |-> NoOwner]
    /\ tsStart = [s \in Services |-> 0]
    /\ reward = [s \in Services |-> 0]
    /\ inactivity = [s \in Services |-> 0]
    /\ nftOwner \in [Services -> Owners]
    /\ pending = <<>>

-----------------------------------------------------------------------------
(* What a checkpoint computes.  The parameter active is the set of services *)
(* whose activity check passes: the checker is a contract of the deployer,  *)
(* and a failing call counts as not passed, so any set may be the outcome.  *)

Due == now - tsCheckpoint >= LivenessPeriod /\ availableRewards > 0

\* serviceIds: the staked services when a checkpoint is due, else none.
CheckpointIds == IF Due THEN setServiceIds ELSE <<>>
Checked_withEvicted == IF Due THEN {s \in Services : tsStart[s] > 0} ELSE {}
Checked == Range(CheckpointIds)

\* Start of the period a service is rewarded for, and the period's length.
LastTime_ignoresStart(s) == tsCheckpoint
LastTime(s) == IF tsStart[s] > tsCheckpoint THEN tsStart[s] ELSE tsCheckpoint
Period(s) == now - LastTime(s)

EligibleReward(active) ==
    [s \in Services |-> IF s \in Checked \cap active THEN RewardsPerSecond * Period(s) ELSE 0]
TotalRewards(active) == Total(EligibleReward(active), NumServices)
Insufficient(active) == TotalRewards(active) > availableRewards

\* Rewards in proportion to what is left, rounded down, when not all can be paid.
Share(active) ==
    [s \in Services |->
        IF Insufficient(active)
        THEN (EligibleReward(active)[s] * availableRewards) \div TotalRewards(active)
        ELSE EligibleReward(active)[s]]

\* eligibleServiceIds[0]: the first service of the array that passed the check.
FirstEligible(active) ==
    CheckpointIds[CHOOSE i \in DOMAIN CheckpointIds :
        /\ CheckpointIds[i] \in active
        /\ \A j \in 1..(i - 1) : CheckpointIds[j] \notin active]

\* What rounding leaves goes to the first eligible service.
Leftover(active) ==
    IF Insufficient(active) THEN availableRewards - Total(Share(active), NumServices) ELSE 0

RewardAfter(active) ==
    [s \in Services |->
        reward[s] + Share(active)[s]
        + IF Insufficient(active) /\ s = FirstEligible(active) THEN Leftover(active) ELSE 0]

AvailableAfter_unclamped(active) == availableRewards - TotalRewards(active)
AvailableAfter(active) ==
    IF Insufficient(active) THEN 0 ELSE availableRewards - TotalRewards(active)

InactivityAfter(active) ==
    [s \in Services |->
        IF s \notin Checked THEN inactivity[s]
        ELSE IF s \notin active /\ Period(s) > 0 THEN inactivity[s] + Period(s)
        ELSE 0]

Evicted(active) == {s \in Checked : InactivityAfter(active)[s] > MaxInactivityDuration}

\* setServiceIds[idx] = setServiceIds[length - 1]; setServiceIds.pop()
SwapRemove(ids, idx) == SubSeq([ids EXCEPT ![idx] = ids[Len(ids)]], 1, Len(ids) - 1)

\* The loop of _evict: positions are visited from the last to the first.
EvictSteps_firstToLast(ids, evict) ==
    LET rest[k \in 0..Len(ids)] ==
            IF k = 0 THEN ids
            ELSE IF ids[k] \in evict /\ k <= Len(rest[k - 1])
                 THEN SwapRemove(rest[k - 1], k)
                 ELSE rest[k - 1]
    IN rest
EvictSteps(ids, evict) ==
    LET rest[k \in 0..Len(ids)] ==
            IF k = 0 THEN ids
            ELSE IF ids[Len(ids) + 1 - k] \in evict
                 THEN SwapRemove(rest[k - 1], Len(ids) + 1 - k)
                 ELSE rest[k - 1]
    IN rest
_evict(ids, evict) == EvictSteps(ids, evict)[Len(ids)]

SetAfter(active) == _evict(setServiceIds, Evicted(active))

\* The timestamp and the epoch counter move only if some service was checked.
EpochAfter_sameTime ==
    IF CheckpointIds = <<>> THEN UNCHANGED <<tsCheckpoint, epochCounter>>
    ELSE tsCheckpoint' = tsCheckpoint /\ epochCounter' = epochCounter + 1
EpochAfter ==
    IF CheckpointIds = <<>> THEN UNCHANGED <<tsCheckpoint, epochCounter>>
    ELSE tsCheckpoint' = now /\ epochCounter' = epochCounter + 1

-----------------------------------------------------------------------------
(* Calls.  An operator whose name has a suffix after the name of another, as *)
(* in onlyOwner_anyStaked, is a faulty variant of it: the properties are run *)
(* against these variants too and have to notice the fault.                  *)

onlyOwner_anyStaked(sender, s) == owner[s] # NoOwner
onlyOwner(sender, s) == sender = owner[s]

deposit(amount) ==
    /\ balance + amount <= MaxBalance
    /\ balance' = balance + amount
    /\ availableRewards' = availableRewards + amount
    /\ UNCHANGED <<now, tsCheckpoint, epochCounter, setServiceIds, infoVars, nftOwner, pending>>

stake(sender, s) ==
    /\ availableRewards # 0
    /\ tsStart[s] = 0
    /\ Len(setServiceIds) # MaxNumServices
    /\ nftOwner[s] = sender
    /\ owner' = [owner EXCEPT ![s] = sender]
    /\ tsStart' = [tsStart EXCEPT ![s] = now]
    /\ setServiceIds' = Append(setServiceIds, s)
    /\ nftOwner' = [nftOwner EXCEPT ![s] = StakingContract]
    /\ UNCHANGED <<now, epochVars, balance, reward, inactivity, pending>>

checkpoint(active) ==
    /\ reward' = RewardAfter(active)
    /\ inactivity' = InactivityAfter(active)
    /\ availableRewards' = AvailableAfter(active)
    /\ setServiceIds' = SetAfter(active)
    /\ EpochAfter
    /\ UNCHANGED <<now, balance, owner, tsStart, nftOwner, pending>>

claim(sender, s) ==
    /\ onlyOwner(sender, s)
    /\ reward[s] # 0
    /\ reward' = [reward EXCEPT ![s] = 0]
    /\ balance' = balance - reward[s]
    /\ UNCHANGED <<now, epochVars, setServiceIds, owner, tsStart, inactivity, nftOwner, pending>>

checkpointAndClaim(sender, s, active) ==
    /\ onlyOwner(sender, s)
    /\ RewardAfter(active)[s] # 0
    /\ reward' = [RewardAfter(active) EXCEPT ![s] = 0]
    /\ balance' = balance - RewardAfter(active)[s]
    /\ inactivity' = InactivityAfter(active)
    /\ availableRewards' = AvailableAfter(active)
    /\ setServiceIds' = SetAfter(active)
    /\ EpochAfter
    /\ UNCHANGED <<now, owner, tsStart, nftOwner, pending>>

\* The array that unstake searches was read before the checkpoint evicted anyone.
IndexOf(s) == CHOOSE i \in DOMAIN setServiceIds : setServiceIds[i] = s
InSet(s, active) == s \in Range(setServiceIds) \ Evicted(active)

\* The index that unstake found exists in the array it is used on; else it reverts.
IndexExists(s, active) == InSet(s, active) => IndexOf(s) <= Len(SetAfter(active))

StakedLongEnough(s) == now - tsStart[s] > MinStakingDuration \/ availableRewards = 0

\* delete mapServiceInfo[serviceId], after the checkpoint
deleteInfo_keepsInactivity(s, active) ==
    /\ owner' = [owner EXCEPT ![s] = NoOwner]
    /\ tsStart' = [tsStart EXCEPT ![s] = 0]
    /\ reward' = [RewardAfter(active) EXCEPT ![s] = 0]
    /\ inactivity' = InactivityAfter(active)
deleteInfo_keepsReward(s, active) ==
    /\ owner' = [owner EXCEPT ![s] = NoOwner]
    /\ tsStart' = [tsStart EXCEPT ![s] = 0]
    /\ reward' = RewardAfter(active)
    /\ inactivity' = [InactivityAfter(active) EXCEPT ![s] = 0]
deleteInfo(s, active) ==
    /\ owner' = [owner EXCEPT ![s] = NoOwner]
    /\ tsStart' = [tsStart EXCEPT ![s] = 0]
    /\ reward' = [RewardAfter(active) EXCEPT ![s] = 0]
    /\ inactivity' = [InactivityAfter(active) EXCEPT ![s] = 0]

unstake(sender, s, active) ==
    /\ onlyOwner(sender, s)
    /\ StakedLongEnough(s)
    /\ IndexExists(s, active)
    /\ Len(pending) < MaxDepth
    /\ setServiceIds' = IF InSet(s, active) THEN SwapRemove(SetAfter(active), IndexOf(s))
                                            ELSE SetAfter(active)
    /\ deleteInfo(s, active)
    /\ availableRewards' = AvailableAfter(active)
    /\ EpochAfter
    /\ nftOwner' = [nftOwner EXCEPT ![s] = sender]
    /\ pending' = IF RewardAfter(active)[s] > 0 THEN Append(pending, RewardAfter(active)[s]) ELSE pending
    /\ UNCHANGED <<now, balance>>

\* The innermost token transfer returns, and its unstake call withdraws the reward.
_withdraw ==
    /\ pending # <<>>
    /\ balance' = balance - pending[Len(pending)]
    /\ pending' = SubSeq(pending, 1, Len(pending) - 1)
    /\ UNCHANGED <<now, epochVars, setServiceIds, infoVars, nftOwner>>

-----------------------------------------------------------------------------
(* The environment                                                          *)

\* Time passes between transactions only.
Tick ==
    /\ pending = <<>>
    /\ now < MaxTime
    /\ now' = now + 1
    /\ UNCHANGED <<epochVars, balance, setServiceIds, infoVars, nftOwner, pending>>

\* A holder transfers a service token in the registry, to the contract even.
TransferService(s, to) ==
    /\ nftOwner[s] \in Owners
    /\ nftOwner[s] # to
    /\ nftOwner' = [nftOwner EXCEPT ![s] = to]
    /\ UNCHANGED <<now, epochVars, balance, setServiceIds, infoVars, pending>>

Next ==
    \/ Tick
    \/ \E amount \in DepositAmounts : deposit(amount)
    \/ \E s \in Services, to \in Owners \cup {StakingContract} : TransferService(s, to)
    \/ \E sender \in Owners, s \in Services : stake(sender, s)
    \/ \E active \in SUBSET Checked : checkpoint(active)
    \/ \E sender \in Owners, s \in Services : claim(sender, s)
    \/ \E active \in SUBSET Checked, sender \in Owners, s \in Services :
            checkpointAndClaim(sender, s, active)
    \/ \E active \in SUBSET Checked, sender \in Owners, s \in Services :
            unstake(sender, s, active)
    \/ _withdraw

Spec == Init /\ [][Next]_vars

-----------------------------------------------------------------------------
(* Properties                                                               *)

\* Every variable has the type of its storage slot, and the clock runs ahead
\* of every recorded timestamp.
TypeOK ==
    /\ now \in Nat \ {0}
    /\ tsCheckpoint \in 0..now
    /\ epochCounter \in Nat
    /\ balance \in Int
    /\ availableRewards \in Nat
    /\ setServiceIds \in Seq(Services)
    /\ owner \in [Services -> Owners \cup {NoOwner}]
    /\ tsStart \in [Services -> Nat]
    /\ reward \in [Services -> Nat]
    /\ inactivity \in [Services -> Nat]
    /\ nftOwner \in [Services -> Owners \cup {StakingContract}]
    /\ pending \in Seq(Nat)

\* The balance covers exactly what is available, what services have earned and
\* what running unstake calls still have to pay, so that no _withdraw can
\* underflow ("the balance is always greater or equal the amount").
PendingTotal == Total(pending, Len(pending))
Solvency == balance = availableRewards + Total(reward, NumServices) + PendingTotal

\* The array of staked ids holds, once each and within the limit, exactly the
\* services that getStakingState reports as Staked: neither the swaps of an
\* eviction nor those of an unstake lose or duplicate an id.
StakedServices == {s \in Services : tsStart[s] > 0 /\ inactivity[s] <= MaxInactivityDuration}
StakedSetExact ==
    /\ IsInjective(setServiceIds)
    /\ Range(setServiceIds) = StakedServices
    /\ Len(setServiceIds) <= MaxNumServices

\* A service with a record, staked or evicted, is in the contract's custody and
\* has the account to return it to; one without a record has no residue of an
\* earlier stay, whatever a callback of unstake did meanwhile.
Custody ==
    \A s \in Services :
        IF tsStart[s] > 0
        THEN nftOwner[s] = StakingContract /\ owner[s] \in Owners /\ tsStart[s] <= now
        ELSE owner[s] = NoOwner /\ reward[s] = 0 /\ inactivity[s] = 0

\* A service is not both rewarded and held inactive for the same time: what it
\* has earned and what its inactivity would have earned stay within its time
\* since staking, but for the rounding leftovers of one unit per service and epoch.
NoDoubleCounting ==
    \A s \in Services : tsStart[s] > 0 =>
        reward[s] + RewardsPerSecond * inactivity[s]
            <= RewardsPerSecond * (LastTime(s) - tsStart[s]) + (MaxNumServices - 1) * epochCounter

\* Rewards are not emitted faster than rewardsPerSecond for each of the
\* maxNumServices slots over the time that the checkpoint accounts for.
EmissionRate ==
    [][availableRewards - availableRewards'
            <= RewardsPerSecond * MaxNumServices * (tsCheckpoint' - tsCheckpoint)]_vars

\* The account that staked a service is the one the record names until the
\* service leaves, and the one the service is returned to.
ServiceReturnsToStaker ==
    [][\A s \in Services :
        IF tsStart[s] = 0
        THEN tsStart'[s] > 0 => owner'[s] = nftOwner[s]
        ELSE IF tsStart'[s] > 0 THEN owner'[s] = owner[s]
        ELSE nftOwner'[s] = owner[s]]_vars

\* A call of unstake by the owner of a service that has been staked long enough
\* finds its index in the array ("the index must always exist as the service is
\* currently staked").
UnstakeIndexExists ==
    \A s \in Services : tsStart[s] > 0 /\ StakedLongEnough(s) =>
        \A active \in SUBSET Checked : IndexExists(s, active)

(* The abstract view: getStakingState for each service, and the sums.        *)
getStakingState(s) ==
    IF inactivity[s] > MaxInactivityDuration THEN "Evicted"
    ELSE IF tsStart[s] > 0 THEN "Staked"
    ELSE "Unstaked"

Lifecycle == INSTANCE StakingLifecycle
    WITH MinStay   <- MinStakingDuration,
         clock     <- now,
         since     <- tsStart,
         state     <- [s \in Services |-> getStakingState(s)],
         available <- availableRewards,
         earned    <- reward,
         leaving   <- PendingTotal,
         funds     <- balance

\* The contract implements the promised life of a service: it enters through a
\* free slot, earns only while staked, never returns from eviction but by
\* leaving, leaves before its minimum stay only when nothing was left to earn
\* before the call (line 818), and every unit it earned came out of
\* availableRewards and is paid out once.
ImplementsLifecycle == Lifecycle!Spec
=============================================================================
