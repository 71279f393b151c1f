--------------------------- MODULE DispenserEpochs ---------------------------
(***************************************************************************)
(* Which epochs a nominee is paid for: claims, retention and removal in       *)
(* tokenomics/contracts/Dispenser.sol.  The weights of an epoch's end are     *)
(* those of VoteWeighting; they can be read only up to the last point that    *)
(* somebody filled for the nominee, and are zero after it.  What happens to   *)
(* the OLAS on its way to L2 is in StakingBridge.                            *)
(***************************************************************************)
EXTENDS Inflation

CONSTANTS
    NumNominees,        \* nominees are 1..NumNominees
    Retainer,           \* one of them
    Scale,              \* 1e18, a weight of 100%
    VoteOutcomes,       \* records [weight, sum]: relative weights and the sum of all power, as
                        \*   VoteWeighting returns them: the weights may exceed 100% together
    BridgeUnit,         \* per nominee, what its bridge's decimals can carry
    Week,
    MaxNumClaimingEpochs

Nominees == 1..NumNominees

ASSUME DispenserAssumption ==
    /\ NumNominees \in Nat /\ Retainer \in Nominees /\ Scale \in Nat \ {0}
    /\ \A v \in VoteOutcomes : v.weight \in [Nominees -> Nat] /\ v.sum \in Nat
    /\ BridgeUnit \in [Nominees -> Nat \ {0}]
    /\ Week \in Nat /\ MaxNumClaimingEpochs \in Nat \ {0}

VARIABLES
    mapLastClaimed,     \* mapLastClaimedStakingEpochs, 0 before the nominee is added
    mapRemoved,         \* mapRemovedNomineeEpochs
    votes,              \* per settled epoch, the weights at its end
    filled,             \* per nominee, the last epoch whose end its points reach
    distributed,        \* OLAS sent to staking targets
    forfeited           \* what retain could not see

dispenserVars == <<mapLastClaimed, mapRemoved, votes, filled, distributed, forfeited>>

NoVotes == [weight |-> [n \in Nominees |-> 0], sum |-> 0]

DispenserInit ==
    /\ mapLastClaimed = [n \in Nominees |-> 0]
    /\ mapRemoved = [n \in Nominees |-> 0]
    /\ votes = [e \in Epochs |-> NoVotes]
    /\ filled = [n \in Nominees |-> 0]
    /\ distributed = 0 /\ forfeited = 0

\* The dispenser takes the weights as VoteWeighting returns them: above 100% together, as they
\* are after a removal, or positive for a removed nominee.  VoteWeighting tells it of a nominee
\* before anyone can vote for it.
CountVotes ==
    \E v \in VoteOutcomes :
        /\ \A n \in Nominees : v.weight[n] > 0 => mapLastClaimed[n] > 0
        /\ votes' = [votes EXCEPT ![epochCounter] = v]

\* VoteWeighting adds a nominee once and removes only those it added, but may remove one twice.
addNominee(n) ==
    /\ mapLastClaimed[n] = 0
    /\ mapLastClaimed' = [mapLastClaimed EXCEPT ![n] = epochCounter]
    /\ filled' = [filled EXCEPT ![n] = epochCounter - 1]
    /\ UNCHANGED <<totalSupply, inflationVars, mapRemoved, votes, distributed, forfeited>>

removeNominee(n) ==
    /\ mapLastClaimed[n] > 0 /\ n # Retainer
    /\ now < LastEnd + epochLen - Week
    /\ mapRemoved' = [mapRemoved EXCEPT ![n] = epochCounter]
    /\ UNCHANGED <<totalSupply, inflationVars, mapLastClaimed, votes, filled, distributed, forfeited>>

\* Anyone may fill the points of a nominee.
checkpointNominee(n) ==
    /\ mapLastClaimed[n] > 0 /\ filled[n] < epochCounter - 1
    /\ filled' = [filled EXCEPT ![n] = epochCounter - 1]
    /\ UNCHANGED <<totalSupply, inflationVars, mapLastClaimed, mapRemoved, votes,
                   distributed, forfeited>>

MinOf(S) == CHOOSE x \in S : \A y \in S : x <= y

\* _checkpointNomineeAndGetClaimedEpochCounters: the epochs to claim.  A removed nominee is
\* paid for the epoch of its removal too.
CanClaim(n) ==
    /\ mapLastClaimed[n] \in 1..(epochCounter - 1)
    /\ mapRemoved[n] > 0 => mapLastClaimed[n] <= mapRemoved[n]

LastClaimed_uncapped(n, num) ==
    MinOf({mapLastClaimed[n] + num}
            \cup (IF mapRemoved[n] > 0 THEN {mapRemoved[n] + 1} ELSE {}))

LastClaimed(n, num) ==
    MinOf({mapLastClaimed[n] + num, epochCounter}
            \cup (IF mapRemoved[n] > 0 THEN {mapRemoved[n] + 1} ELSE {}))

\* One epoch of calculateStakingIncentives: no more than the power that voted is handed out,
\* a weight below the minimum gets nothing, and what exceeds the maximum or the decimals of
\* the bridge is returned.
Available(e) == MinOf({stakingIncentive[e], votes[e].sum})

EpochIncentive(n, e) ==
    LET diff == stakingIncentive[e] - Available(e)
        weight == votes[e].weight[n]
        share == (Available(e) * weight) \div Scale
        capped == MinOf({share, stakingParams[e].maxIncentive})
        normalized == (capped \div BridgeUnit[n]) * BridgeUnit[n]
    IN  IF weight < stakingParams[e].minWeight
        THEN [paid |-> 0, returned |-> (stakingIncentive[e] * weight) \div Scale]
        ELSE [paid |-> normalized,
              returned |-> (diff * weight) \div Scale + (share - normalized)]

SumOverEpochs(f, first, last) ==
    Total([e \in Epochs |-> IF e \in first..(last - 1) THEN f[e] ELSE 0], MaxEpochs)

claimStakingIncentives(n, num) ==
    LET first == mapLastClaimed[n]
        last == LastClaimed(n, num)
        paid == SumOverEpochs([e \in Epochs |-> EpochIncentive(n, e).paid], first, last)
        returned == SumOverEpochs([e \in Epochs |-> EpochIncentive(n, e).returned], first, last)
    IN  /\ num <= MaxNumClaimingEpochs
        /\ CanClaim(n)
        /\ inflationControl(paid)     \* the balance after the mint is checked
        /\ mapLastClaimed' = [mapLastClaimed EXCEPT ![n] = last]
        /\ filled' = [filled EXCEPT ![n] = epochCounter - 1]
        /\ refundFromStaking(returned)
        /\ totalSupply' = totalSupply + paid
        /\ distributed' = distributed + paid
        /\ UNCHANGED <<paramVars, settleVars, effectiveBond, mapRemoved, votes, forfeited>>

\* retain does not fill the retainer's points first: an epoch beyond them counts for nothing,
\* and is marked as claimed like the others.
retain ==
    LET first == mapLastClaimed[Retainer]
        last == LastClaimed(Retainer, MaxNumClaimingEpochs)
        Share(e) == stakingIncentive[e] * votes[e].weight[Retainer]
        seen == SumOverEpochs([e \in Epochs |-> IF e <= filled[Retainer] THEN Share(e) ELSE 0], first, last)
        missed == SumOverEpochs([e \in Epochs |-> IF e > filled[Retainer] THEN Share(e) ELSE 0], first, last)
    IN  /\ CanClaim(Retainer)
        /\ mapLastClaimed' = [mapLastClaimed EXCEPT ![Retainer] = last]
        /\ refundFromStaking(seen \div Scale)
        /\ forfeited' = forfeited + missed \div Scale
        /\ UNCHANGED <<totalSupply, paramVars, settleVars, effectiveBond, mapRemoved, votes,
                       filled, distributed>>

(***************************************************************************)
(* Properties                                                              *)
(***************************************************************************)

Share(n, e) == (stakingIncentive[e] * votes[e].weight[n]) \div Scale
Unclaimed(n) ==
    IF mapLastClaimed[n] = 0 THEN 0
    ELSE SumOverEpochs([e \in Epochs |-> Share(n, e)], mapLastClaimed[n], epochCounter)
Unallocated(e) ==
    stakingIncentive[e] - TotalOver(LAMBDA n : Share(n, e), NumNominees)

\* The epochs that the nominee is done with and whose shares were rounded.
Uneven(n, e) ==
    \/ (Available(e) * votes[e].weight[n]) % Scale # 0
    \/ ((stakingIncentive[e] - Available(e)) * votes[e].weight[n]) % Scale # 0
Roundings(n) ==
    SumOverEpochs([e \in Epochs |-> IF Uneven(n, e) THEN 1 ELSE 0], 1, mapLastClaimed[n])

\* The weights of an epoch beyond 100%, and what they allocate beyond its staking incentive.
Excess(e) ==
    LET weight == Total(votes[e].weight, NumNominees)
    IN  IF weight > Scale THEN weight - Scale ELSE 0
Overallocated ==
    TotalOver(LAMBDA e : IF e \in Settled THEN stakingIncentive[e] * Excess(e) ELSE 0, MaxEpochs)
      \div Scale

\* The staking part of the inflation is either sent, refunded to the current epoch, still to
\* be claimed, or voted for no nominee: claims, retentions, removals and settlements in any
\* order neither count an epoch of a nominee twice nor lose what is returned, except for what
\* retain does not see (Dispenser.sol:381, :1154, Tokenomics.sol:833).  A claim loses at most
\* one wei for each epoch whose shares are rounded, and retain, which rounds the sum of its
\* epochs, returns at most one wei more for each.  Where the weights exceed 100%, what is voted
\* for no nominee is negative.  A removed nominee is done with the epoch of its removal at most.
StakingConserved ==
    LET settled == TotalOver(LAMBDA e : IF e \in Settled THEN StakingOf(e) ELSE 0, MaxEpochs)
        kept == distributed + forfeited + stakingIncentive[epochCounter]
                  + TotalOver(Unclaimed, NumNominees)
                  + TotalOver(LAMBDA e : IF e \in Settled THEN Unallocated(e) ELSE 0, MaxEpochs)
    IN  /\ settled <= kept + TotalOver(Roundings, NumNominees)
        /\ kept <= settled + Roundings(Retainer)
        /\ \A n \in Nominees : mapRemoved[n] > 0 => mapLastClaimed[n] <= mapRemoved[n] + 1

\* What was sent, refunded to the current epoch or not seen stays within the staking part of the
\* inflation of the settled epochs, however the shares are rounded, but for what weights above
\* 100% allocate, which the dispenser does not notice.
StakingCovered ==
    distributed + forfeited + stakingIncentive[epochCounter] <=
      TotalOver(LAMBDA e : IF e \in Settled THEN StakingOf(e) ELSE 0, MaxEpochs) + Overallocated
===============================================================================
