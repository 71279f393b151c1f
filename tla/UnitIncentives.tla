--------------------------- MODULE UnitIncentives ----------------------------
(***************************************************************************)
(* Donations to services and what the owners of their components and agents  *)
(* get for them: rewards in ETH out of the donations, top-ups in OLAS out of  *)
(* the inflation (trackServiceDonations and accountOwnerIncentives of         *)
(* Tokenomics.sol, the treasury's accounts of ETH).  What a unit earned in an *)
(* epoch stays pending until its next donation or claim in a later epoch.     *)
(***************************************************************************)
EXTENDS Inflation, FiniteSets

CONSTANTS
    NumUnits,           \* units are 1..NumUnits
    UnitTypeOf,         \* "component" or "agent"
    UnitOwner,
    UnitsOf,            \* per service, the set of its units
    Donations           \* amounts of ETH

UnitTypes == {"component", "agent"}
Units == 1..NumUnits
Services == DOMAIN UnitsOf

ASSUME UnitAssumption ==
    /\ NumUnits \in Nat
    /\ UnitTypeOf \in [Units -> UnitTypes]
    /\ \A s \in Services : UnitsOf[s] \subseteq Units
    /\ Donations \subseteq Nat \ {0}

VARIABLES
    \* mapUnitIncentives, one variable per field
    pendingReward, pendingTopUp, reward, topUp, lastEpoch,
    totalDonations,     \* per epoch
    sumUnitTopUps,      \* per epoch and type of unit
    lastDonation,       \* time of the last donation
    ETHFromServices, ETHOwned,
    toppedUp            \* OLAS minted for top-ups

unitVars == <<pendingReward, pendingTopUp, reward, topUp, lastEpoch>>
ethVars == <<ETHFromServices, ETHOwned>>
incentiveVars == <<unitVars, totalDonations, sumUnitTopUps, lastDonation, ethVars, toppedUp>>

NoUnits == [u \in Units |-> 0]

IncentivesInit ==
    /\ pendingReward = NoUnits /\ pendingTopUp = NoUnits
    /\ reward = NoUnits /\ topUp = NoUnits /\ lastEpoch = NoUnits
    /\ totalDonations = [e \in Epochs |-> 0]
    /\ sumUnitTopUps = [e \in Epochs |-> [t \in UnitTypes |-> 0]]
    /\ lastDonation = -1
    /\ ETHFromServices = 0 /\ ETHOwned = 0 /\ toppedUp = 0

\* Pending in an epoch that is settled.
Stale(u) == lastEpoch[u] \in 1..(epochCounter - 1)

RewardOf_currentFractions(u) ==
    (pendingReward[u] * fractions[epochCounter].reward[UnitTypeOf[u]]) \div 100

\* _finalizeIncentivesForUnitId: with the fractions and the inflation of the epoch they belong to.
RewardOf(u) == (pendingReward[u] * fractions[lastEpoch[u]].reward[UnitTypeOf[u]]) \div 100

TopUpOf_currentSum(u) ==
    IF pendingTopUp[u] = 0 THEN 0
    ELSE (pendingTopUp[u] * totalTopUpsOLAS[lastEpoch[u]] * fractions[lastEpoch[u]].topUp[UnitTypeOf[u]])
            \div (100 * pendingTopUp[u])

TopUpOf(u) ==
    IF pendingTopUp[u] = 0 THEN 0
    ELSE (pendingTopUp[u] * totalTopUpsOLAS[lastEpoch[u]] * fractions[lastEpoch[u]].topUp[UnitTypeOf[u]])
            \div (100 * sumUnitTopUps[lastEpoch[u]][UnitTypeOf[u]])

FinalReward(u) == IF Stale(u) THEN reward[u] + RewardOf(u) ELSE reward[u]
FinalTopUp(u) == IF Stale(u) THEN topUp[u] + TopUpOf(u) ELSE topUp[u]

\* depositServiceDonationsETH: the amount counts once for the components and once for the
\* agents of the service, in equal parts; whether it counts for top-ups depends on the votes
\* of the owner and the donator.
donate(s, amount, eligible) ==
    LET f == fractions[epochCounter]
        Peers(u) == {v \in UnitsOf[s] : UnitTypeOf[v] = UnitTypeOf[u]}
        Part(u) == amount \div Cardinality(Peers(u))
        Rewarded(u) == f.reward[UnitTypeOf[u]] > 0
        ToppedUp(u) == f.topUp[UnitTypeOf[u]] > 0
        touched == {u \in UnitsOf[s] : Rewarded(u) \/ ToppedUp(u)}
        Kept(pending, u) == IF Stale(u) THEN 0 ELSE pending[u]
        topUps(t) == TotalOver(LAMBDA u : IF u \in touched /\ UnitTypeOf[u] = t /\ ToppedUp(u)
                                          THEN Part(u) ELSE 0, NumUnits)
    IN  /\ \A t \in UnitTypes : \E u \in UnitsOf[s] : UnitTypeOf[u] = t
        /\ ETHFromServices' = ETHFromServices + amount
        /\ totalDonations' = [totalDonations EXCEPT ![epochCounter] = @ + amount]
        /\ reward' = [u \in Units |-> IF u \in touched THEN FinalReward(u) ELSE reward[u]]
        /\ topUp' = [u \in Units |-> IF u \in touched THEN FinalTopUp(u) ELSE topUp[u]]
        /\ pendingReward' =
             [u \in Units |-> IF u \notin touched THEN pendingReward[u]
                              ELSE Kept(pendingReward, u) + (IF Rewarded(u) THEN Part(u) ELSE 0)]
        /\ pendingTopUp' =
             [u \in Units |-> IF u \notin touched THEN pendingTopUp[u]
                              ELSE Kept(pendingTopUp, u)
                                     + (IF eligible /\ ToppedUp(u) THEN Part(u) ELSE 0)]
        /\ sumUnitTopUps' =
             IF eligible
             THEN [sumUnitTopUps EXCEPT ![epochCounter] =
                       [t \in UnitTypes |-> @[t] + topUps(t)]]
             ELSE sumUnitTopUps
        /\ lastEpoch' = [u \in Units |-> IF u \in touched THEN epochCounter ELSE lastEpoch[u]]
        /\ lastDonation' = now
        /\ UNCHANGED <<totalSupply, inflationVars, ETHOwned, toppedUp>>

\* claimOwnerIncentives for units of one owner: a reward that the treasury cannot pay is left
\* out without an error when there is a top-up, and the call reverts when there is none.
claimOwnerIncentives(S) ==
    LET rewards == TotalOver(LAMBDA u : IF u \in S THEN FinalReward(u) ELSE 0, NumUnits)
        topUps == TotalOver(LAMBDA u : IF u \in S THEN FinalTopUp(u) ELSE 0, NumUnits)
        paid == IF rewards <= ETHFromServices THEN rewards ELSE 0
    IN  /\ \A u, v \in S : UnitOwner[u] = UnitOwner[v]
        /\ paid + topUps > 0
        /\ inflationControl(topUps)
        /\ reward' = [u \in Units |-> IF u \in S THEN 0 ELSE reward[u]]
        /\ topUp' = [u \in Units |-> IF u \in S THEN 0 ELSE topUp[u]]
        /\ pendingReward' = [u \in Units |-> IF u \in S /\ Stale(u) THEN 0 ELSE pendingReward[u]]
        /\ pendingTopUp' = [u \in Units |-> IF u \in S /\ Stale(u) THEN 0 ELSE pendingTopUp[u]]
        /\ lastEpoch' = [u \in Units |-> IF u \in S /\ Stale(u) THEN 0 ELSE lastEpoch[u]]
        /\ ETHFromServices' = ETHFromServices - paid
        /\ totalSupply' = totalSupply + topUps
        /\ toppedUp' = toppedUp + topUps
        /\ UNCHANGED <<inflationVars, totalDonations, sumUnitTopUps, lastDonation, ETHOwned>>

\* The treasury's part of the donations of epoch e.
TreasuryReward(e) ==
    (totalDonations[e] * (100 - fractions[e].reward["component"] - fractions[e].reward["agent"])) \div 100

\* The part of checkpoint that reverts when the treasury cannot take its share.
rebalanceTreasury ==
    /\ lastDonation # now
    /\ TreasuryReward(epochCounter) <= ETHFromServices
    /\ ETHFromServices' = ETHFromServices - TreasuryReward(epochCounter)
    /\ ETHOwned' = ETHOwned + TreasuryReward(epochCounter)
    /\ UNCHANGED <<unitVars, totalDonations, sumUnitTopUps, lastDonation, toppedUp>>

(***************************************************************************)
(* Properties                                                              *)
(***************************************************************************)

\* The ETH from donations covers every reward, pending or final, and the treasury's share of
\* the epoch that is not settled: no claim drops a reward for lack of ETH, and no checkpoint
\* reverts (Treasury.sol:402, :446).
RewardsCovered ==
    TotalOver(LAMBDA u : reward[u] + (IF lastEpoch[u] > 0 THEN RewardOf(u) ELSE 0), NumUnits)
      + TreasuryReward(epochCounter) <= ETHFromServices

\* Top-ups, minted, final or pending since a settled epoch, stay within the part of the
\* inflation of those epochs that is for them, however late they are finalized (Tokenomics.sol:936).
TopUpsCovered ==
    toppedUp + TotalOver(FinalTopUp, NumUnits) <=
      TotalOver(LAMBDA e : IF e \in Settled
                           THEN (totalTopUpsOLAS[e] * (fractions[e].topUp["component"]
                                                        + fractions[e].topUp["agent"])) \div 100
                           ELSE 0, MaxEpochs)
===============================================================================
