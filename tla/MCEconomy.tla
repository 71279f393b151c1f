------------------------------ MODULE MCEconomy ------------------------------
EXTENDS Economy

\* Years of falling and rising inflation; the amounts of this run divide evenly,
\* except the shares of one of the votes.
MCInflation == [y \in 0..(MaxTime \div Year + CapYears + 1) |-> IF y = 0 THEN 9600 ELSE IF y = 1 THEN 6400 ELSE 25600]

Split(c, a) == [component |-> c, agent |-> a]
Parts(bond, staking, topUps, rewards) ==
    [bond |-> bond, staking |-> staking, topUp |-> topUps, reward |-> rewards]
MCFirstFractions == Parts(50, 25, Split(20, 5), Split(50, 30))
MCNewFractions == {Parts(100, 0, Split(0, 0), Split(0, 100)),
                   Parts(0, 50, Split(0, 50), Split(60, 0))}
MCFirstStakingParams == [maxIncentive |-> 16000, minWeight |-> 0]
MCNewStakingParams == {[maxIncentive |-> 320, minWeight |-> 2]}

Outcome(w1, w2, s) == [weight |-> <<w1, w2>>, sum |-> s]
MCVoteOutcomes == {Outcome(0, 0, 0), Outcome(1, 2, 16000), Outcome(4, 0, 1024), Outcome(0, 3, 1023),
                   Outcome(5, 3, 16000)}
MCBridgeUnit == <<256, 1>>

\* Two services that share an agent; one of them has two components.
MCUnitTypeOf == <<"component", "component", "agent">>
MCUnitOwner == <<"a", "b", "a">>
MCUnitsOf == <<{1, 3}, {1, 2, 3}>>

Calls(owner, bond, unit, staking) ==
    [owner |-> owner, bond |-> bond, unit |-> unit, staking |-> staking]
MCBudgets == {Calls(1, 4, 0, 0), Calls(0, 0, 3, 0), Calls(1, 0, 2, 0), Calls(0, 0, 0, 4),
              Calls(1, 0, 0, 2), Calls(0, 1, 1, 1)}
===============================================================================
