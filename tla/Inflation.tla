------------------------------ MODULE Inflation ------------------------------
(***************************************************************************)
(* The epochs of tokenomics/contracts/Tokenomics.sol: the inflation of each *)
(* epoch, across the changes of the year, and its split into the bond        *)
(* programme, the owners' top-ups and the staking incentives.                *)
(*                                                                          *)
(* The bonds of an epoch can be sold during the epoch, before its inflation  *)
(* has accrued: effectiveBond is credited with maxBond, what the epoch will  *)
(* yield if it is settled in time, and corrected when it is settled.         *)
(***************************************************************************)
EXTENDS OlasSupply

CONSTANTS
    Launches,           \* when Tokenomics may be initialized
    MinEpochLen, MaxEpochLen,
    FirstEpochLen,
    EpochLens,          \* lengths that the owner asks for
    FirstFractions,     \* records [bond, staking, topUp, reward]: percentages, the
    NewFractions,       \*   last two per type of unit; and those the owner asks for
    FirstStakingParams, \* records [maxIncentive, minWeight]
    NewStakingParams,
    MaxEpochs           \* bound on epochCounter

ASSUME EpochAssumption ==
    /\ Launches \subseteq 0..(Year - 1) /\ Launches \subseteq 0..MaxTime  \* checked at line 464
    /\ MinEpochLen \in Nat \ {0} /\ MaxEpochLen \in Nat /\ MaxEpochLen < Year
    /\ FirstEpochLen \in MinEpochLen..MaxEpochLen
    /\ EpochLens \subseteq Nat
    /\ MaxEpochs \in Nat \ {0}

\* Checked by changeIncentiveFractions.
IsFractions(f) ==
    /\ f.bond \in Nat /\ f.staking \in Nat
    /\ \A t \in {"component", "agent"} : f.topUp[t] \in Nat /\ f.reward[t] \in Nat
    /\ f.reward["component"] + f.reward["agent"] <= 100
    /\ f.bond + f.topUp["component"] + f.topUp["agent"] + f.staking <= 100

ASSUME FractionAssumption == \A f \in {FirstFractions} \cup NewFractions : IsFractions(f)

\* Unsigned numbers.
ASSUME StakingParamsAssumption ==
    \A p \in {FirstStakingParams} \cup NewStakingParams : p.maxIncentive \in Nat /\ p.minWeight \in Nat

VARIABLES
    epochCounter,
    endTime,            \* of each settled epoch
    epochLen, nextEpochLen,
    currentYear,
    inflationPerSecond,
    fractions,          \* per epoch
    stakingParams,      \* per epoch
    updated,            \* tokenomicsParametersUpdated, the set of its bits
    totalTopUpsOLAS,    \* the inflation of each settled epoch
    maxBond, effectiveBond,
    stakingIncentive    \* per epoch: refunds so far, and when settled the epoch's own part

paramVars == <<epochLen, nextEpochLen, fractions, stakingParams, updated>>
settleVars == <<epochCounter, endTime, currentYear, inflationPerSecond, totalTopUpsOLAS, maxBond>>
inflationVars == <<paramVars, settleVars, effectiveBond, stakingIncentive>>

Epochs == 1..MaxEpochs
Settled == 1..(epochCounter - 1)
LastEnd == endTime[epochCounter - 1]

\* The inflation from a to b at perSecond, with the year y of a: when b is in a later year, the
\* seconds after that year's beginning bring its inflation.
InflationBetween(a, b, perSecond, y) ==
    IF YearOf(b) > y
    THEN (YearOf(b) * Year - a) * perSecond
           + (b - YearOf(b) * Year) * (InflationForYear[YearOf(b)] \div Year)
    ELSE (b - a) * perSecond

BondOf(amount, e) == (amount * fractions[e].bond) \div 100
StakingOf(e) == (totalTopUpsOLAS[e] * fractions[e].staking) \div 100

\* The first credit, which knows of no second year.
FirstCredit == BondOf((InflationForYear[0] \div (Year - endTime[0])) * FirstEpochLen, 1)

InflationInit ==
    /\ epochCounter = 1
    /\ endTime = [e \in 0..MaxEpochs |-> IF e = 0 THEN now ELSE 0]
    /\ epochLen = FirstEpochLen /\ nextEpochLen = 0
    /\ currentYear = 0
    /\ inflationPerSecond = InflationForYear[0] \div (Year - now)
    /\ fractions = [e \in 1..(MaxEpochs + 1) |-> FirstFractions]
    /\ stakingParams = [e \in 1..(MaxEpochs + 1) |-> FirstStakingParams]
    /\ updated = {}
    /\ totalTopUpsOLAS = [e \in Epochs |-> 0]
    /\ maxBond = FirstCredit
    /\ effectiveBond = maxBond
    /\ stakingIncentive = [e \in 1..(MaxEpochs + 1) |-> 0]

-----------------------------------------------------------------------------
(* The owner's calls: they take effect in the next epoch.                    *)

changeTokenomicsParameters(len) ==
    /\ nextEpochLen' = IF len \in MinEpochLen..MaxEpochLen THEN len ELSE nextEpochLen
    /\ updated' = updated \cup {"parameters"}
    /\ UNCHANGED <<epochLen, fractions, stakingParams, settleVars, effectiveBond, stakingIncentive>>

changeIncentiveFractions(f) ==
    /\ fractions' = [fractions EXCEPT ![epochCounter + 1] = f]
    /\ updated' = updated \cup {"fractions"}
    /\ UNCHANGED <<epochLen, nextEpochLen, stakingParams, settleVars, effectiveBond, stakingIncentive>>

changeStakingParams(p) ==
    /\ stakingParams' = [stakingParams EXCEPT ![epochCounter + 1] = p]
    /\ updated' = updated \cup {"staking"}
    /\ UNCHANGED <<epochLen, nextEpochLen, fractions, settleVars, effectiveBond, stakingIncentive>>

-----------------------------------------------------------------------------
(* checkpoint, without the rebalancing of ETH.                               *)

\* The difference between what the epoch yielded and what it was credited with in advance.
BondCorrection(yielded) == IF yielded > maxBond THEN yielded - maxBond ELSE 0

\* Between the lower and the upper limit of an epoch only.
SettleTime == now - LastEnd \in epochLen..MaxEpochLen

NextFractions ==
    IF "fractions" \in updated THEN fractions
    ELSE [fractions EXCEPT ![epochCounter + 1] = fractions[epochCounter]]

\* The new maximum is computed when the next epoch crosses the end of the year, when the year
\* has just changed, or when the owner changed something; otherwise it stays.
NextMaxBond(len, perSecond, year, changed, bondFraction) ==
    IF YearOf(now + len) > year \/ changed
    THEN (InflationBetween(now, now + len, perSecond, year) * bondFraction) \div 100
    ELSE maxBond

SettleEpoch ==
    LET year == YearOf(now)
        inflation == InflationBetween(LastEnd, now, inflationPerSecond, currentYear)
        changed == updated # {} \/ year > currentYear
    IN  /\ SettleTime
        /\ totalTopUpsOLAS' = [totalTopUpsOLAS EXCEPT ![epochCounter] = inflation]
        /\ currentYear' = IF year > currentYear THEN year ELSE currentYear
        /\ inflationPerSecond' = IF year > currentYear THEN InflationForYear[year] \div Year
                                 ELSE inflationPerSecond
        /\ endTime' = [endTime EXCEPT ![epochCounter] = now]
        /\ IF "parameters" \in updated /\ nextEpochLen > 0
           THEN epochLen' = nextEpochLen /\ nextEpochLen' = 0
           ELSE UNCHANGED <<epochLen, nextEpochLen>>
        /\ fractions' = NextFractions
        /\ stakingParams' = IF "staking" \in updated THEN stakingParams
                            ELSE [stakingParams EXCEPT ![epochCounter + 1] =
                                      stakingParams[epochCounter]]
        /\ updated' = {}
        /\ stakingIncentive' = [stakingIncentive EXCEPT ![epochCounter] =
                                    @ + (inflation * fractions[epochCounter].staking) \div 100]
        /\ maxBond' = NextMaxBond(epochLen', inflationPerSecond', currentYear', changed,
                                  fractions'[epochCounter + 1].bond)
        /\ effectiveBond' = effectiveBond
                              + BondCorrection(BondOf(inflation, epochCounter)) + maxBond'
        /\ epochCounter' = epochCounter + 1

-----------------------------------------------------------------------------
(* What other contracts call.                                                *)

refundFromStaking(amount) ==
    stakingIncentive' = [stakingIncentive EXCEPT ![epochCounter] = @ + amount]

(***************************************************************************)
(* Properties                                                              *)
(***************************************************************************)

\* The first epoch was to end in the first year.
FirstInYear == endTime[0] + FirstEpochLen <= Year

\* What the first epoch was credited with for bonds beyond its yield: inflation may fall, or
\* rise, with the second year.
Overcredit ==
    LET yield == BondOf(totalTopUpsOLAS[1], 1)
    IN  IF epochCounter > 1 /\ FirstCredit > yield THEN FirstCredit - yield ELSE 0

\* The inflation handed out by the settled epochs follows the schedule: it never exceeds that
\* of the years that have begun, wherever the ends of the epochs fall (lines 1129-1150).
ScheduleKept ==
    /\ Total(totalTopUpsOLAS, MaxEpochs) <= InflationUntilYear(currentYear + 1)
    /\ currentYear = YearOf(LastEnd)
===============================================================================
