---------------------------- MODULE EconomyProofs ----------------------------
(***************************************************************************)
(* What the epochs of Economy credit and hand out is covered, for all        *)
(* constants.  Six inductive invariants:                                     *)
(*   - BondInv: what an epoch is credited with in advance never exceeds what *)
(*     it yields, because the inflation between two times grows with the     *)
(*     later one, across the end of a year too; so a settlement replaces the *)
(*     credit by the yield, and every other step moves OLAS between the      *)
(*     terms of BondBudget.  A first epoch that was to end in the second     *)
(*     year is the exception: what it was credited with beyond its yield is  *)
(*     Overcredit.  The others rest on it;                                   *)
(*   - UnitInv: rewards and top-ups of the owners, before they are rounded    *)
(*     down, stay within the donations and the inflation of their epochs;     *)
(*   - ScheduleInv: the inflation of the settled epochs stays within the      *)
(*     schedule, of the current year as far as it has passed;                 *)
(*   - StakingInv: what is sent, refunded, missed or still due to a nominee,  *)
(*     weighted and not yet divided, stays within the staking part and what   *)
(*     the weights allocate beyond 100%;                                      *)
(*   - ConservedInv: what is handed out, kept or still claimable, and the     *)
(*     staking part, differ by no more than the roundings of the shares;      *)
(*   - SupplyInv: the supply is what the three programmes have minted, so     *)
(*     that the first ones leave room for the bonds under the cap, while no   *)
(*     weights exceed 100% and nothing was overcredited.                      *)
(* Each has a lemma for the initial states, one per action and one for Next.  *)
(***************************************************************************)
EXTENDS Economy, TotalsTheorems, FiniteSetTheorems

-----------------------------------------------------------------------------
(* Arithmetic                                                                *)

\* A larger factor makes a larger product.
LEMMA ProductMono ==
  ASSUME NEW x \in Nat, NEW y \in Nat, NEW z \in Nat, x <= y
  PROVE  x * z \in Nat /\ y * z \in Nat /\ x * z <= y * z
OBVIOUS

\* A larger amount has a larger percentage.
LEMMA PercentMono ==
  ASSUME NEW x \in Nat, NEW y \in Nat, x <= y
  PROVE  x \div 100 \in Nat /\ y \div 100 \in Nat /\ x \div 100 <= y \div 100
OBVIOUS

\* Division by a positive number stays within the naturals.
LEMMA QuotientType ==
  ASSUME NEW x \in Nat, NEW k \in Nat \ {0}
  PROVE  x \div k \in Nat
OBVIOUS

\* The years of the schedule have an inflation.
LEMMA YearInflation ==
  ASSUME NEW y \in Nat, y <= MaxTime \div Year + 1
  PROVE  InflationForYear[y] \in Nat
<1>1. MaxTime \div Year \in Nat
  BY ScheduleAssumption, QuotientType
<1>2. y \in 0..(MaxTime \div Year + CapYears + 1)
  BY <1>1, ScheduleAssumption
<1> QED BY <1>2, ScheduleAssumption

\* The year of a time: the one whose beginning is the last before it.
LEMMA YearFacts ==
  ASSUME NEW t \in Nat
  PROVE  /\ YearOf(t) \in Nat /\ YearOf(t) * Year <= t /\ t < YearOf(t) * Year + Year
BY ScheduleAssumption DEF YearOf

\* A time belongs to one year only.
LEMMA YearUnique ==
  ASSUME NEW t \in Nat, NEW y \in Nat, y * Year <= t, t < y * Year + Year
  PROVE  YearOf(t) = y
BY ScheduleAssumption DEF YearOf

\* Years pass in order.
LEMMA YearMono ==
  ASSUME NEW s \in Nat, NEW t \in Nat, s <= t
  PROVE  YearOf(s) <= YearOf(t)
BY ScheduleAssumption, YearFacts DEF YearOf

\* Inflation up to a later time, within a year of the first, is no less.
LEMMA InflationGrows ==
  ASSUME NEW a \in Nat, NEW b \in Nat, NEW c \in Nat, NEW p \in Nat,
         a <= b, b <= c, c - a < Year, c <= MaxTime + Year
  PROVE  /\ InflationBetween(a, b, p, YearOf(a)) \in Nat
         /\ InflationBetween(a, c, p, YearOf(a)) \in Nat
         /\ InflationBetween(a, b, p, YearOf(a)) <= InflationBetween(a, c, p, YearOf(a))
<1> DEFINE y == YearOf(a)
           E == (y + 1) * Year
           r == InflationForYear[y + 1] \div Year
<1>1. /\ Year \in Nat \ {0} /\ MaxTime \in Nat /\ CapYears \in Nat \ {0}
  BY ScheduleAssumption
<1>2. /\ y \in Nat /\ y * Year <= a /\ a < y * Year + Year
      /\ E \in Nat /\ E = y * Year + Year
  BY <1>1, YearFacts
<1>3. \A t \in {b, c} : /\ t < E => YearOf(t) = y
                        /\ E <= t => YearOf(t) = y + 1
  <2> SUFFICES ASSUME NEW t \in {b, c}
               PROVE  /\ t < E => YearOf(t) = y
                      /\ E <= t => YearOf(t) = y + 1
    OBVIOUS
  <2>1. t \in Nat /\ a <= t /\ t < a + Year
    BY <1>1
  <2>2. t < E => YearOf(t) = y
    BY <1>1, <1>2, <2>1, YearUnique
  <2>3. E <= t => YearOf(t) = y + 1
    <3>1. E + Year = (y + 1) * Year + Year /\ t < E + Year
      BY <1>1, <1>2, <2>1
    <3> QED BY <1>1, <1>2, <2>1, <3>1, YearUnique
  <2> QED BY <2>2, <2>3
<1>4. c >= E => r \in Nat
  <2> SUFFICES ASSUME c >= E
               PROVE  r \in Nat
    OBVIOUS
  <2>1. YearOf(c) = y + 1 /\ YearOf(c) <= MaxTime \div Year + 1
    <3>1. YearOf(c) <= YearOf(MaxTime + Year)
      BY <1>1, YearMono
    <3>2. YearOf(MaxTime + Year) = MaxTime \div Year + 1
      <4>1. YearOf(MaxTime) \in Nat /\ YearOf(MaxTime) * Year <= MaxTime
            /\ MaxTime < YearOf(MaxTime) * Year + Year
        BY <1>1, YearFacts
      <4>2. (YearOf(MaxTime) + 1) * Year = YearOf(MaxTime) * Year + Year
        BY <1>1, <4>1
      <4>3. YearOf(MaxTime + Year) = YearOf(MaxTime) + 1
        BY <1>1, <4>1, <4>2, YearUnique
      <4> QED BY <4>3 DEF YearOf
    <3> QED BY <1>3, <3>1, <3>2
  <2>2. InflationForYear[y + 1] \in Nat
    BY <1>2, <2>1, YearInflation
  <2> QED BY <1>1, <2>2, QuotientType
<1>5. \A t \in {b, c} : InflationBetween(a, t, p, y) =
        IF t < E THEN (t - a) * p ELSE (E - a) * p + (t - E) * r
  BY <1>1, <1>2, <1>3 DEF InflationBetween
<1>6. CASE c < E
  <2>1. (b - a) * p \in Nat /\ (c - a) * p \in Nat /\ (b - a) * p <= (c - a) * p
    BY ProductMono
  <2> QED BY <1>2, <1>5, <1>6, <2>1
<1>7. CASE E <= c /\ b < E
  <2>1. (b - a) * p \in Nat /\ (E - a) * p \in Nat /\ (b - a) * p <= (E - a) * p
    BY <1>2, <1>7, ProductMono
  <2>2. (c - E) * r \in Nat
    BY <1>2, <1>4, <1>7
  <2> QED BY <1>2, <1>5, <1>7, <2>1, <2>2
<1>8. CASE E <= b
  <2>1. (E - a) * p \in Nat
    BY <1>1, <1>2, <1>8
  <2>2. (b - E) * r \in Nat /\ (c - E) * r \in Nat /\ (b - E) * r <= (c - E) * r
    <3>1. r \in Nat /\ b - E \in Nat /\ c - E \in Nat /\ b - E <= c - E
      BY <1>2, <1>4, <1>8
    <3> QED BY <3>1, ProductMono
  <2> QED BY <1>2, <1>5, <1>8, <2>1, <2>2
<1> QED BY <1>2, <1>6, <1>7, <1>8

\* Across the end of a year, inflation has a part before it and a part after it.
LEMMA InflationAcross ==
  ASSUME NEW a, NEW b, NEW p, NEW y \in Nat, NEW z \in Nat, YearOf(b) = z, z > y
  PROVE  InflationBetween(a, b, p, y) =
           (z * Year - a) * p + (b - z * Year) * (InflationForYear[z] \div Year)
BY DEF InflationBetween

\* Within a year, inflation is proportional to time.
LEMMA InflationWithinYear ==
  ASSUME NEW a \in Nat, NEW len \in Nat, NEW p \in Nat, YearOf(a + len) <= YearOf(a)
  PROVE  InflationBetween(a, a + len, p, YearOf(a)) = len * p
BY YearFacts DEF InflationBetween

-----------------------------------------------------------------------------
(* The bonds: the invariant                                                  *)

BondTypes ==
    /\ now \in 0..MaxTime /\ epochCounter \in 1..MaxEpochs
    /\ endTime \in [0..MaxEpochs -> Nat]
    /\ epochLen \in MinEpochLen..MaxEpochLen /\ nextEpochLen \in {0} \cup MinEpochLen..MaxEpochLen
    /\ currentYear \in Nat /\ inflationPerSecond \in Nat
    /\ fractions \in [1..(MaxEpochs + 1) -> {FirstFractions} \cup NewFractions]
    /\ totalTopUpsOLAS \in [Epochs -> Nat]
    /\ maxBond \in Nat /\ effectiveBond \in Nat
    /\ supply \in [Products -> Nat] /\ productCounter \in 0..MaxProducts
    /\ payout \in [Bonds -> Nat] /\ bondCounter \in 0..MaxBonds
    /\ redeemed \in Nat

\* The current epoch begins in the current year; the first one when and as long as Tokenomics
\* was initialized.
EpochPlace ==
    /\ LastEnd <= now /\ currentYear = YearOf(LastEnd)
    /\ endTime[0] \in Launches
    /\ epochCounter = 1 => epochLen = FirstEpochLen

\* The credit in advance is what the epoch yields for bonds when settled as soon as possible,
\* unless it is the first epoch and was to end in the second year: that is credited with the
\* inflation of the first year throughout.
MaxBondIsYield ==
    /\ epochCounter = 1 => maxBond = FirstCredit
    /\ epochCounter > 1 \/ FirstInYear =>
         maxBond = BondOf(InflationBetween(LastEnd, LastEnd + epochLen, inflationPerSecond, currentYear),
                          epochCounter)

\* Nothing is on sale or owed beyond the counters.
Unused ==
    /\ \A q \in Products : q > productCounter => supply[q] = 0
    /\ \A b \in Bonds : b > bondCounter => payout[b] = 0

BondInv == BondTypes /\ EpochPlace /\ MaxBondIsYield /\ Unused /\ BondBudget

\* What the settled epochs yielded for bonds.
Yields == [e \in Epochs |-> IF e < epochCounter THEN BondOf(totalTopUpsOLAS[e], e) ELSE 0]

LEMMA BondShare ==
  ASSUME NEW amount \in Nat, NEW f \in {FirstFractions} \cup NewFractions
  PROVE  f.bond \in Nat /\ (amount * f.bond) \div 100 \in Nat
<1>1. f.bond \in Nat
  BY FractionAssumption DEF IsFractions
<1>2. amount * f.bond \in Nat
  BY <1>1
<1> QED BY <1>1, <1>2, PercentMono

\* The first credit depends on the launch and the first fractions only.
LEMMA FirstSame ==
  ASSUME endTime'[0] = endTime[0], fractions'[1] = fractions[1]
  PROVE  FirstCredit' = FirstCredit /\ FirstInYear' = FirstInYear
BY DEF FirstCredit, FirstInYear, BondOf

LEMMA OvercreditType == BondTypes /\ EpochPlace => Overcredit \in Nat
<1> SUFFICES ASSUME BondTypes, EpochPlace
             PROVE  Overcredit \in Nat
  OBVIOUS
<1>1. fractions[1] \in {FirstFractions} \cup NewFractions /\ totalTopUpsOLAS[1] \in Nat
  BY EpochAssumption DEF BondTypes, Epochs
<1>2. BondOf(totalTopUpsOLAS[1], 1) \in Nat
  BY <1>1, BondShare DEF BondOf
<1>3. FirstCredit \in Nat
  <2>1. InflationForYear[0] \in Nat
    <3>1. MaxTime \div Year \in Nat
      BY ScheduleAssumption, QuotientType
    <3> QED BY <3>1, YearInflation
  <2>2. Year - endTime[0] \in Nat \ {0}
    <3>1. endTime[0] \in 0..(Year - 1) /\ Year \in Nat \ {0}
      BY ScheduleAssumption, EpochAssumption DEF EpochPlace
    <3> QED BY <3>1
  <2>3. (InflationForYear[0] \div (Year - endTime[0])) * FirstEpochLen \in Nat
    <3>1. InflationForYear[0] \div (Year - endTime[0]) \in Nat /\ FirstEpochLen \in Nat
      BY <2>1, <2>2, EpochAssumption, QuotientType
    <3> QED BY <3>1
  <2> QED BY <1>1, <2>3, BondShare DEF FirstCredit, BondOf
<1> QED BY <1>2, <1>3 DEF Overcredit

LEMMA OvercreditTypeNext == (BondTypes /\ EpochPlace)' => (Overcredit \in Nat)'
BY OvercreditType, PTL

LEMMA BondInitially == Init => BondInv
<1> SUFFICES ASSUME Init
             PROVE  BondInv
  OBVIOUS
<1> USE DEF Init, InflationInit, BondingInit
<1>1. /\ now \in 0..(Year - 1) /\ now \in 0..MaxTime /\ now \in Launches /\ MaxTime \in Nat
      /\ Year \in Nat \ {0} /\ MaxEpochs \in Nat \ {0}
      /\ MinEpochLen \in Nat \ {0} /\ MaxEpochLen \in Nat
      /\ FirstEpochLen \in MinEpochLen..MaxEpochLen
  BY ScheduleAssumption, EpochAssumption
<1>2. YearOf(now) = 0
  BY <1>1, YearUnique
<1>3. LastEnd = now /\ endTime[0] = now
  BY <1>1 DEF LastEnd
<1>4. inflationPerSecond \in Nat
  <2>1. InflationForYear[0] \in Nat
    <3>1. MaxTime \div Year \in Nat
      BY <1>1, QuotientType
    <3> QED BY <3>1, YearInflation
  <2>2. Year - now \in Nat \ {0}
    BY <1>1
  <2> QED BY <2>1, <2>2, QuotientType
<1>5. inflationPerSecond * FirstEpochLen \in Nat
  BY <1>1, <1>4
<1>6. maxBond \in Nat /\ maxBond = BondOf(inflationPerSecond * FirstEpochLen, 1)
  <2>1. fractions[1] \in {FirstFractions} \cup NewFractions
    BY <1>1
  <2>2. FirstCredit = BondOf(inflationPerSecond * FirstEpochLen, 1)
    BY <1>3 DEF FirstCredit
  <2>3. maxBond = (inflationPerSecond * FirstEpochLen * fractions[1].bond) \div 100
    BY <2>2 DEF BondOf
  <2> QED BY <1>5, <2>1, <2>2, <2>3, BondShare
<1>7. BondTypes
  BY <1>1, <1>4, <1>6, BondingAssumption DEF BondTypes, Epochs, Products, Bonds
<1>8. EpochPlace
  BY <1>1, <1>2, <1>3 DEF EpochPlace
<1>9. MaxBondIsYield
  <2>1. ASSUME FirstInYear
        PROVE  InflationBetween(now, now + FirstEpochLen, inflationPerSecond, 0)
                 = inflationPerSecond * FirstEpochLen
    <3>1. CASE now + FirstEpochLen < Year
      <4>1. YearOf(now + FirstEpochLen) = 0
        BY <1>1, <3>1, YearUnique
      <4> QED BY <1>1, <1>4, <4>1 DEF InflationBetween
    <3>2. CASE now + FirstEpochLen = Year
      <4>1. YearOf(now + FirstEpochLen) = 1
        BY <1>1, <3>2, YearUnique
      <4>2. 1 * Year = Year /\ now + FirstEpochLen - 1 * Year = 0
        BY <1>1, <3>2
      <4>3. InflationForYear[1] \div Year \in Nat
        <5>1. MaxTime \div Year \in Nat
          BY <1>1, QuotientType
        <5>2. InflationForYear[1] \in Nat
          BY <5>1, YearInflation
        <5> QED BY <1>1, <5>2, QuotientType
      <4>4. 0 * (InflationForYear[1] \div Year) = 0
        BY <4>3
      <4>5. (Year - now) * inflationPerSecond = inflationPerSecond * FirstEpochLen
        <5>1. Year - now = FirstEpochLen /\ FirstEpochLen \in Nat
          BY <1>1, <3>2
        <5> HIDE DEF Init, InflationInit, BondingInit
        <5>2. \A x \in Nat : x * FirstEpochLen = FirstEpochLen * x
          BY ONLY <5>1
        <5> QED BY <1>4, <5>1, <5>2
      <4>6. (Year - now) * inflationPerSecond \in Nat
        BY <1>1, <1>4
      <4>7. InflationBetween(now, now + FirstEpochLen, inflationPerSecond, 0)
              = (1 * Year - now) * inflationPerSecond
                  + (now + FirstEpochLen - 1 * Year) * (InflationForYear[1] \div Year)
        BY <4>1, <1>1, <3>2, InflationAcross
      <4> QED BY <4>2, <4>4, <4>5, <4>6, <4>7
    <3>3. now + FirstEpochLen <= Year
      BY <1>3, <2>1 DEF FirstInYear
    <3> QED BY <1>1, <3>1, <3>2, <3>3
  <2> QED BY <1>3, <1>6, <2>1 DEF MaxBondIsYield
<1>10. Unused
  BY DEF Unused
<1>11. BondBudget
  <2>1. Yields \in [Epochs -> Int] /\ \A e \in Epochs : Yields[e] = 0
    BY DEF Yields, Epochs
  <2>2. Total(Yields, MaxEpochs) = 0
    BY <1>1, <2>1, TotalZero DEF Epochs
  <2>3. OnSale = 0
    <3>1. supply \in [1..MaxProducts -> Int] /\ \A i \in 1..MaxProducts : supply[i] = 0
      BY DEF Products
    <3> QED BY <3>1, BondingAssumption, TotalZero DEF OnSale
  <2>4. Outstanding = 0
    <3>1. payout \in [1..MaxBonds -> Int] /\ \A i \in 1..MaxBonds : payout[i] = 0
      BY DEF Bonds
    <3> QED BY <3>1, BondingAssumption, TotalZero DEF Outstanding
  <2>5. Overcredit = 0
    BY DEF Overcredit
  <2> QED BY <1>6, <2>2, <2>3, <2>4, <2>5 DEF BondBudget, Yields
<1> QED BY <1>7, <1>8, <1>9, <1>10, <1>11 DEF BondInv

\* The constants of the epochs.
LEMMA EpochConstants ==
  /\ Year \in Nat \ {0} /\ MaxTime \in Nat
  /\ MinEpochLen \in Nat \ {0} /\ MaxEpochLen \in Nat /\ MaxEpochLen < Year
  /\ MaxEpochs \in Nat \ {0} /\ MaxProducts \in Nat /\ MaxBonds \in Nat
BY ScheduleAssumption, EpochAssumption, BondingAssumption

\* A settlement keeps the invariant: the yield of the epoch takes the place of its credit, and
\* the credit of the next one is what that will yield.
LEMMA SettleStep ==
  ASSUME BondInv, epochCounter < MaxEpochs, SettleEpoch, UNCHANGED <<now, bondingVars>>
  PROVE  BondInv'
<1> DEFINE inflation == InflationBetween(LastEnd, now, inflationPerSecond, currentYear)
           next == epochCounter + 1
           credit == InflationBetween(now, now + epochLen', inflationPerSecond', currentYear')
           changed == updated # {} \/ YearOf(now) > currentYear
<1> USE EpochConstants
<1>1. BondTypes /\ EpochPlace /\ MaxBondIsYield /\ Unused /\ BondBudget
  BY DEF BondInv
<1>2. /\ now \in Nat /\ now <= MaxTime /\ LastEnd \in Nat /\ LastEnd <= now
      /\ currentYear = YearOf(LastEnd)
      /\ epochCounter \in Nat /\ epochCounter >= 1 /\ epochCounter + 1 \in 1..MaxEpochs
  BY <1>1 DEF BondTypes, EpochPlace, LastEnd
<1>3. /\ epochLen \in Nat /\ epochLen <= MaxEpochLen /\ LastEnd + epochLen <= now
      /\ now - LastEnd < Year
  <2>1. epochLen \in MinEpochLen..MaxEpochLen
    BY <1>1 DEF BondTypes
  <2>2. now - LastEnd \in epochLen..MaxEpochLen
    BY DEF SettleEpoch, SettleTime
  <2> QED BY <1>2, <2>1, <2>2
<1>4. endTime' = [endTime EXCEPT ![epochCounter] = now] /\ epochCounter' = next
  BY DEF SettleEpoch
<1>5. LastEnd' = now /\ now' = now
  BY <1>1, <1>2, <1>4 DEF BondTypes, LastEnd
<1>6. YearOf(now) \in Nat /\ currentYear \in Nat /\ YearOf(now) >= currentYear
      /\ currentYear' = YearOf(now)
  <2>1. YearOf(now) \in Nat /\ YearOf(LastEnd) \in Nat /\ YearOf(LastEnd) <= YearOf(now)
    BY <1>2, YearFacts, YearMono
  <2>2. currentYear' = IF YearOf(now) > currentYear THEN YearOf(now) ELSE currentYear
    BY DEF SettleEpoch
  <2> QED BY <1>2, <2>1, <2>2
<1>7. inflationPerSecond \in Nat /\ inflationPerSecond' \in Nat
      /\ (~changed => inflationPerSecond' = inflationPerSecond)
  <2>1. YearOf(now) <= MaxTime \div Year + 1
    <3>1. YearOf(now) <= YearOf(MaxTime)
      BY <1>2, YearMono
    <3>2. YearOf(MaxTime) \in Nat
      BY YearFacts
    <3> QED BY <1>6, <3>1, <3>2 DEF YearOf
  <2>2. InflationForYear[YearOf(now)] \div Year \in Nat
    BY <1>6, <2>1, YearInflation, QuotientType
  <2>3. inflationPerSecond' = IF YearOf(now) > currentYear
                              THEN InflationForYear[YearOf(now)] \div Year ELSE inflationPerSecond
    BY DEF SettleEpoch
  <2> QED BY <1>1, <2>2, <2>3 DEF BondTypes
<1>8. /\ epochLen' \in MinEpochLen..MaxEpochLen
      /\ nextEpochLen' \in {0} \cup MinEpochLen..MaxEpochLen
      /\ updated = {} => epochLen' = epochLen
  <2>1. IF "parameters" \in updated /\ nextEpochLen > 0
        THEN epochLen' = nextEpochLen /\ nextEpochLen' = 0
        ELSE UNCHANGED <<epochLen, nextEpochLen>>
    BY DEF SettleEpoch
  <2>2. /\ epochLen \in MinEpochLen..MaxEpochLen
        /\ nextEpochLen \in {0} \cup MinEpochLen..MaxEpochLen
    BY <1>1 DEF BondTypes
  <2> QED BY <2>1, <2>2
<1>9. /\ fractions' \in [1..(MaxEpochs + 1) -> {FirstFractions} \cup NewFractions]
      /\ \A e \in 1..epochCounter : fractions'[e] = fractions[e]
      /\ updated = {} => fractions'[next] = fractions[epochCounter]
  <2>1. fractions' = NextFractions
    BY DEF SettleEpoch
  <2> QED BY <1>1, <1>2, <2>1 DEF BondTypes, NextFractions
<1>10. fractions[epochCounter] \in {FirstFractions} \cup NewFractions
       /\ fractions'[next] \in {FirstFractions} \cup NewFractions
  BY <1>1, <1>2, <1>9 DEF BondTypes
<1>11. inflation \in Nat /\ BondOf(inflation, epochCounter) \in Nat /\ maxBond \in Nat
       /\ (epochCounter > 1 \/ FirstInYear => maxBond <= BondOf(inflation, epochCounter))
  <2> DEFINE least == InflationBetween(LastEnd, LastEnd + epochLen, inflationPerSecond, currentYear)
             bond == fractions[epochCounter].bond
  <2>1. LastEnd + epochLen \in Nat /\ LastEnd <= LastEnd + epochLen /\ now <= MaxTime + Year
    BY <1>2, <1>3
  <2>2. least \in Nat /\ inflation \in Nat /\ least <= inflation
    BY <1>2, <1>3, <1>7, <2>1, InflationGrows
  <2>3. bond \in Nat
    BY <1>10, BondShare
  <2>4. epochCounter > 1 \/ FirstInYear => maxBond = (least * bond) \div 100
    BY <1>1 DEF MaxBondIsYield, BondOf
  <2>0. maxBond \in Nat
    BY <1>1 DEF BondTypes
  <2> HIDE DEF least, bond, inflation
  <2>5. least * bond \in Nat /\ inflation * bond \in Nat /\ least * bond <= inflation * bond
    BY <2>2, <2>3, ProductMono
  <2>6. (least * bond) \div 100 \in Nat /\ (inflation * bond) \div 100 \in Nat
        /\ (least * bond) \div 100 <= (inflation * bond) \div 100
    BY <2>5, PercentMono
  <2> QED BY <2>0, <2>2, <2>4, <2>6 DEF BondOf, bond
<1>12. credit \in Nat
  <2>1. now + epochLen' \in Nat /\ now <= now + epochLen' /\ now + epochLen' <= MaxTime + Year
        /\ (now + epochLen') - now < Year
    <3>1. epochLen' \in Nat /\ epochLen' <= MaxEpochLen
      BY <1>8
    <3>2. MaxEpochLen < Year /\ MaxEpochLen \in Nat /\ Year \in Nat /\ MaxTime \in Nat
      OBVIOUS
    <3>3. now \in Nat /\ now <= MaxTime
      BY <1>2
    <3>4. \A len \in Nat : len <= MaxEpochLen =>
            /\ now + len \in Nat /\ now <= now + len /\ now + len <= MaxTime + Year
            /\ (now + len) - now < Year
      BY ONLY <3>2, <3>3
    <3> QED BY <3>1, <3>4
  <2> QED BY <1>2, <1>6, <1>7, <2>1, InflationGrows
<1>13. maxBond' = (credit * fractions'[next].bond) \div 100
  <2>1. maxBond' = NextMaxBond(epochLen', inflationPerSecond', currentYear', changed,
                               fractions'[next].bond)
    BY DEF SettleEpoch
  <2>2. CASE YearOf(now + epochLen') > currentYear' \/ changed
    BY <2>1, <2>2 DEF NextMaxBond
  <2>3. CASE ~(YearOf(now + epochLen') > currentYear' \/ changed)
    <3>1. maxBond' = maxBond
      BY <2>1, <2>3 DEF NextMaxBond
    <3>2. /\ epochLen' = epochLen /\ inflationPerSecond' = inflationPerSecond
          /\ fractions'[next] = fractions[epochCounter]
          /\ currentYear' = currentYear /\ YearOf(now) = currentYear
      BY <1>6, <1>7, <1>8, <1>9, <2>3
    <3>3. credit = epochLen * inflationPerSecond
      <4>1. YearOf(now + epochLen) \in Nat
        BY <1>2, <1>3, YearFacts
      <4>2. YearOf(now + epochLen) <= YearOf(now)
        BY <1>6, <2>3, <3>2, <4>1
      <4> QED BY <1>2, <1>3, <1>7, <3>2, <4>2, InflationWithinYear
    <3>4. InflationBetween(LastEnd, LastEnd + epochLen, inflationPerSecond, currentYear)
            = epochLen * inflationPerSecond
      <4>1. YearOf(LastEnd + epochLen) <= YearOf(LastEnd)
        BY <1>2, <1>3, <3>2, YearMono
      <4> QED BY <1>2, <1>3, <1>7, <4>1, InflationWithinYear
    <3>5. epochCounter > 1 \/ FirstInYear
      <4> SUFFICES ASSUME epochCounter = 1, ~FirstInYear
                   PROVE  FALSE
        BY <1>2
      <4>1. LastEnd = endTime[0] /\ LastEnd \in Launches /\ epochLen = FirstEpochLen
        BY <1>1 DEF EpochPlace, LastEnd
      <4>2. LastEnd < Year /\ Year < LastEnd + epochLen
        BY <1>2, <1>3, <4>1, EpochAssumption DEF FirstInYear
      <4>3. YearOf(LastEnd) = 0 /\ YearOf(now) # 0
        <5>1. YearOf(LastEnd) = 0
          BY <1>2, <4>2, YearUnique
        <5>2. YearOf(now) # 0
          BY <1>2, <1>3, <4>2, YearFacts
        <5> QED BY <5>1, <5>2
      <4> QED BY <1>2, <3>2, <4>3
    <3>6. maxBond = (epochLen * inflationPerSecond * fractions[epochCounter].bond) \div 100
      BY <1>1, <3>4, <3>5 DEF MaxBondIsYield, BondOf
    <3> HIDE DEF credit, next
    <3> QED BY <3>1, <3>2, <3>3, <3>6
  <2> QED BY <2>2, <2>3
<1>14. maxBond' \in Nat
  <2> HIDE DEF credit
  <2> QED BY <1>10, <1>12, <1>13, BondShare
<1>15. effectiveBond' = effectiveBond + BondCorrection(BondOf(inflation, epochCounter)) + maxBond'
       /\ BondCorrection(BondOf(inflation, epochCounter)) \in Nat /\ effectiveBond' \in Nat
  <2>1. effectiveBond' = effectiveBond + BondCorrection(BondOf(inflation, epochCounter)) + maxBond'
    BY DEF SettleEpoch
  <2>2. BondCorrection(BondOf(inflation, epochCounter)) \in Nat
    <3> HIDE DEF inflation
    <3> QED BY <1>11 DEF BondCorrection
  <2>3. effectiveBond \in Nat
    BY <1>1 DEF BondTypes
  <2> HIDE DEF inflation
  <2> QED BY <1>14, <2>1, <2>2, <2>3
<1>16. totalTopUpsOLAS' = [totalTopUpsOLAS EXCEPT ![epochCounter] = inflation]
       /\ totalTopUpsOLAS' \in [Epochs -> Nat]
  <2>1. totalTopUpsOLAS' = [totalTopUpsOLAS EXCEPT ![epochCounter] = inflation]
    BY DEF SettleEpoch
  <2>2. totalTopUpsOLAS \in [Epochs -> Nat]
    BY <1>1 DEF BondTypes
  <2> HIDE DEF inflation
  <2> QED BY <1>11, <2>1, <2>2
<1>17. UNCHANGED <<supply, productCounter, payout, bondCounter, redeemed>>
  BY DEF bondingVars
<1>18. BondTypes'
  <2>1. endTime' \in [0..MaxEpochs -> Nat]
    BY <1>1, <1>2, <1>4 DEF BondTypes
  <2> QED BY <1>1, <1>2, <1>4, <1>5, <1>6, <1>7, <1>8, <1>9, <1>14, <1>15, <1>16, <1>17, <2>1
          DEF BondTypes, Epochs, Products, Bonds
<1>19. EpochPlace'
  <2>1. endTime'[0] = endTime[0] /\ endTime[0] \in Launches /\ epochCounter' # 1
    BY <1>1, <1>2, <1>4 DEF BondTypes, EpochPlace
  <2> QED BY <1>2, <1>5, <1>6, <2>1 DEF EpochPlace
<1>20. MaxBondIsYield'
  <2>1. epochCounter' # 1
    BY <1>2, <1>4
  <2> QED BY <1>4, <1>5, <1>13, <2>1 DEF MaxBondIsYield, BondOf, InflationBetween, YearOf
<1>21. Unused'
  BY <1>1, <1>17 DEF Unused, Products, Bonds
<1>22. BondBudget'
  <2>1. OnSale' = OnSale /\ Outstanding' = Outstanding
    BY <1>17 DEF OnSale, Outstanding
  <2>2. Yields \in [1..MaxEpochs -> Int] /\ Yields[epochCounter] = 0
    <3>1. \A e \in Epochs : BondOf(totalTopUpsOLAS[e], e) \in Nat
      <4> SUFFICES ASSUME NEW e \in Epochs
                   PROVE  BondOf(totalTopUpsOLAS[e], e) \in Nat
        OBVIOUS
      <4>1. totalTopUpsOLAS[e] \in Nat /\ fractions[e] \in {FirstFractions} \cup NewFractions
        BY <1>1 DEF BondTypes, Epochs
      <4> QED BY <4>1, BondShare DEF BondOf
    <3> QED BY <1>2, <3>1 DEF Yields, Epochs
  <2>3. Yields' = [Yields EXCEPT ![epochCounter] = BondOf(inflation, epochCounter)]
    <3> HIDE DEF inflation
    <3>1. \A e \in Epochs : e < epochCounter =>
            BondOf(totalTopUpsOLAS[e], e)' = BondOf(totalTopUpsOLAS[e], e)
      <4> SUFFICES ASSUME NEW e \in Epochs, e < epochCounter
                   PROVE  (totalTopUpsOLAS'[e] * fractions'[e].bond) \div 100
                            = (totalTopUpsOLAS[e] * fractions[e].bond) \div 100
        BY DEF BondOf
      <4>1. fractions'[e] = fractions[e]
        BY <1>2, <1>9 DEF Epochs
      <4>2. totalTopUpsOLAS'[e] = totalTopUpsOLAS[e]
        BY <1>1, <1>2, <1>16 DEF BondTypes, Epochs
      <4> QED BY <4>1, <4>2
    <3>2. BondOf(totalTopUpsOLAS[epochCounter], epochCounter)' =
             (totalTopUpsOLAS'[next] * fractions'[next].bond) \div 100
      BY <1>4 DEF BondOf
    <3>3. (totalTopUpsOLAS'[epochCounter] * fractions'[epochCounter].bond) \div 100
            = BondOf(inflation, epochCounter)
      <4>1. totalTopUpsOLAS'[epochCounter] = inflation
        BY <1>1, <1>2, <1>16 DEF BondTypes, Epochs
      <4>2. fractions'[epochCounter] = fractions[epochCounter]
        BY <1>2, <1>9
      <4> QED BY <4>1, <4>2 DEF BondOf
    <3>4. Yields' = [e \in Epochs |->
                       IF e < epochCounter' THEN (totalTopUpsOLAS'[e] * fractions'[e].bond) \div 100
                       ELSE 0]
      BY DEF Yields, BondOf
    <3>5. \A e \in Epochs : Yields'[e] = [Yields EXCEPT ![epochCounter] = BondOf(inflation, epochCounter)][e]
      <4> SUFFICES ASSUME NEW e \in Epochs
                   PROVE  Yields'[e] = [Yields EXCEPT ![epochCounter] = BondOf(inflation, epochCounter)][e]
        OBVIOUS
      <4>1. e \in Nat
        BY DEF Epochs
      <4>2. CASE e < epochCounter
        BY <1>2, <1>4, <2>2, <3>1, <3>4, <4>1, <4>2 DEF Yields, BondOf
      <4>3. CASE e = epochCounter
        BY <1>2, <1>4, <2>2, <3>3, <3>4, <4>3 DEF Epochs
      <4>4. CASE e > epochCounter
        BY <1>2, <1>4, <2>2, <3>4, <4>1, <4>4 DEF Yields
      <4> QED BY <1>2, <4>1, <4>2, <4>3, <4>4
    <3> QED BY <2>2, <3>4, <3>5 DEF Epochs
  <2>4. Total(Yields', MaxEpochs) = Total(Yields, MaxEpochs) - 0 + BondOf(inflation, epochCounter)
    <3> HIDE DEF inflation
    <3>1. epochCounter \in 1..MaxEpochs /\ BondOf(inflation, epochCounter) \in Int
      BY <1>2, <1>11
    <3>2. Total([Yields EXCEPT ![epochCounter] = BondOf(inflation, epochCounter)], MaxEpochs)
            = Total(Yields, MaxEpochs) - Yields[epochCounter] + BondOf(inflation, epochCounter)
      <4>1. ASSUME NEW v \in Int
            PROVE  Total([Yields EXCEPT ![epochCounter] = v], MaxEpochs)
                     = Total(Yields, MaxEpochs) - Yields[epochCounter] + v
        <5>1. MaxEpochs \in Nat
          OBVIOUS
        <5> QED BY ONLY <2>2, <3>1, <4>1, <5>1, TotalExcept
      <4> QED BY <3>1, <4>1
    <3> QED BY <2>2, <2>3, <3>2
  <2>5. Total(Yields, MaxEpochs) \in Int
    BY <2>2, TotalType
  <2>6. OnSale \in Nat /\ Outstanding \in Nat
    BY <1>1, TotalNonNegative DEF BondTypes, OnSale, Outstanding, Products, Bonds
  <2>7. /\ effectiveBond + OnSale + Outstanding + redeemed
             = maxBond + Total(Yields, MaxEpochs) + Overcredit
        /\ FirstInYear => Overcredit = 0
    BY <1>1 DEF BondBudget, Yields
  <2>8. FirstCredit' = FirstCredit /\ FirstInYear' = FirstInYear
    <3>1. endTime'[0] = endTime[0] /\ fractions'[1] = fractions[1]
      BY <1>1, <1>2, <1>4, <1>9 DEF BondTypes
    <3> QED BY <3>1, FirstSame
  <2>9. BondOf(totalTopUpsOLAS[1], 1)' = IF epochCounter = 1 THEN BondOf(inflation, epochCounter)
                                         ELSE BondOf(totalTopUpsOLAS[1], 1)
    <3> HIDE DEF inflation
    <3>1. fractions'[1] = fractions[1]
      BY <1>2, <1>9
    <3>2. totalTopUpsOLAS'[1] = IF epochCounter = 1 THEN inflation ELSE totalTopUpsOLAS[1]
      BY <1>1, <1>2, <1>16 DEF BondTypes, Epochs
    <3> QED BY <3>1, <3>2 DEF BondOf
  <2>10. Overcredit \in Int
         /\ Overcredit' + BondOf(inflation, epochCounter)
              = Overcredit + maxBond + BondCorrection(BondOf(inflation, epochCounter))
         /\ (FirstInYear => Overcredit' = 0)
    <3> DEFINE y == BondOf(inflation, epochCounter)
    <3>1. y \in Nat /\ maxBond \in Nat /\ (epochCounter > 1 \/ FirstInYear => maxBond <= y)
      BY <1>11
    <3>2. Overcredit' = IF FirstCredit > BondOf(totalTopUpsOLAS[1], 1)'
                        THEN FirstCredit - BondOf(totalTopUpsOLAS[1], 1)' ELSE 0
      BY <1>2, <1>4, <2>8 DEF Overcredit
    <3>3. BondOf(totalTopUpsOLAS[1], 1)' = IF epochCounter = 1 THEN y
                                           ELSE BondOf(totalTopUpsOLAS[1], 1)
      BY <2>9
    <3> HIDE DEF y
    <3>4. CASE epochCounter = 1
      <4>1. maxBond = FirstCredit
        BY <1>1, <3>4 DEF MaxBondIsYield
      <4>2. Overcredit = 0
        BY <3>4 DEF Overcredit
      <4>3. BondCorrection(y) = IF y > maxBond THEN y - maxBond ELSE 0
        BY DEF BondCorrection
      <4>4. Overcredit' = IF maxBond > y THEN maxBond - y ELSE 0
        BY <3>2, <3>3, <3>4, <4>1
      <4>5. /\ Overcredit \in Int /\ Overcredit' + y = Overcredit + maxBond + BondCorrection(y)
            /\ (FirstInYear => Overcredit' = 0)
        BY <3>1, <4>2, <4>3, <4>4
      <4> QED BY <4>5 DEF y
    <3>5. CASE epochCounter > 1
      <4>1. Overcredit' = Overcredit
        BY <3>2, <3>3, <3>5 DEF Overcredit
      <4>2. BondCorrection(y) = y - maxBond
        BY <3>1, <3>5 DEF BondCorrection
      <4>3. Overcredit \in Int
        BY <1>1, OvercreditType
      <4>4. /\ Overcredit \in Int /\ Overcredit' + y = Overcredit + maxBond + BondCorrection(y)
            /\ (FirstInYear => Overcredit' = 0)
        BY <2>7, <3>1, <4>1, <4>2, <4>3
      <4> QED BY <4>4 DEF y
    <3> QED BY <1>2, <3>4, <3>5
  <2>11. effectiveBond' + OnSale' + Outstanding' + redeemed'
           = maxBond' + Total(Yields', MaxEpochs) + Overcredit'
    <3>1. effectiveBond \in Nat /\ redeemed \in Nat
      BY <1>1 DEF BondTypes
    <3>2. Overcredit' \in Int
      BY <1>18, <1>19, OvercreditTypeNext
    <3> HIDE DEF inflation
    <3> QED BY <1>11, <1>14, <1>15, <1>17, <2>1, <2>4, <2>5, <2>6, <2>7, <2>10, <3>1, <3>2
  <2> QED BY <2>8, <2>10, <2>11 DEF BondBudget, Yields, Total, RunningTotal
<1> QED BY <1>18, <1>19, <1>20, <1>21, <1>22 DEF BondInv

\* Steps that settle nothing, and change no fraction of the current epoch or one before it,
\* leave the yields and the credit as they are.
LEMMA SameYields ==
  ASSUME BondTypes,
         UNCHANGED <<epochCounter, endTime, epochLen, currentYear, inflationPerSecond,
                     totalTopUpsOLAS, maxBond>>,
         \A e \in 1..epochCounter : fractions'[e] = fractions[e]
  PROVE  /\ Total(Yields, MaxEpochs)' = Total(Yields, MaxEpochs)
         /\ Overcredit' = Overcredit /\ FirstInYear' = FirstInYear
         /\ MaxBondIsYield => MaxBondIsYield'
<1>1. epochCounter \in Nat /\ epochCounter \in 1..epochCounter
  BY DEF BondTypes
<1>2. Yields' = Yields
  <2>1. Yields' = [e \in Epochs |->
                     IF e < epochCounter' THEN (totalTopUpsOLAS'[e] * fractions'[e].bond) \div 100
                     ELSE 0]
    BY DEF Yields, BondOf
  <2>2. \A e \in Epochs : e < epochCounter => fractions'[e] = fractions[e]
    BY <1>1 DEF Epochs
  <2> QED BY <2>1, <2>2 DEF Yields, BondOf
<1>3. fractions'[epochCounter] = fractions[epochCounter]
  BY <1>1
<1>4. FirstCredit' = FirstCredit /\ FirstInYear' = FirstInYear /\ fractions'[1] = fractions[1]
  <2>1. 1 \in 1..epochCounter
    BY DEF BondTypes
  <2> QED BY <2>1, FirstSame
<1>6. MaxBondIsYield => MaxBondIsYield'
  BY <1>3, <1>4 DEF MaxBondIsYield, BondOf, LastEnd, InflationBetween, YearOf
<1>7. Overcredit' = Overcredit
  BY <1>4 DEF Overcredit, BondOf
<1>5. Total(Yields, MaxEpochs)' = Total(Yields', MaxEpochs)
  BY DEF Total, RunningTotal
<1> QED BY <1>2, <1>4, <1>5, <1>6, <1>7

\* Steps of the other programmes, of the owner and of time keep the invariant.
LEMMA QuietStep ==
  ASSUME BondInv, now' \in now..MaxTime,
         UNCHANGED <<epochCounter, endTime, epochLen, currentYear, inflationPerSecond,
                     totalTopUpsOLAS, maxBond, effectiveBond, supply, productCounter,
                     payout, bondCounter, redeemed>>,
         nextEpochLen' \in {0} \cup MinEpochLen..MaxEpochLen,
         fractions' \in [1..(MaxEpochs + 1) -> {FirstFractions} \cup NewFractions],
         \A e \in 1..epochCounter : fractions'[e] = fractions[e]
  PROVE  BondInv'
<1>1. BondTypes /\ EpochPlace /\ MaxBondIsYield /\ Unused /\ BondBudget
  BY DEF BondInv
<1>2. now \in Nat /\ now' \in 0..MaxTime /\ now' >= now
  BY <1>1, EpochConstants DEF BondTypes
<1>3. BondTypes'
  BY <1>1, <1>2 DEF BondTypes, Epochs, Products, Bonds
<1>4. EpochPlace'
  <2>1. LastEnd' = LastEnd /\ LastEnd \in Nat
    BY <1>1, EpochConstants DEF LastEnd, BondTypes
  <2> QED BY <1>1, <1>2, <2>1 DEF EpochPlace, YearOf
<1>5. /\ MaxBondIsYield' /\ Total(Yields, MaxEpochs)' = Total(Yields, MaxEpochs)
      /\ Overcredit' = Overcredit /\ FirstInYear' = FirstInYear
  BY <1>1, SameYields
<1>6. Unused'
  BY <1>1 DEF Unused, Products, Bonds
<1>7. BondBudget'
  <2>1. OnSale' = OnSale /\ Outstanding' = Outstanding
    BY DEF OnSale, Outstanding
  <2> QED BY <1>1, <1>5, <2>1 DEF BondBudget, Yields
<1> QED BY <1>3, <1>4, <1>5, <1>6, <1>7 DEF BondInv

\* Steps of the bond programme keep the invariant when they move OLAS between the terms of the
\* budget.
LEMMA MoveStep ==
  ASSUME BondInv, UNCHANGED <<now, inflationRest>>,
         effectiveBond' \in Nat, redeemed' \in Nat,
         supply' \in [Products -> Nat], productCounter' \in 0..MaxProducts,
         payout' \in [Bonds -> Nat], bondCounter' \in 0..MaxBonds, Unused',
         effectiveBond' + OnSale' + Outstanding' + redeemed'
           = effectiveBond + OnSale + Outstanding + redeemed
  PROVE  BondInv'
<1>1. BondTypes /\ EpochPlace /\ MaxBondIsYield /\ Unused /\ BondBudget
  BY DEF BondInv
<1>2. UNCHANGED <<now, epochCounter, endTime, epochLen, nextEpochLen, currentYear,
                  inflationPerSecond, fractions, totalTopUpsOLAS, maxBond>>
  BY DEF inflationRest, paramVars, settleVars
<1>3. BondTypes'
  BY <1>1, <1>2 DEF BondTypes, Epochs, Products, Bonds
<1>4. EpochPlace'
  BY <1>1, <1>2 DEF EpochPlace, LastEnd, YearOf
<1>5. /\ MaxBondIsYield' /\ Total(Yields, MaxEpochs)' = Total(Yields, MaxEpochs)
      /\ Overcredit' = Overcredit /\ FirstInYear' = FirstInYear
  BY <1>1, <1>2, SameYields
<1>6. BondBudget'
  <2>1. /\ effectiveBond + OnSale + Outstanding + redeemed
             = maxBond + Total(Yields, MaxEpochs) + Overcredit
        /\ FirstInYear => Overcredit = 0
    BY <1>1 DEF BondBudget, Yields
  <2>2. /\ effectiveBond' + OnSale' + Outstanding' + redeemed'
             = maxBond' + Total(Yields, MaxEpochs)' + Overcredit'
        /\ (FirstInYear => Overcredit = 0)'
    BY <1>2, <1>5, <2>1
  <2> QED BY <2>2 DEF BondBudget, Yields
<1> QED BY <1>3, <1>4, <1>5, <1>6 DEF BondInv

-----------------------------------------------------------------------------
(* The bonds: a step preserves the invariant                                 *)

\* The two sums after a change of one product, and of one bond.
LEMMA SumsExcept ==
  ASSUME BondTypes
  PROVE  /\ OnSale \in Nat /\ Outstanding \in Nat
         /\ \A q \in Products, v \in Nat :
              Total([supply EXCEPT ![q] = v], MaxProducts) = OnSale - supply[q] + v
         /\ \A b \in Bonds, v \in Nat :
              Total([payout EXCEPT ![b] = v], MaxBonds) = Outstanding - payout[b] + v
<1>1. supply \in [1..MaxProducts -> Nat] /\ payout \in [1..MaxBonds -> Nat]
  BY DEF BondTypes, Products, Bonds
<1>2. MaxProducts \in Nat /\ MaxBonds \in Nat
  BY EpochConstants
<1>3. OnSale \in Nat /\ Outstanding \in Nat
  BY <1>1, <1>2, TotalNonNegative DEF OnSale, Outstanding
<1>4. supply \in [1..MaxProducts -> Int] /\ payout \in [1..MaxBonds -> Int]
  BY <1>1
<1>5. ASSUME NEW q \in Products, NEW v \in Nat
      PROVE  Total([supply EXCEPT ![q] = v], MaxProducts) = OnSale - supply[q] + v
  <2>1. q \in 1..MaxProducts /\ v \in Int
    BY <1>5 DEF Products
  <2>2. Total([supply EXCEPT ![q] = v], MaxProducts) = Total(supply, MaxProducts) - supply[q] + v
    BY ONLY <1>2, <1>4, <2>1, TotalExcept
  <2> QED BY <2>2 DEF OnSale
<1>6. ASSUME NEW b \in Bonds, NEW v \in Nat
      PROVE  Total([payout EXCEPT ![b] = v], MaxBonds) = Outstanding - payout[b] + v
  <2>1. b \in 1..MaxBonds /\ v \in Int
    BY <1>6 DEF Bonds
  <2>2. Total([payout EXCEPT ![b] = v], MaxBonds) = Total(payout, MaxBonds) - payout[b] + v
    BY ONLY <1>2, <1>4, <2>1, TotalExcept
  <2> QED BY <2>2 DEF Outstanding
<1> QED BY <1>3, <1>5, <1>6

LEMMA CreateStep ==
  ASSUME BondInv, now' = now, NEW s \in Supplies, create(s)
  PROVE  BondInv'
<1>1. BondTypes /\ Unused
  BY DEF BondInv
<1>2. s \in Nat
  BY BondingAssumption
<1>3. /\ productCounter \in Nat /\ productCounter + 1 \in Products
      /\ supply[productCounter + 1] = 0 /\ effectiveBond \in Nat /\ effectiveBond >= s
  BY <1>1, EpochConstants DEF BondTypes, Unused, Products, create
<1>4. /\ supply' = [supply EXCEPT ![productCounter + 1] = s]
      /\ effectiveBond' = effectiveBond - s /\ productCounter' = productCounter + 1
      /\ UNCHANGED <<inflationRest, bondCounter, payout, redeemed>>
  BY DEF create
<1>5. OnSale' = OnSale + s /\ Outstanding' = Outstanding /\ OnSale \in Nat /\ Outstanding \in Nat
  <2>1. OnSale' = Total(supply', MaxProducts)
    BY DEF OnSale, Total, RunningTotal
  <2>2. OnSale \in Nat /\ Outstanding \in Nat
        /\ Total([supply EXCEPT ![productCounter + 1] = s], MaxProducts) = OnSale - 0 + s
    BY <1>1, <1>2, <1>3, SumsExcept
  <2>3. Outstanding' = Outstanding
    BY <1>4 DEF Outstanding
  <2> QED BY <1>2, <1>4, <2>1, <2>2, <2>3
<1>6. /\ supply' \in [Products -> Nat] /\ productCounter' \in 0..MaxProducts
      /\ effectiveBond' \in Nat /\ redeemed' \in Nat /\ redeemed' = redeemed
      /\ payout' \in [Bonds -> Nat] /\ bondCounter' \in 0..MaxBonds
  BY <1>1, <1>2, <1>3, <1>4, EpochConstants DEF BondTypes, Products
<1>7. Unused'
  BY <1>1, <1>3, <1>4, EpochConstants DEF Unused, BondTypes, Products, Bonds
<1>8. effectiveBond' + OnSale' + Outstanding' + redeemed'
        = effectiveBond + OnSale + Outstanding + redeemed
  BY <1>2, <1>3, <1>4, <1>5, <1>6
<1> QED BY <1>4, <1>6, <1>7, <1>8, MoveStep

LEMMA CloseStep ==
  ASSUME BondInv, now' = now, NEW q \in Products, close(q)
  PROVE  BondInv'
<1>1. BondTypes /\ Unused
  BY DEF BondInv
<1>2. supply[q] \in Nat /\ effectiveBond \in Nat
  BY <1>1 DEF BondTypes
<1>3. /\ supply' = [supply EXCEPT ![q] = 0] /\ effectiveBond' = effectiveBond + supply[q]
      /\ UNCHANGED <<inflationRest, productCounter, bondCounter, payout, redeemed>>
  BY DEF close
<1>4. OnSale' = OnSale - supply[q] /\ Outstanding' = Outstanding
      /\ OnSale \in Nat /\ Outstanding \in Nat
  <2>1. OnSale' = Total(supply', MaxProducts)
    BY DEF OnSale, Total, RunningTotal
  <2>2. OnSale \in Nat /\ Outstanding \in Nat
        /\ Total([supply EXCEPT ![q] = 0], MaxProducts) = OnSale - supply[q] + 0
    BY <1>1, SumsExcept
  <2>3. Outstanding' = Outstanding
    BY <1>3 DEF Outstanding
  <2> QED BY <1>2, <1>3, <2>1, <2>2, <2>3
<1>5. /\ supply' \in [Products -> Nat] /\ productCounter' \in 0..MaxProducts
      /\ effectiveBond' \in Nat /\ redeemed' \in Nat /\ redeemed' = redeemed
      /\ payout' \in [Bonds -> Nat] /\ bondCounter' \in 0..MaxBonds
  BY <1>1, <1>2, <1>3 DEF BondTypes
<1>6. Unused'
  BY <1>1, <1>3 DEF Unused, BondTypes
<1>7. effectiveBond' + OnSale' + Outstanding' + redeemed'
        = effectiveBond + OnSale + Outstanding + redeemed
  BY <1>2, <1>3, <1>4, <1>5
<1> QED BY <1>3, <1>5, <1>6, <1>7, MoveStep

LEMMA DepositStep ==
  ASSUME BondInv, now' = now, NEW q \in Products, NEW amount \in Payouts, deposit(q, amount)
  PROVE  BondInv'
<1>1. BondTypes /\ Unused
  BY DEF BondInv
<1>2. amount \in Nat /\ supply[q] \in Nat /\ amount <= supply[q]
  BY <1>1, BondingAssumption DEF BondTypes, deposit
<1>3. /\ bondCounter \in Nat /\ bondCounter + 1 \in Bonds /\ payout[bondCounter + 1] = 0
  BY <1>1, EpochConstants DEF BondTypes, Unused, Bonds, deposit
<1>4. /\ supply' = [supply EXCEPT ![q] = supply[q] - amount]
      /\ payout' = [payout EXCEPT ![bondCounter + 1] = amount]
      /\ bondCounter' = bondCounter + 1
      /\ UNCHANGED <<inflationRest, effectiveBond, productCounter, redeemed>>
  BY DEF deposit
<1>5. /\ OnSale' = OnSale - amount /\ Outstanding' = Outstanding + amount
      /\ OnSale \in Nat /\ Outstanding \in Nat
  <2>1. OnSale' = Total(supply', MaxProducts) /\ Outstanding' = Total(payout', MaxBonds)
    BY DEF OnSale, Outstanding, Total, RunningTotal
  <2>2. supply[q] - amount \in Nat
    BY <1>2
  <2>3. OnSale \in Nat /\ Outstanding \in Nat
        /\ Total([supply EXCEPT ![q] = supply[q] - amount], MaxProducts)
             = OnSale - supply[q] + (supply[q] - amount)
        /\ Total([payout EXCEPT ![bondCounter + 1] = amount], MaxBonds) = Outstanding - 0 + amount
    BY <1>1, <1>2, <1>3, <2>2, SumsExcept
  <2> QED BY <1>2, <1>4, <2>1, <2>3
<1>6. /\ supply' \in [Products -> Nat] /\ productCounter' \in 0..MaxProducts
      /\ effectiveBond' \in Nat /\ effectiveBond' = effectiveBond
      /\ redeemed' \in Nat /\ redeemed' = redeemed
      /\ payout' \in [Bonds -> Nat] /\ bondCounter' \in 0..MaxBonds
  BY <1>1, <1>2, <1>3, <1>4, EpochConstants DEF BondTypes, Bonds
<1>7. Unused'
  <2>1. \A r \in Products : r > productCounter' => supply'[r] = 0
    BY <1>1, <1>2, <1>4 DEF Unused, BondTypes
  <2>2. \A b \in Bonds : b > bondCounter' => payout'[b] = 0
    BY <1>1, <1>3, <1>4, EpochConstants DEF Unused, BondTypes, Bonds
  <2> QED BY <2>1, <2>2 DEF Unused, Products, Bonds
<1>8. effectiveBond' + OnSale' + Outstanding' + redeemed'
        = effectiveBond + OnSale + Outstanding + redeemed
  <2>1. effectiveBond \in Nat /\ redeemed \in Nat
    BY <1>1 DEF BondTypes
  <2> QED BY <1>2, <1>5, <1>6, <2>1
<1> QED BY <1>4, <1>6, <1>7, <1>8, MoveStep

LEMMA RedeemStep ==
  ASSUME BondInv, now' = now, NEW S \in SUBSET Bonds, redeem(S)
  PROVE  BondInv'
<1> DEFINE taken == [b \in 1..MaxBonds |-> IF b \in S THEN payout[b] ELSE 0]
           kept == [b \in 1..MaxBonds |-> IF b \in S THEN 0 ELSE payout[b]]
           amount == Total(taken, MaxBonds)
<1>1. BondTypes /\ Unused
  BY DEF BondInv
<1>2. payout \in [1..MaxBonds -> Nat] /\ MaxBonds \in Nat
  BY <1>1, EpochConstants DEF BondTypes, Bonds
<1>3. /\ payout' = kept /\ redeemed' = redeemed + amount
      /\ UNCHANGED <<inflationVars, supply, productCounter, bondCounter>>
  <2>1. TotalOver(LAMBDA b : IF b \in S THEN payout[b] ELSE 0, MaxBonds) = amount
    BY DEF TotalOver
  <2> HIDE DEF amount
  <2> QED BY <2>1 DEF redeem, Bonds
<1>4. amount \in Nat /\ Outstanding = Total(kept, MaxBonds) + amount
  <2>1. taken \in [1..MaxBonds -> Nat] /\ kept \in [1..MaxBonds -> Nat]
    BY <1>2
  <2>2. \A i \in 1..MaxBonds : payout[i] = kept[i] + taken[i]
    BY <1>2
  <2>3. amount \in Nat
    BY <1>2, <2>1, TotalNonNegative
  <2>4. Total(payout, MaxBonds) = Total(kept, MaxBonds) + Total(taken, MaxBonds)
    <3>1. /\ taken \in [1..MaxBonds -> Int] /\ kept \in [1..MaxBonds -> Int]
          /\ payout \in [1..MaxBonds -> Int]
      BY <1>2, <2>1
    <3> HIDE DEF taken, kept
    <3> QED BY ONLY <1>2, <2>2, <3>1, TotalSum
  <2> QED BY <2>3, <2>4 DEF Outstanding
<1>5. Total(kept, MaxBonds) \in Nat
  BY <1>2, TotalNonNegative
<1>6. Outstanding' = Total(kept, MaxBonds) /\ OnSale' = OnSale
  <2>1. Outstanding' = Total(payout', MaxBonds)
    BY DEF Outstanding, Total, RunningTotal
  <2> HIDE DEF kept
  <2> QED BY <1>3, <2>1 DEF OnSale
<1>7. UNCHANGED <<inflationRest, effectiveBond>>
  BY <1>3 DEF inflationVars, inflationRest
<1>8. kept \in [Bonds -> Nat] /\ \A b \in Bonds : b > bondCounter => kept[b] = 0
  BY <1>1, <1>2 DEF Unused, Bonds
<1>9. /\ supply' \in [Products -> Nat] /\ productCounter' \in 0..MaxProducts
      /\ effectiveBond' \in Nat /\ redeemed \in Nat
      /\ payout' \in [Bonds -> Nat] /\ bondCounter' \in 0..MaxBonds
  <2> HIDE DEF kept, amount
  <2> QED BY <1>1, <1>3, <1>7, <1>8 DEF BondTypes
<1>10. Unused'
  <2> HIDE DEF kept, amount
  <2>1. \A q \in Products : q > productCounter' => supply'[q] = 0
    BY <1>1, <1>3 DEF Unused
  <2>2. \A b \in Bonds : b > bondCounter' => payout'[b] = 0
    BY <1>3, <1>8
  <2> QED BY <2>1, <2>2 DEF Unused, Products, Bonds
<1>11. redeemed' \in Nat /\ effectiveBond' + OnSale' + Outstanding' + redeemed'
         = effectiveBond + OnSale + Outstanding + redeemed
  <2>1. OnSale \in Nat
    BY <1>1, SumsExcept
  <2> HIDE DEF kept, amount
  <2> QED BY <1>3, <1>4, <1>5, <1>6, <1>7, <1>9, <2>1
<1> QED BY <1>7, <1>9, <1>10, <1>11, MoveStep

\* Every step keeps the invariant.
LEMMA BondNext == BondInv /\ [Next]_vars => BondInv'
<1> SUFFICES ASSUME BondInv, [Next]_vars
             PROVE  BondInv'
  OBVIOUS
<1>1. BondTypes
  BY DEF BondInv
<1>2. /\ now \in Nat /\ now \in now..MaxTime
      /\ nextEpochLen \in {0} \cup MinEpochLen..MaxEpochLen
      /\ fractions \in [1..(MaxEpochs + 1) -> {FirstFractions} \cup NewFractions]
      /\ epochCounter \in 1..MaxEpochs
  BY <1>1, EpochConstants DEF BondTypes
<1>3. CASE Tick
  <2>1. now' \in now..MaxTime
    BY <1>2, <1>3, EpochConstants DEF Tick
  <2>2. UNCHANGED <<inflationVars, bondingVars>>
    BY <1>3 DEF Tick
  <2> QED BY <1>2, <2>1, <2>2, QuietStep DEF inflationVars, paramVars, settleVars, bondingVars
<1>4. CASE Checkpoint
  <2>1. epochCounter < MaxEpochs /\ SettleEpoch /\ UNCHANGED <<now, bondingVars>>
    BY <1>4 DEF Checkpoint
  <2> QED BY <2>1, SettleStep
<1>5. CASE OwnerCall
  <2>1. UNCHANGED <<now, bondingVars, settleVars, epochLen, effectiveBond>>
    BY <1>5 DEF OwnerCall, Call, changeTokenomicsParameters, changeIncentiveFractions,
                changeStakingParams
  <2>2. nextEpochLen' \in {0} \cup MinEpochLen..MaxEpochLen
    BY <1>2, <1>5 DEF OwnerCall, changeTokenomicsParameters, changeIncentiveFractions,
                      changeStakingParams
  <2>3. /\ fractions' \in [1..(MaxEpochs + 1) -> {FirstFractions} \cup NewFractions]
        /\ \A e \in 1..epochCounter : fractions'[e] = fractions[e]
    <3>1. \/ fractions' = fractions
          \/ \E f \in NewFractions : fractions' = [fractions EXCEPT ![epochCounter + 1] = f]
      BY <1>5 DEF OwnerCall, changeTokenomicsParameters, changeIncentiveFractions,
                  changeStakingParams
    <3>2. CASE fractions' = fractions
      BY <1>2, <3>2
    <3>3. ASSUME NEW f \in NewFractions, fractions' = [fractions EXCEPT ![epochCounter + 1] = f]
          PROVE  /\ fractions' \in [1..(MaxEpochs + 1) -> {FirstFractions} \cup NewFractions]
                 /\ \A e \in 1..epochCounter : fractions'[e] = fractions[e]
      <4>1. \A e \in 1..epochCounter : e # epochCounter + 1 /\ e \in 1..(MaxEpochs + 1)
        BY <1>2, EpochConstants
      <4> QED BY <1>2, <3>3, <4>1
    <3> QED BY <3>1, <3>2, <3>3
  <2> QED BY <1>2, <2>1, <2>2, <2>3, QuietStep DEF settleVars, bondingVars
<1>6. CASE BondCall
  <2>1. now' = now
    BY <1>6 DEF BondCall, Call
  <2> QED BY <1>6, <2>1, CreateStep, CloseStep, DepositStep, RedeemStep DEF BondCall
<1>7. CASE UnitCall \/ StakingCall \/ UNCHANGED vars
  <2>1. UNCHANGED <<now, bondingVars, paramVars, settleVars, effectiveBond>>
    <3>1. CASE UnitCall
      BY <3>1 DEF UnitCall, Call, donate, claimOwnerIncentives, inflationVars
    <3>2. CASE StakingCall
      BY <3>2 DEF StakingCall, Call, addNominee, removeNominee, checkpointNominee,
                  claimStakingIncentives, retain, inflationVars
    <3>3. CASE UNCHANGED vars
      BY <3>3 DEF vars, inflationVars
    <3> QED BY <1>7, <3>1, <3>2, <3>3
  <2> QED BY <1>2, <2>1, QuietStep DEF paramVars, settleVars, bondingVars
<1> QED BY <1>3, <1>4, <1>5, <1>6, <1>7 DEF Next

-----------------------------------------------------------------------------
(* The bonds: theorems                                                       *)

LEMMA BondAlways == Spec => []BondInv
BY BondInitially, BondNext, PTL DEF Spec

\* In every epoch but the first, effectiveBond has been credited with exactly what the epoch yields
\* for bonds when it is settled as soon as possible, whether the epoch crosses the end of a year,
\* the owner has just changed lengths or fractions, or the last epoch was settled late
\* (Tokenomics.sol:1243-1268 computes maxBond only when it may have changed).  The first one has
\* been credited with the first year's inflation, which is the same if it was to end in that year.
THEOREM CreditIsYield == Spec => []MaxBondIsYield
<1>1. BondInv => MaxBondIsYield
  BY DEF BondInv
<1> QED BY <1>1, BondAlways, PTL

\* Whatever the lengths, the fractions and the years: what may be bonded, is on sale, is owed
\* and was paid adds up to what the settled epochs yielded for bonds, the current credit, and
\* what the first epoch was credited with beyond its yield, which is nothing if it was to end in
\* the first year.
THEOREM BondBudgetKept == Spec => []BondBudget
<1>1. BondInv => BondBudget
  BY DEF BondInv
<1> QED BY <1>1, BondAlways, PTL

-----------------------------------------------------------------------------
(* Counting and sums                                                         *)

\* A sum of ones over a set counts it.
LEMMA TotalCounts ==
  ASSUME NEW N \in Nat, NEW P, P \subseteq 1..N
  PROVE  /\ IsFiniteSet(P) /\ Cardinality(P) \in Nat
         /\ Total([i \in 1..N |-> IF i \in P THEN 1 ELSE 0], N) = Cardinality(P)
<1> DEFINE f == [i \in 1..N |-> IF i \in P THEN 1 ELSE 0]
           s == RunningTotal(f, N)
           U(n) == {i \in P : i <= n}
<1>0. \A i \in P : i \in Int /\ 1 <= i /\ i <= N
  OBVIOUS
<1>1. IsFiniteSet(1..N)
  BY FS_Interval
<1>2. IsFiniteSet(P) /\ Cardinality(P) \in Nat
  BY <1>1, FS_Subset, FS_CardinalityType
<1>3. f \in [1..N -> Int]
  OBVIOUS
<1>4. /\ s[0] = 0
      /\ \A n \in 1..N : s[n] = s[n - 1] + f[n]
  <2> HIDE DEF f
  <2>1. QED
    BY <1>3, RunningTotalRecursion
<1>5. \A n \in 1..N : f[n] = IF n \in P THEN 1 ELSE 0
  OBVIOUS
<1> HIDE DEF f, s
<1> DEFINE S == {n \in Nat : n <= N => s[n] = Cardinality(U(n))}
<1>6. 0 \in S
  <2>1. U(0) = {}
    <3>1. \A i \in P : ~ (i <= 0)
      BY <1>0
    <3> QED BY <3>1
  <2> QED BY <1>4, <2>1, FS_EmptySet
<1>7. ASSUME NEW n \in Nat, n \in S
      PROVE  n + 1 \in S
  <2> SUFFICES ASSUME n + 1 <= N
               PROVE  s[n + 1] = Cardinality(U(n + 1))
    OBVIOUS
  <2>1. s[n] = Cardinality(U(n))
    BY <1>7
  <2>2. s[n + 1] = s[n] + f[n + 1] /\ f[n + 1] = IF n + 1 \in P THEN 1 ELSE 0
    <3>1. n + 1 \in 1..N /\ (n + 1) - 1 = n
      OBVIOUS
    <3> QED BY <1>4, <1>5, <3>1
  <2>3. IsFiniteSet(U(n)) /\ Cardinality(U(n)) \in Nat
    BY <1>2, FS_Subset, FS_CardinalityType
  <2>4. CASE n + 1 \in P
    <3>1. U(n + 1) = U(n) \cup {n + 1} /\ n + 1 \notin U(n)
      <4>1. \A i \in P : i <= n + 1 <=> i <= n \/ i = n + 1
        BY <1>0
      <4>2. ~ (n + 1 <= n) /\ n + 1 <= n + 1
        OBVIOUS
      <4>3. \A i : i \in U(n + 1) <=> i \in U(n) \cup {n + 1}
        BY <2>4, <4>1, <4>2
      <4> QED BY <4>2, <4>3
    <3>2. Cardinality(U(n) \cup {n + 1}) = Cardinality(U(n)) + 1
      BY <2>3, <3>1, FS_AddElement
    <3> QED BY <2>1, <2>2, <2>4, <3>1, <3>2
  <2>5. CASE n + 1 \notin P
    <3>1. U(n + 1) = U(n)
      <4>1. \A i \in P : i <= n + 1 <=> i <= n
        BY <1>0, <2>5
      <4> QED BY <4>1
    <3> HIDE DEF U
    <3> QED BY <2>1, <2>2, <2>3, <2>5, <3>1
  <2> QED BY <2>4, <2>5
<1>8. Nat \subseteq S
  <2> HIDE DEF S
  <2> QED BY <1>6, <1>7, SetInduction
<1>9. U(N) = P
  BY <1>0
<1>10. Total(f, N) = Cardinality(P)
  BY <1>8, <1>9 DEF Total, s
<1> QED BY <1>2, <1>10 DEF f

\* Equal parts of an amount add up to no more than it.
LEMMA PartsWithin ==
  ASSUME NEW N \in Nat, NEW P, P \subseteq 1..N, P # {}, NEW amount \in Nat
  PROVE  /\ Cardinality(P) \in Nat \ {0} /\ amount \div Cardinality(P) \in Nat
         /\ Total([i \in 1..N |-> IF i \in P THEN amount \div Cardinality(P) ELSE 0], N) <= amount
<1> DEFINE c == Cardinality(P)
           part == amount \div c
           ones == [i \in 1..N |-> IF i \in P THEN 1 ELSE 0]
           parts == [i \in 1..N |-> IF i \in P THEN part ELSE 0]
<1>1. c \in Nat /\ c # 0 /\ Total(ones, N) = c
  <2>1. IsFiniteSet(P) /\ c \in Nat /\ Total(ones, N) = c
    BY TotalCounts
  <2>2. c # 0
    BY <2>1, FS_EmptySet
  <2> QED BY <2>1, <2>2
<1> HIDE DEF c
<1>2. part \in Nat /\ c * part <= amount
  BY <1>1
<1> HIDE DEF part
<1>3. parts = [i \in 1..N |-> ones[i] * part]
  <2>1. \A i \in 1..N : parts[i] = ones[i] * part
    BY <1>2
  <2> QED BY <2>1
<1>4. ones \in [1..N -> Int]
  OBVIOUS
<1> HIDE DEF ones
<1> HIDE DEF parts
<1>5. Total(parts, N) = Total(ones, N) * part
  <2>1. part \in Int
    BY <1>2
  <2> QED BY ONLY <1>3, <1>4, <2>1, N \in Nat, TotalScaled
<1>6. c * part \in Nat
  BY <1>1, <1>2
<1>7. Total(parts, N) <= amount
  BY <1>1, <1>2, <1>5, <1>6
<1> QED BY <1>1, <1>2, <1>7 DEF c, part, parts

\* What the owner may ask for as fractions.
LEMMA FractionTypes ==
  ASSUME NEW f \in {FirstFractions} \cup NewFractions
  PROVE  /\ f.bond \in Nat /\ f.staking \in Nat
         /\ \A t \in UnitTypes : f.topUp[t] \in Nat /\ f.reward[t] \in Nat
         /\ f.reward["component"] + f.reward["agent"] <= 100
         /\ f.bond + f.topUp["component"] + f.topUp["agent"] + f.staking <= 100
BY FractionAssumption DEF IsFractions, UnitTypes

\* A quotient rounds down.
LEMMA QuotientLow ==
  ASSUME NEW x \in Nat, NEW k \in Nat \ {0}
  PROVE  x \div k \in Nat /\ k * (x \div k) <= x
OBVIOUS

\* The quotient is the largest number that fits.
LEMMA QuotientHigh ==
  ASSUME NEW x \in Nat, NEW k \in Nat \ {0}, NEW q \in Int, k * q <= x
  PROVE  q <= x \div k
<1> DEFINE d == x \div k
           r == x % k
<1>1. d \in Nat /\ r \in 0..(k - 1) /\ x = k * d + r
  OBVIOUS
<1> HIDE DEF d, r
<1>2. SUFFICES ASSUME q >= d + 1
               PROVE  FALSE
  BY <1>1 DEF d
<1>3. k * q >= k * (d + 1)
  BY <1>1, <1>2
<1>4. k * (d + 1) = k * d + k /\ k * d \in Int /\ k * q \in Int
  BY <1>1
<1> QED BY <1>1, <1>3, <1>4

-----------------------------------------------------------------------------
(* The owners' incentives: the invariant                                     *)

UnitTyped ==
    /\ pendingReward \in [Units -> Nat] /\ pendingTopUp \in [Units -> Nat]
    /\ reward \in [Units -> Nat] /\ topUp \in [Units -> Nat]
    /\ lastEpoch \in [Units -> 0..MaxEpochs]
    /\ totalDonations \in [Epochs -> Nat]
    /\ sumUnitTopUps \in [Epochs -> [UnitTypes -> Nat]]
    /\ ETHFromServices \in Nat /\ ETHOwned \in Nat /\ toppedUp \in Nat

\* Nothing is pending without an epoch, and nothing recorded for epochs to come.
UnitPlace ==
    /\ \A u \in Units : lastEpoch[u] <= epochCounter
    /\ \A u \in Units : lastEpoch[u] = 0 => pendingReward[u] = 0 /\ pendingTopUp[u] = 0
    /\ \A e \in Epochs : e > epochCounter =>
         totalDonations[e] = 0 /\ \A t \in UnitTypes : sumUnitTopUps[e][t] = 0

\* RewardsCovered before it is rounded down: a hundred times what each unit has earned, and
\* what the current epoch leaves to the treasury.
RewardPct(u) == IF lastEpoch[u] > 0 THEN fractions[lastEpoch[u]].reward[UnitTypeOf[u]] ELSE 0
Earned == [u \in Units |-> 100 * reward[u] + pendingReward[u] * RewardPct(u)]
TreasuryPct(e) == 100 - fractions[e].reward["component"] - fractions[e].reward["agent"]
RewardBudget ==
    Total(Earned, NumUnits) + totalDonations[epochCounter] * TreasuryPct(epochCounter)
      <= 100 * ETHFromServices

\* The sums that the top-ups of an epoch are divided by count all of them.
CurrentTopUps(t) ==
    Total([u \in Units |-> IF lastEpoch[u] = epochCounter /\ UnitTypeOf[u] = t
                           THEN pendingTopUp[u] ELSE 0], NumUnits)
TopUpWeights ==
    /\ \A t \in UnitTypes : CurrentTopUps(t) <= sumUnitTopUps[epochCounter][t]
    /\ \A u \in Units : lastEpoch[u] > 0 =>
         pendingTopUp[u] <= sumUnitTopUps[lastEpoch[u]][UnitTypeOf[u]]

\* TopUpsCovered as totals of functions.
FinalTopUps == [u \in Units |-> FinalTopUp(u)]
TopUpPart(e) ==
    (totalTopUpsOLAS[e] * (fractions[e].topUp["component"] + fractions[e].topUp["agent"])) \div 100
TopUpParts == [e \in Epochs |-> IF e \in Settled THEN TopUpPart(e) ELSE 0]
TopUpBudget == toppedUp + Total(FinalTopUps, NumUnits) <= Total(TopUpParts, MaxEpochs)

UnitInv == UnitTyped /\ UnitPlace /\ RewardBudget /\ TopUpWeights /\ TopUpBudget

-----------------------------------------------------------------------------
(* The schedule: the invariant                                               *)

\* When the inflation of the current year began.
YearStart == IF currentYear = 0 THEN endTime[0] ELSE currentYear * Year

\* The settled epochs reach up to the end of the last one: they hand out the years before the
\* current one at most, and of this one what has passed at the rate of the year.
ScheduleInv ==
    /\ YearStart <= LastEnd
    /\ inflationPerSecond * ((currentYear + 1) * Year - YearStart) <= InflationForYear[currentYear]
    /\ \A e \in Epochs : e >= epochCounter => totalTopUpsOLAS[e] = 0
    /\ Total(totalTopUpsOLAS, MaxEpochs)
         <= InflationUntilYear(currentYear) + (LastEnd - YearStart) * inflationPerSecond

-----------------------------------------------------------------------------
(* The staking incentives: the invariant                                     *)

StakingTyped ==
    /\ stakingIncentive \in [1..(MaxEpochs + 1) -> Nat]
    /\ \A e \in 1..(MaxEpochs + 1) : e > epochCounter => stakingIncentive[e] = 0
    /\ mapLastClaimed \in [Nominees -> 0..MaxEpochs]
    /\ \A n \in Nominees : mapLastClaimed[n] <= epochCounter
    /\ mapRemoved \in [Nominees -> 0..MaxEpochs] /\ filled \in [Nominees -> 0..MaxEpochs]
    /\ votes \in [Epochs -> VoteOutcomes \cup {NoVotes}]
    /\ stakingParams \in [1..(MaxEpochs + 1) -> {FirstStakingParams} \cup NewStakingParams]
    /\ distributed \in Nat /\ forfeited \in Nat

\* What a nominee may still claim, before it is divided by the scale of the weights.
Weighted(n, e) == stakingIncentive[e] * votes[e].weight[n]
WeightedOf(n) == [e \in Epochs |-> Weighted(n, e)]
DueTo(n) ==
    IF mapLastClaimed[n] = 0 THEN 0
    ELSE SumOverEpochs(WeightedOf(n), mapLastClaimed[n], epochCounter)
Due == [n \in Nominees |-> DueTo(n)]
StakingParts == [e \in Epochs |-> IF e \in Settled THEN StakingOf(e) ELSE 0]
\* What the weights of the settled epochs allocate beyond 100%, not yet divided either.
Overs == [e \in Epochs |-> IF e \in Settled THEN stakingIncentive[e] * Excess(e) ELSE 0]
StakingBudget ==
    Scale * (distributed + forfeited + stakingIncentive[epochCounter]) + Total(Due, NumNominees)
      <= Scale * Total(StakingParts, MaxEpochs) + Total(Overs, MaxEpochs)
StakingInv == StakingTyped /\ StakingBudget

\* A removed nominee was added before, and is done with the epoch of its removal at most.
RemovedDone ==
    \A n \in Nominees : /\ mapLastClaimed[n] = 0 => mapRemoved[n] = 0
                        /\ mapRemoved[n] > 0 => mapLastClaimed[n] <= mapRemoved[n] + 1

-----------------------------------------------------------------------------
(* The supply: the invariant                                                 *)

\* The premises of BondsBacked.
Room == FirstInYear /\ Overallocated = 0 /\ YearOf(LastEnd + epochLen) < CapYears

SupplyInv ==
    /\ depositoryOLAS \in Nat /\ totalSupply \in Nat
    /\ totalSupply = InitialSupply + depositoryOLAS + redeemed + toppedUp + distributed
    /\ depositoryOLAS <= Outstanding
    /\ BondsBacked

-----------------------------------------------------------------------------
(* The owners' incentives: a step preserves the invariant                    *)

\* The constants of the incentives.
LEMMA UnitConstants ==
  /\ NumUnits \in Nat /\ Units = 1..NumUnits
  /\ UnitTypeOf \in [Units -> UnitTypes] /\ UnitTypes = {"component", "agent"}
  /\ \A s \in Services : UnitsOf[s] \subseteq Units
  /\ MaxEpochs \in Nat \ {0} /\ Epochs = 1..MaxEpochs
BY UnitAssumption, EpochAssumption DEF Units, UnitTypes, Epochs

\* The epochs that units and the treasury refer to.
LEMMA EpochTypes ==
  ASSUME BondTypes
  PROVE  /\ epochCounter \in Nat /\ epochCounter >= 1 /\ epochCounter <= MaxEpochs
         /\ epochCounter \in Epochs /\ MaxEpochs \in Nat
         /\ \A e \in Nat : e > 0 /\ e <= MaxEpochs =>
               e \in Epochs /\ e \in 1..(MaxEpochs + 1)
         /\ \A e \in 1..epochCounter : e \in Nat /\ e > 0 /\ e <= MaxEpochs
         /\ fractions[epochCounter] \in {FirstFractions} \cup NewFractions
<1>1. MaxEpochs \in Nat /\ epochCounter \in 1..MaxEpochs /\ Epochs = 1..MaxEpochs
  BY UnitConstants DEF BondTypes
<1>2. fractions[epochCounter] \in {FirstFractions} \cup NewFractions
  <2>1. epochCounter \in 1..(MaxEpochs + 1)
    BY <1>1
  <2> QED BY <2>1 DEF BondTypes
<1> QED BY <1>1, <1>2

\* The percentage of a unit is that of its type in the epoch of its last donation.
LEMMA RewardPctType ==
  ASSUME BondTypes, UnitTyped, NEW u \in Units
  PROVE  RewardPct(u) \in Nat
<1>1. CASE lastEpoch[u] > 0
  <2>1. lastEpoch[u] \in 1..(MaxEpochs + 1)
    <3>1. lastEpoch[u] \in Nat /\ lastEpoch[u] <= MaxEpochs
      BY EpochTypes DEF UnitTyped
    <3> QED BY <1>1, <3>1, EpochTypes
  <2>2. fractions[lastEpoch[u]] \in {FirstFractions} \cup NewFractions
    BY <2>1 DEF BondTypes
  <2>3. UnitTypeOf[u] \in UnitTypes
    BY UnitConstants
  <2> QED BY <1>1, <2>2, <2>3, FractionTypes DEF RewardPct
<1>2. CASE ~ (lastEpoch[u] > 0)
  BY <1>2 DEF RewardPct
<1> QED BY <1>1, <1>2

\* What a unit gets out of its pending reward is the percentage, rounded down.
LEMMA RewardOfFacts ==
  ASSUME BondTypes, UnitTyped, UnitPlace, NEW u \in Units
  PROVE  /\ FinalReward(u) \in Nat
         /\ 100 * FinalReward(u) <= 100 * reward[u] + pendingReward[u] * RewardPct(u)
         /\ (lastEpoch[u] > 0 => RewardOf(u) \in Nat
                                 /\ 100 * RewardOf(u) <= pendingReward[u] * RewardPct(u))
         /\ pendingReward[u] * RewardPct(u) \in Nat
<1>1. /\ pendingReward[u] \in Nat /\ reward[u] \in Nat /\ lastEpoch[u] \in Nat
      /\ epochCounter \in Nat /\ RewardPct(u) \in Nat
  <2>1. pendingReward[u] \in Nat /\ reward[u] \in Nat /\ lastEpoch[u] \in 0..MaxEpochs
    BY DEF UnitTyped
  <2>2. epochCounter \in Nat /\ MaxEpochs \in Nat
    BY EpochTypes
  <2> QED BY <2>1, <2>2, RewardPctType
<1> DEFINE x == pendingReward[u] * RewardPct(u)
<1>2. x \in Nat
  BY <1>1
<1>3. lastEpoch[u] > 0 => RewardOf(u) = x \div 100
  BY DEF RewardOf, RewardPct
<1> HIDE DEF x
<1>4. x \div 100 \in Nat /\ 100 * (x \div 100) <= x
  BY <1>2, QuotientLow
<1>5. Stale(u) => lastEpoch[u] > 0
  BY <1>1 DEF Stale
<1>6. FinalReward(u) = IF Stale(u) THEN reward[u] + RewardOf(u) ELSE reward[u]
  BY DEF FinalReward
<1> QED BY <1>1, <1>2, <1>3, <1>4, <1>5, <1>6 DEF x

\* What a unit earned is a natural number.
LEMMA EarnedType ==
  ASSUME BondTypes, UnitTyped, UnitPlace
  PROVE  Earned \in [1..NumUnits -> Nat] /\ Earned \in [1..NumUnits -> Int]
<1>1. \A u \in Units : 100 * reward[u] + pendingReward[u] * RewardPct(u) \in Nat
  BY RewardOfFacts DEF UnitTyped
<1> QED BY <1>1, UnitConstants DEF Earned

\* The treasury's percentage.
LEMMA TreasuryPctType ==
  ASSUME BondTypes, NEW e \in 1..(MaxEpochs + 1)
  PROVE  TreasuryPct(e) \in 0..100
<1>1. fractions[e] \in {FirstFractions} \cup NewFractions
  BY DEF BondTypes
<1>2. /\ fractions[e].reward["component"] \in Nat /\ fractions[e].reward["agent"] \in Nat
      /\ fractions[e].reward["component"] + fractions[e].reward["agent"] <= 100
  BY <1>1, FractionTypes DEF UnitTypes
<1> DEFINE c == fractions[e].reward["component"]
           a == fractions[e].reward["agent"]
<1>3. c \in Nat /\ a \in Nat /\ c + a <= 100 /\ TreasuryPct(e) = 100 - c - a
  BY <1>2 DEF TreasuryPct
<1> HIDE DEF c, a
<1> QED BY <1>3

\* A top-up that is finalized is a share of the top-ups of its type and epoch.
LEMMA TopUpOfFacts ==
  ASSUME BondTypes, UnitTyped, NEW u \in Units, lastEpoch[u] \in 1..epochCounter,
         pendingTopUp[u] <= sumUnitTopUps[lastEpoch[u]][UnitTypeOf[u]]
  PROVE  TopUpOf(u) \in Nat
<1> DEFINE e == lastEpoch[u]
           t == UnitTypeOf[u]
           p == pendingTopUp[u]
           T == totalTopUpsOLAS[e]
           f == fractions[e].topUp[t]
           s == sumUnitTopUps[e][t]
<1>1. e \in Epochs /\ e \in 1..(MaxEpochs + 1) /\ t \in UnitTypes
  BY UnitConstants, EpochTypes
<1>2. p \in Nat /\ T \in Nat /\ s \in Nat /\ f \in Nat
  <2>1. p \in Nat /\ T \in Nat /\ s \in Nat
    BY <1>1 DEF UnitTyped, BondTypes
  <2>2. fractions[e] \in {FirstFractions} \cup NewFractions
    BY <1>1 DEF BondTypes
  <2> QED BY <1>1, <2>1, <2>2, FractionTypes
<1>3. TopUpOf(u) = IF p = 0 THEN 0 ELSE (p * T * f) \div (100 * s)
  BY DEF TopUpOf
<1>4. p <= s
  OBVIOUS
<1> HIDE DEF p, T, f, s
<1>5. p # 0 => 100 * s \in Nat \ {0}
  BY <1>2, <1>4
<1>6. p * T \in Nat
  BY <1>2
<1>7. (p * T) * f \in Nat
  BY <1>2, <1>6
<1> QED BY <1>3, <1>5, <1>7, QuotientLow

\* Steps that touch no incentive, and change no fraction up to the current epoch, keep the
\* invariant.
LEMMA UnitQuiet ==
  ASSUME BondTypes, UnitInv,
         UNCHANGED <<incentiveVars, epochCounter, totalTopUpsOLAS>>,
         \A e \in 1..epochCounter : fractions'[e] = fractions[e]
  PROVE  UnitInv'
<1>1. /\ UNCHANGED <<pendingReward, pendingTopUp, reward, topUp, lastEpoch, totalDonations,
                     sumUnitTopUps, ETHFromServices, ETHOwned, toppedUp>>
      /\ UNCHANGED <<epochCounter, totalTopUpsOLAS>>
  BY DEF incentiveVars, unitVars, ethVars
<1>2. \A u \in Units : lastEpoch[u] \in Nat /\ lastEpoch[u] <= epochCounter
  BY DEF UnitInv, UnitTyped, UnitPlace
<1>3. \A u \in Units : lastEpoch[u] > 0 => fractions'[lastEpoch[u]] = fractions[lastEpoch[u]]
  <2>1. \A u \in Units : lastEpoch[u] > 0 => lastEpoch[u] \in 1..epochCounter
    BY <1>2, EpochTypes
  <2> QED BY <2>1
<1>4. fractions'[epochCounter] = fractions[epochCounter]
  BY EpochTypes
<1>5. UnitTyped'
  BY <1>1 DEF UnitInv, UnitTyped
<1>6. UnitPlace'
  BY <1>1 DEF UnitInv, UnitPlace
<1>7. RewardBudget'
  <2>1. Earned' = Earned
    <3>1. Earned' = [u \in Units |-> 100 * reward[u] + pendingReward[u] *
              (IF lastEpoch[u] > 0 THEN fractions'[lastEpoch[u]].reward[UnitTypeOf[u]] ELSE 0)]
      BY <1>1 DEF Earned, RewardPct
    <3>2. Earned = [u \in Units |-> 100 * reward[u] + pendingReward[u] *
              (IF lastEpoch[u] > 0 THEN fractions[lastEpoch[u]].reward[UnitTypeOf[u]] ELSE 0)]
      BY DEF Earned, RewardPct
    <3> QED BY <1>3, <3>1, <3>2
  <2>2. TreasuryPct(epochCounter)' = TreasuryPct(epochCounter)
    BY <1>1, <1>4 DEF TreasuryPct
  <2>3. RewardBudget
    BY DEF UnitInv
  <2> HIDE DEF Earned
  <2> QED BY <1>1, <2>1, <2>2, <2>3 DEF RewardBudget
<1>8. TopUpWeights'
  BY <1>1 DEF UnitInv, TopUpWeights, CurrentTopUps
<1>9. TopUpBudget'
  <2>1. \A u \in Units : FinalTopUp(u)' = FinalTopUp(u)
    <3> SUFFICES ASSUME NEW u \in Units
                 PROVE  FinalTopUp(u)' = FinalTopUp(u)
      OBVIOUS
    <3>1. Stale(u)' <=> Stale(u)
      BY <1>1 DEF Stale
    <3>2. CASE Stale(u)
      <4>1. lastEpoch[u] > 0
        BY <3>2, EpochTypes DEF Stale
      <4>2. TopUpOf(u)' = TopUpOf(u)
        BY <1>1, <1>3, <4>1 DEF TopUpOf
      <4> QED BY <1>1, <3>1, <4>2 DEF FinalTopUp
    <3>3. CASE ~Stale(u)
      BY <1>1, <3>1, <3>3 DEF FinalTopUp
    <3> QED BY <3>2, <3>3
  <2>2. FinalTopUps' = FinalTopUps
    BY <2>1 DEF FinalTopUps
  <2>3. \A e \in Settled : TopUpPart(e)' = TopUpPart(e)
    <3>1. \A e \in Settled : e \in 1..epochCounter
      BY EpochTypes DEF Settled
    <3> QED BY <1>1, <3>1 DEF TopUpPart
  <2>4. TopUpParts' = TopUpParts
    BY <1>1, <2>3 DEF TopUpParts, Settled
  <2>5. TopUpBudget
    BY DEF UnitInv
  <2> QED BY <1>1, <2>2, <2>4, <2>5 DEF TopUpBudget
<1> QED BY <1>5, <1>6, <1>7, <1>8, <1>9 DEF UnitInv

\* Nobody has earned anything at first.
LEMMA UnitInitially == Init => UnitInv
<1> SUFFICES ASSUME Init
             PROVE  UnitInv
  OBVIOUS
<1>0. BondTypes
  BY BondInitially DEF BondInv
<1> USE DEF Init, IncentivesInit, NoUnits
<1>1. UnitTyped
  BY UnitConstants DEF UnitTyped
<1>2. epochCounter = 1
  BY DEF InflationInit
<1>3. UnitPlace
  BY <1>2 DEF UnitPlace
<1>4. RewardBudget
  <2>1. \A u \in Units : RewardPct(u) = 0
    BY DEF RewardPct
  <2>2. Earned \in [1..NumUnits -> Int] /\ \A u \in 1..NumUnits : Earned[u] = 0
    BY <2>1, UnitConstants DEF Earned
  <2>3. Total(Earned, NumUnits) = 0
    BY <2>2, UnitConstants, TotalZero
  <2>4. totalDonations[epochCounter] = 0 /\ TreasuryPct(epochCounter) \in 0..100
    BY <1>0, EpochTypes, TreasuryPctType
  <2> QED BY <2>3, <2>4 DEF RewardBudget
<1>5. TopUpWeights
  <2>1. ASSUME NEW t \in UnitTypes
        PROVE  CurrentTopUps(t) <= sumUnitTopUps[epochCounter][t]
    <3> DEFINE f == [u \in Units |-> IF lastEpoch[u] = epochCounter /\ UnitTypeOf[u] = t
                                     THEN pendingTopUp[u] ELSE 0]
    <3>1. f \in [1..NumUnits -> Int] /\ \A u \in 1..NumUnits : f[u] = 0
      BY UnitConstants
    <3> HIDE DEF f
    <3>2. Total(f, NumUnits) = 0
      BY <3>1, UnitConstants, TotalZero
    <3>3. sumUnitTopUps[epochCounter][t] = 0
      BY <1>0, EpochTypes
    <3> QED BY <3>2, <3>3 DEF CurrentTopUps, f
  <2> QED BY <2>1 DEF TopUpWeights
<1>6. TopUpBudget
  <2>1. \A u \in Units : FinalTopUp(u) = 0
    BY DEF FinalTopUp, Stale
  <2>2. FinalTopUps \in [1..NumUnits -> Int] /\ \A u \in 1..NumUnits : FinalTopUps[u] = 0
    BY <2>1, UnitConstants DEF FinalTopUps
  <2>3. Total(FinalTopUps, NumUnits) = 0
    BY <2>2, UnitConstants, TotalZero
  <2>4. Settled = {}
    BY <1>2 DEF Settled
  <2>5. TopUpParts \in [1..MaxEpochs -> Int] /\ \A e \in 1..MaxEpochs : TopUpParts[e] = 0
    BY <2>4, UnitConstants DEF TopUpParts
  <2>6. Total(TopUpParts, MaxEpochs) = 0
    BY <2>5, UnitConstants, TotalZero
  <2> QED BY <2>3, <2>6 DEF TopUpBudget
<1> QED BY <1>1, <1>3, <1>4, <1>5, <1>6 DEF UnitInv

\* A top-up of a settled epoch is a natural number.
LEMMA FinalTopUpType ==
  ASSUME BondTypes, UnitInv
  PROVE  /\ \A u \in Units : FinalTopUp(u) \in Nat
         /\ FinalTopUps \in [1..NumUnits -> Nat] /\ FinalTopUps \in [1..NumUnits -> Int]
<1>1. ASSUME NEW u \in Units
      PROVE  FinalTopUp(u) \in Nat
  <2>1. topUp[u] \in Nat
    BY DEF UnitInv, UnitTyped
  <2>2. CASE Stale(u)
    <3>1. lastEpoch[u] \in 1..epochCounter /\ lastEpoch[u] > 0
      BY <2>2, EpochTypes DEF Stale
    <3>2. TopUpOf(u) \in Nat
      BY <3>1, TopUpOfFacts DEF UnitInv, TopUpWeights
    <3> QED BY <2>1, <3>2 DEF FinalTopUp
  <2> QED BY <2>1, <2>2 DEF FinalTopUp
<1> QED BY <1>1, UnitConstants DEF FinalTopUps

\* The part of an epoch's inflation that is for top-ups.
LEMMA TopUpPartType ==
  ASSUME BondTypes
  PROVE  /\ \A e \in Epochs : TopUpPart(e) \in Nat
         /\ TopUpParts \in [1..MaxEpochs -> Nat] /\ TopUpParts \in [1..MaxEpochs -> Int]
<1>1. ASSUME NEW e \in Epochs
      PROVE  TopUpPart(e) \in Nat
  <2>1. totalTopUpsOLAS[e] \in Nat /\ fractions[e] \in {FirstFractions} \cup NewFractions
    BY UnitConstants DEF BondTypes
  <2>2. fractions[e].topUp["component"] + fractions[e].topUp["agent"] \in Nat
    BY <2>1, FractionTypes DEF UnitTypes
  <2>3. totalTopUpsOLAS[e] * (fractions[e].topUp["component"] + fractions[e].topUp["agent"]) \in Nat
    BY <2>1, <2>2
  <2> QED BY <2>3, QuotientLow DEF TopUpPart
<1> QED BY <1>1, UnitConstants DEF TopUpParts

\* Of sums, one of them counted a hundred times.
LEMMA TotalPercent ==
  ASSUME NEW N \in Nat, NEW f \in [1..N -> Int], NEW g \in [1..N -> Int],
         NEW h \in [1..N -> Int], \A i \in 1..N : h[i] = f[i] + g[i] * 100
  PROVE  Total(h, N) = Total(f, N) + Total(g, N) * 100
<1> DEFINE k == 100
<1>1. k \in Int /\ \A i \in 1..N : h[i] = f[i] + g[i] * k
  OBVIOUS
<1> HIDE DEF k
<1>2. Total(h, N) = Total(f, N) + Total(g, N) * k
  BY ONLY <1>1, N \in Nat, f \in [1..N -> Int], g \in [1..N -> Int], h \in [1..N -> Int],
          TotalSumScaled
<1> QED BY <1>2 DEF k

\* A claim pays a unit out: what it earned before is final, and becomes zero.
LEMMA ClaimUnits ==
  ASSUME BondTypes, UnitInv, NEW S \in SUBSET Units, claimOwnerIncentives(S)
  PROVE  UnitInv'
<1> DEFINE rewards == [u \in 1..NumUnits |-> IF u \in S THEN FinalReward(u) ELSE 0]
           topUps == [u \in 1..NumUnits |-> IF u \in S THEN FinalTopUp(u) ELSE 0]
           R == Total(rewards, NumUnits)
           T == Total(topUps, NumUnits)
           paid == IF R <= ETHFromServices THEN R ELSE 0
<1>0. UnitTyped /\ UnitPlace /\ RewardBudget /\ TopUpWeights /\ TopUpBudget
  BY DEF UnitInv
<1>1. /\ reward' = [u \in Units |-> IF u \in S THEN 0 ELSE reward[u]]
      /\ topUp' = [u \in Units |-> IF u \in S THEN 0 ELSE topUp[u]]
      /\ pendingReward' = [u \in Units |-> IF u \in S /\ Stale(u) THEN 0 ELSE pendingReward[u]]
      /\ pendingTopUp' = [u \in Units |-> IF u \in S /\ Stale(u) THEN 0 ELSE pendingTopUp[u]]
      /\ lastEpoch' = [u \in Units |-> IF u \in S /\ Stale(u) THEN 0 ELSE lastEpoch[u]]
      /\ UNCHANGED <<totalDonations, sumUnitTopUps, ETHOwned>>
      /\ UNCHANGED <<epochCounter, fractions, totalTopUpsOLAS>>
  BY DEF claimOwnerIncentives, inflationVars, paramVars, settleVars
<1>2. ETHFromServices' = ETHFromServices - paid /\ toppedUp' = toppedUp + T
  <2>1. /\ TotalOver(LAMBDA u : IF u \in S THEN FinalReward(u) ELSE 0, NumUnits) = R
        /\ TotalOver(LAMBDA u : IF u \in S THEN FinalTopUp(u) ELSE 0, NumUnits) = T
    BY DEF TotalOver
  <2> HIDE DEF R, T
  <2> QED BY <2>1 DEF claimOwnerIncentives
<1>3. /\ rewards \in [1..NumUnits -> Nat] /\ topUps \in [1..NumUnits -> Nat]
      /\ rewards \in [1..NumUnits -> Int] /\ topUps \in [1..NumUnits -> Int]
  <2>1. \A u \in 1..NumUnits : FinalReward(u) \in Nat /\ FinalTopUp(u) \in Nat
    BY <1>0, UnitConstants, RewardOfFacts, FinalTopUpType
  <2> QED BY <2>1
<1>4. \A u \in Units : /\ rewards[u] = IF u \in S THEN FinalReward(u) ELSE 0
                       /\ topUps[u] = IF u \in S THEN FinalTopUp(u) ELSE 0
  BY UnitConstants
<1> HIDE DEF rewards, topUps
<1>5. R \in Nat /\ T \in Nat
  BY <1>3, UnitConstants, TotalNonNegative
<1> HIDE DEF R, T
<1>6. paid \in Nat /\ paid <= R /\ paid <= ETHFromServices /\ ETHFromServices \in Nat
  BY <1>0, <1>5 DEF UnitTyped
<1> HIDE DEF paid
<1>7. UnitTyped'
  <2>1. /\ pendingReward' \in [Units -> Nat] /\ pendingTopUp' \in [Units -> Nat]
        /\ reward' \in [Units -> Nat] /\ topUp' \in [Units -> Nat]
    BY <1>0, <1>1 DEF UnitTyped
  <2>2. lastEpoch' \in [Units -> 0..MaxEpochs]
    <3>1. 0 \in 0..MaxEpochs
      BY UnitConstants
    <3> QED BY <1>0, <1>1, <3>1 DEF UnitTyped
  <2>3. ETHFromServices' \in Nat /\ toppedUp' \in Nat
    BY <1>0, <1>2, <1>5, <1>6 DEF UnitTyped
  <2> QED BY <1>0, <1>1, <2>1, <2>2, <2>3 DEF UnitTyped
<1>8. UnitPlace'
  <2>1. \A u \in Units : lastEpoch'[u] <= epochCounter
    <3>1. 0 <= epochCounter
      BY EpochTypes
    <3> QED BY <1>0, <1>1, <3>1 DEF UnitPlace
  <2>2. \A u \in Units : lastEpoch'[u] = 0 => pendingReward'[u] = 0 /\ pendingTopUp'[u] = 0
    BY <1>0, <1>1 DEF UnitPlace
  <2> QED BY <1>0, <1>1, <2>1, <2>2 DEF UnitPlace
<1>9. \A u \in Units : /\ lastEpoch[u] \in Nat /\ (Stale(u) => lastEpoch[u] > 0)
                       /\ (Stale(u) => lastEpoch[u] # epochCounter)
                       /\ ~Stale(u)' \/ (Stale(u) /\ u \notin S)
                       /\ u \notin S => (Stale(u)' <=> Stale(u))
  <2> SUFFICES ASSUME NEW u \in Units
               PROVE  /\ lastEpoch[u] \in Nat /\ (Stale(u) => lastEpoch[u] > 0)
                      /\ (Stale(u) => lastEpoch[u] # epochCounter)
                      /\ ~Stale(u)' \/ (Stale(u) /\ u \notin S)
                      /\ u \notin S => (Stale(u)' <=> Stale(u))
    OBVIOUS
  <2>1. lastEpoch[u] \in Nat /\ epochCounter \in Nat
    BY <1>0, EpochTypes DEF UnitTyped
  <2>2. lastEpoch'[u] = IF u \in S /\ Stale(u) THEN 0 ELSE lastEpoch[u]
    BY <1>1
  <2>3. Stale(u) <=> lastEpoch[u] \in 1..(epochCounter - 1)
    BY DEF Stale
  <2>4. Stale(u)' <=> lastEpoch'[u] \in 1..(epochCounter - 1)
    BY <1>1 DEF Stale
  <2> QED BY <2>1, <2>2, <2>3, <2>4
<1>10. RewardBudget'
  <2> DEFINE after == [u \in 1..NumUnits |-> Earned'[u] + rewards[u] * 100]
  <2>1. ASSUME NEW u \in Units
        PROVE  /\ Earned'[u] \in Nat
               /\ Earned'[u] + rewards[u] * 100 <= Earned[u]
    <3> DEFINE p == pendingReward[u] * RewardPct(u)
    <3>1. /\ FinalReward(u) \in Nat /\ p \in Nat /\ reward[u] \in Nat
          /\ 100 * FinalReward(u) <= 100 * reward[u] + p
      BY <1>0, RewardOfFacts DEF UnitTyped
    <3>2. Earned[u] = 100 * reward[u] + p
      BY DEF Earned
    <3>3. Earned'[u] = 100 * reward'[u] + pendingReward'[u] * RewardPct(u)'
      BY DEF Earned
    <3>4. CASE u \in S /\ Stale(u)
      <4>1. reward'[u] = 0 /\ pendingReward'[u] = 0 /\ RewardPct(u)' = 0
        BY <1>1, <3>4 DEF RewardPct
      <4>2. Earned'[u] = 0
        BY <3>3, <4>1
      <4>3. rewards[u] = FinalReward(u)
        BY <1>4, <3>4
      <4> HIDE DEF p
      <4> QED BY <3>1, <3>2, <4>2, <4>3
    <3>5. CASE ~(u \in S /\ Stale(u))
      <4>1. pendingReward'[u] = pendingReward[u] /\ RewardPct(u)' = RewardPct(u)
        BY <1>1, <3>5 DEF RewardPct
      <4>2. Earned'[u] = 100 * reward'[u] + p
        BY <3>3, <4>1
      <4>3. reward'[u] = IF u \in S THEN 0 ELSE reward[u]
        BY <1>1
      <4>4. rewards[u] = IF u \in S THEN reward[u] ELSE 0
        BY <1>4, <3>5 DEF FinalReward
      <4> HIDE DEF p
      <4> QED BY <3>1, <3>2, <4>2, <4>3, <4>4
    <3> QED BY <3>4, <3>5
  <2>2. Earned' \in [1..NumUnits -> Int]
    <3>1. Earned' = [u \in Units |-> 100 * reward'[u] + pendingReward'[u] * RewardPct(u)']
      BY DEF Earned
    <3>2. Earned' = [u \in Units |-> Earned'[u]]
      BY <3>1
    <3>3. \A u \in Units : Earned'[u] \in Int
      BY <2>1
    <3> QED BY <3>2, <3>3, UnitConstants
  <2>3. Earned \in [1..NumUnits -> Int]
    BY <1>0, EarnedType
  <2>4. after \in [1..NumUnits -> Int] /\ \A u \in 1..NumUnits : after[u] = Earned'[u] + rewards[u] * 100
    BY <1>3, <2>2
  <2>5. \A u \in 1..NumUnits : after[u] <= Earned[u]
    BY <2>1, <2>4, UnitConstants
  <2> DEFINE E1 == Earned'
  <2> HIDE DEF after
  <2>6. Total(after, NumUnits) = Total(E1, NumUnits) + Total(rewards, NumUnits) * 100
    <3>1. E1 \in [1..NumUnits -> Int]
      BY <2>2
    <3>2. \A u \in 1..NumUnits : after[u] = E1[u] + rewards[u] * 100
      BY <2>4
    <3>3. after \in [1..NumUnits -> Int]
      BY <2>4
    <3>4. rewards \in [1..NumUnits -> Int]
      BY <1>3
    <3>5. NumUnits \in Nat /\ 100 \in Int
      BY UnitConstants
    <3> HIDE DEF E1
    <3> QED BY ONLY <3>1, <3>2, <3>3, <3>4, <3>5, TotalPercent
  <2>7. Total(after, NumUnits) <= Total(Earned, NumUnits)
    BY <2>3, <2>4, <2>5, UnitConstants, TotalMonotone
  <2>8. Total(E1, NumUnits) \in Int /\ Total(Earned, NumUnits) \in Int
    BY <2>2, <2>3, UnitConstants, TotalType
  <2> DEFINE m == totalDonations[epochCounter] * TreasuryPct(epochCounter)
  <2>9. m \in Int
    <3>1. totalDonations[epochCounter] \in Nat
      BY <1>0, EpochTypes DEF UnitTyped
    <3>2. TreasuryPct(epochCounter) \in 0..100
      BY EpochTypes, TreasuryPctType
    <3> QED BY <3>1, <3>2
  <2>10. Total(Earned, NumUnits) + m <= 100 * ETHFromServices
    BY <1>0 DEF RewardBudget
  <2>11. (totalDonations[epochCounter] * TreasuryPct(epochCounter))' = m
    BY <1>1 DEF TreasuryPct
  <2>12. RewardBudget' <=> Total(E1, NumUnits) + m <= 100 * ETHFromServices'
    <3>1. RewardBudget' <=> Total(E1, NumUnits)
              + (totalDonations[epochCounter] * TreasuryPct(epochCounter))' <= 100 * ETHFromServices'
      BY DEF RewardBudget
    <3> HIDE DEF m, E1
    <3> QED BY <2>11, <3>1
  <2> HIDE DEF m, E1
  <2> QED BY <1>2, <1>5, <1>6, <2>6, <2>7, <2>8, <2>9, <2>10, <2>12 DEF R
<1>11. TopUpWeights'
  <2>1. ASSUME NEW t \in UnitTypes
        PROVE  CurrentTopUps(t)' = CurrentTopUps(t)
    <3>1. \A u \in Units : (IF lastEpoch'[u] = epochCounter' /\ UnitTypeOf[u] = t
                            THEN pendingTopUp'[u] ELSE 0)
                         = (IF lastEpoch[u] = epochCounter /\ UnitTypeOf[u] = t
                            THEN pendingTopUp[u] ELSE 0)
      <4>1. epochCounter # 0
        BY EpochTypes
      <4> QED BY <1>1, <1>9, <4>1
    <3>2. [u \in Units |-> IF lastEpoch'[u] = epochCounter' /\ UnitTypeOf[u] = t
                           THEN pendingTopUp'[u] ELSE 0]
            = [u \in Units |-> IF lastEpoch[u] = epochCounter /\ UnitTypeOf[u] = t
                               THEN pendingTopUp[u] ELSE 0]
      BY <3>1
    <3> QED BY <3>2 DEF CurrentTopUps
  <2>2. \A u \in Units : lastEpoch'[u] > 0 =>
          pendingTopUp'[u] <= sumUnitTopUps'[lastEpoch'[u]][UnitTypeOf[u]]
    BY <1>0, <1>1 DEF TopUpWeights
  <2> QED BY <1>0, <1>1, <2>1, <2>2 DEF TopUpWeights
<1>12. TopUpBudget'
  <2> DEFINE F1 == FinalTopUps'
  <2>1. \A u \in Units : FinalTopUp(u)' = IF u \in S THEN 0 ELSE FinalTopUp(u)
    <3> SUFFICES ASSUME NEW u \in Units
                 PROVE  FinalTopUp(u)' = IF u \in S THEN 0 ELSE FinalTopUp(u)
      OBVIOUS
    <3>1. CASE u \in S
      <4>1. ~Stale(u)' /\ topUp'[u] = 0
        BY <1>1, <1>9, <3>1
      <4> QED BY <3>1, <4>1 DEF FinalTopUp
    <3>2. CASE u \notin S
      <4>1. topUp'[u] = topUp[u] /\ TopUpOf(u)' = TopUpOf(u)
        BY <1>1, <3>2 DEF TopUpOf
      <4>2. Stale(u)' <=> Stale(u)
        BY <1>9, <3>2
      <4> QED BY <3>2, <4>1, <4>2 DEF FinalTopUp
    <3> QED BY <3>1, <3>2
  <2>2. F1 = [u \in Units |-> IF u \in S THEN 0 ELSE FinalTopUp(u)]
    BY <2>1 DEF FinalTopUps
  <2>3. /\ F1 \in [1..NumUnits -> Int] /\ FinalTopUps \in [1..NumUnits -> Int]
        /\ \A u \in 1..NumUnits : FinalTopUps[u] = F1[u] + topUps[u]
    <3>1. \A u \in Units : FinalTopUp(u) \in Nat
      BY FinalTopUpType
    <3>2. \A u \in Units : FinalTopUps[u] = FinalTopUp(u)
      BY DEF FinalTopUps
    <3>3. FinalTopUps \in [1..NumUnits -> Int]
      BY FinalTopUpType
    <3> HIDE DEF F1
    <3>4. F1 \in [1..NumUnits -> Int]
      BY <2>2, <3>1, UnitConstants
    <3>5. \A u \in Units : FinalTopUps[u] = F1[u] + topUps[u]
      <4> SUFFICES ASSUME NEW u \in Units
                   PROVE  FinalTopUps[u] = F1[u] + topUps[u]
        OBVIOUS
      <4>1. F1[u] = IF u \in S THEN 0 ELSE FinalTopUp(u)
        BY <2>2
      <4>2. topUps[u] = IF u \in S THEN FinalTopUp(u) ELSE 0
        BY <1>4
      <4>3. FinalTopUps[u] = FinalTopUp(u) /\ FinalTopUp(u) \in Nat
        BY <3>1, <3>2
      <4> HIDE DEF FinalTopUp, FinalTopUps
      <4> QED BY <4>1, <4>2, <4>3
    <3> QED BY <3>3, <3>4, <3>5, UnitConstants
  <2> HIDE DEF F1
  <2>4. Total(FinalTopUps, NumUnits) = Total(F1, NumUnits) + Total(topUps, NumUnits)
    <3>1. NumUnits \in Nat
      BY UnitConstants
    <3> QED BY ONLY <1>3, <2>3, <3>1, TotalSum
  <2>5. Total(F1, NumUnits) \in Int
    BY <2>3, UnitConstants, TotalType
  <2>6. TopUpParts' = TopUpParts
    BY <1>1 DEF TopUpParts, TopUpPart, Settled
  <2>7. TopUpBudget' <=> toppedUp' + Total(F1, NumUnits) <= Total(TopUpParts, MaxEpochs)
    BY <2>6 DEF TopUpBudget, F1
  <2>8. toppedUp + Total(FinalTopUps, NumUnits) <= Total(TopUpParts, MaxEpochs)
    BY <1>0 DEF TopUpBudget
  <2>9. toppedUp \in Nat
    BY <1>0 DEF UnitTyped
  <2> QED BY <1>2, <1>5, <2>4, <2>5, <2>7, <2>8, <2>9 DEF T
<1> QED BY <1>7, <1>8, <1>10, <1>11, <1>12 DEF UnitInv

\* The units of a service that share a donation, what each of them gets, and the units that
\* the donation reaches.
TypePeers(s, t) == {v \in UnitsOf[s] : UnitTypeOf[v] = t}
PartOf(s, amount, t) == amount \div Cardinality(TypePeers(s, t))
TypeParts(s, amount, t) ==
    [u \in 1..NumUnits |-> IF u \in TypePeers(s, t) THEN PartOf(s, amount, t) ELSE 0]
Touched(s) ==
    {u \in UnitsOf[s] : fractions[epochCounter].reward[UnitTypeOf[u]] > 0
                          \/ fractions[epochCounter].topUp[UnitTypeOf[u]] > 0}
GivenReward(s, amount, u) ==
    IF u \in Touched(s) /\ fractions[epochCounter].reward[UnitTypeOf[u]] > 0
    THEN PartOf(s, amount, UnitTypeOf[u]) ELSE 0
GivenTopUp(s, amount, u) ==
    IF u \in Touched(s) /\ fractions[epochCounter].topUp[UnitTypeOf[u]] > 0
    THEN PartOf(s, amount, UnitTypeOf[u]) ELSE 0
TopUpsGiven(s, amount, t) ==
    [u \in 1..NumUnits |-> IF UnitTypeOf[u] = t THEN GivenTopUp(s, amount, u) ELSE 0]

\* A donation in these terms.
LEMMA DonateFacts ==
  ASSUME NEW s \in Services, NEW amount \in Donations, NEW eligible \in BOOLEAN,
         donate(s, amount, eligible)
  PROVE  /\ \A t \in UnitTypes : TypePeers(s, t) # {}
         /\ ETHFromServices' = ETHFromServices + amount
         /\ totalDonations' = [totalDonations EXCEPT ![epochCounter] = @ + amount]
         /\ reward' = [u \in Units |-> IF u \in Touched(s) THEN FinalReward(u) ELSE reward[u]]
         /\ topUp' = [u \in Units |-> IF u \in Touched(s) THEN FinalTopUp(u) ELSE topUp[u]]
         /\ pendingReward' =
              [u \in Units |-> IF u \in Touched(s)
                               THEN (IF Stale(u) THEN 0 ELSE pendingReward[u])
                                      + GivenReward(s, amount, u)
                               ELSE pendingReward[u]]
         /\ pendingTopUp' =
              [u \in Units |-> IF u \in Touched(s)
                               THEN (IF Stale(u) THEN 0 ELSE pendingTopUp[u])
                                      + (IF eligible THEN GivenTopUp(s, amount, u) ELSE 0)
                               ELSE pendingTopUp[u]]
         /\ sumUnitTopUps' =
              IF eligible
              THEN [sumUnitTopUps EXCEPT ![epochCounter] =
                      [t \in UnitTypes |-> @[t] + Total(TopUpsGiven(s, amount, t), NumUnits)]]
              ELSE sumUnitTopUps
         /\ lastEpoch' = [u \in Units |-> IF u \in Touched(s) THEN epochCounter ELSE lastEpoch[u]]
         /\ UNCHANGED <<epochCounter, fractions, totalTopUpsOLAS, ETHOwned, toppedUp>>
<1> DEFINE f == fractions[epochCounter]
           Part(u) == amount \div Cardinality({v \in UnitsOf[s] : UnitTypeOf[v] = UnitTypeOf[u]})
           touched == {u \in UnitsOf[s] : f.reward[UnitTypeOf[u]] > 0 \/ f.topUp[UnitTypeOf[u]] > 0}
<1>1. touched = Touched(s)
  BY DEF Touched
<1>2. \A u : Part(u) = PartOf(s, amount, UnitTypeOf[u])
  BY DEF PartOf, TypePeers
<1>3. \A t \in UnitTypes : TypePeers(s, t) # {}
  <2>1. \A t \in UnitTypes : \E u \in UnitsOf[s] : UnitTypeOf[u] = t
    BY DEF donate
  <2> QED BY <2>1 DEF TypePeers
<1>4. /\ ETHFromServices' = ETHFromServices + amount
      /\ totalDonations' = [totalDonations EXCEPT ![epochCounter] = @ + amount]
      /\ reward' = [u \in Units |-> IF u \in touched THEN FinalReward(u) ELSE reward[u]]
      /\ topUp' = [u \in Units |-> IF u \in touched THEN FinalTopUp(u) ELSE topUp[u]]
      /\ lastEpoch' = [u \in Units |-> IF u \in touched THEN epochCounter ELSE lastEpoch[u]]
      /\ UNCHANGED <<epochCounter, fractions, totalTopUpsOLAS, ETHOwned, toppedUp>>
  BY DEF donate, inflationVars, paramVars, settleVars
<1>5. pendingReward' =
        [u \in Units |-> IF u \notin touched THEN pendingReward[u]
                         ELSE (IF Stale(u) THEN 0 ELSE pendingReward[u])
                                + (IF f.reward[UnitTypeOf[u]] > 0 THEN Part(u) ELSE 0)]
  BY DEF donate
<1>6. pendingTopUp' =
        [u \in Units |-> IF u \notin touched THEN pendingTopUp[u]
                         ELSE (IF Stale(u) THEN 0 ELSE pendingTopUp[u])
                                + (IF eligible /\ f.topUp[UnitTypeOf[u]] > 0 THEN Part(u) ELSE 0)]
  BY DEF donate
<1>7. sumUnitTopUps' =
        IF eligible
        THEN [sumUnitTopUps EXCEPT ![epochCounter] =
                [t \in UnitTypes |->
                   @[t] + Total([u \in 1..NumUnits |->
                                   IF u \in touched /\ UnitTypeOf[u] = t /\ f.topUp[UnitTypeOf[u]] > 0
                                   THEN Part(u) ELSE 0], NumUnits)]]
        ELSE sumUnitTopUps
  BY DEF donate, TotalOver
<1>8. \A t : [u \in 1..NumUnits |->
                IF u \in touched /\ UnitTypeOf[u] = t /\ f.topUp[UnitTypeOf[u]] > 0
                THEN Part(u) ELSE 0] = TopUpsGiven(s, amount, t)
  <2> HIDE DEF Part
  <2> SUFFICES ASSUME NEW t
               PROVE  [u \in 1..NumUnits |->
                         IF u \in touched /\ UnitTypeOf[u] = t /\ f.topUp[UnitTypeOf[u]] > 0
                         THEN Part(u) ELSE 0] = TopUpsGiven(s, amount, t)
    OBVIOUS
  <2>1. \A u : (IF u \in touched /\ UnitTypeOf[u] = t /\ f.topUp[UnitTypeOf[u]] > 0
                THEN Part(u) ELSE 0)
             = (IF UnitTypeOf[u] = t THEN GivenTopUp(s, amount, u) ELSE 0)
    BY <1>1, <1>2 DEF GivenTopUp
  <2> HIDE DEF touched
  <2> QED BY <2>1 DEF TopUpsGiven
<1> HIDE DEF Part, touched
<1>9. \A u : /\ (IF f.reward[UnitTypeOf[u]] > 0 THEN Part(u) ELSE 0) = GivenReward(s, amount, u)
                 \/ u \notin Touched(s)
             /\ (IF eligible /\ f.topUp[UnitTypeOf[u]] > 0 THEN Part(u) ELSE 0)
                  = (IF eligible THEN GivenTopUp(s, amount, u) ELSE 0)
                 \/ u \notin Touched(s)
  BY <1>2 DEF GivenReward, GivenTopUp
<1>10. pendingReward' =
         [u \in Units |-> IF u \in Touched(s)
                          THEN (IF Stale(u) THEN 0 ELSE pendingReward[u])
                                 + GivenReward(s, amount, u)
                          ELSE pendingReward[u]]
  BY <1>1, <1>5, <1>9
<1>11. pendingTopUp' =
         [u \in Units |-> IF u \in Touched(s)
                          THEN (IF Stale(u) THEN 0 ELSE pendingTopUp[u])
                                 + (IF eligible THEN GivenTopUp(s, amount, u) ELSE 0)
                          ELSE pendingTopUp[u]]
  BY <1>1, <1>6, <1>9
<1> QED BY <1>1, <1>3, <1>4, <1>7, <1>8, <1>10, <1>11

\* What a donation gives: parts of the amount, per type no more than the amount together.
LEMMA DonateTypes ==
  ASSUME BondTypes, NEW s \in Services, NEW amount \in Donations,
         \A t \in UnitTypes : TypePeers(s, t) # {}
  PROVE  /\ amount \in Nat
         /\ \A t \in UnitTypes : /\ PartOf(s, amount, t) \in Nat
                                 /\ TypeParts(s, amount, t) \in [1..NumUnits -> Nat]
                                 /\ TypeParts(s, amount, t) \in [1..NumUnits -> Int]
                                 /\ Total(TypeParts(s, amount, t), NumUnits) \in Nat
                                 /\ Total(TypeParts(s, amount, t), NumUnits) <= amount
         /\ \A u \in Units : /\ GivenReward(s, amount, u) \in Nat
                             /\ GivenTopUp(s, amount, u) \in Nat
                             /\ GivenReward(s, amount, u)
                                  <= TypeParts(s, amount, UnitTypeOf[u])[u]
         /\ \A t \in UnitTypes : /\ TopUpsGiven(s, amount, t) \in [1..NumUnits -> Nat]
                                 /\ TopUpsGiven(s, amount, t) \in [1..NumUnits -> Int]
                                 /\ Total(TopUpsGiven(s, amount, t), NumUnits) \in Nat
<1>1. amount \in Nat /\ NumUnits \in Nat
  BY UnitAssumption
<1>2. ASSUME NEW t \in UnitTypes
      PROVE  /\ PartOf(s, amount, t) \in Nat
             /\ TypeParts(s, amount, t) \in [1..NumUnits -> Nat]
             /\ TypeParts(s, amount, t) \in [1..NumUnits -> Int]
             /\ Total(TypeParts(s, amount, t), NumUnits) \in Nat
             /\ Total(TypeParts(s, amount, t), NumUnits) <= amount
  <2> DEFINE P == TypePeers(s, t)
  <2>1. P \subseteq 1..NumUnits /\ P # {}
    BY UnitConstants DEF TypePeers
  <2>2. TypeParts(s, amount, t)
          = [i \in 1..NumUnits |-> IF i \in P THEN amount \div Cardinality(P) ELSE 0]
    BY DEF TypeParts, PartOf
  <2>3. PartOf(s, amount, t) = amount \div Cardinality(P)
    BY DEF PartOf
  <2> HIDE DEF P
  <2>4. /\ amount \div Cardinality(P) \in Nat
        /\ Total(TypeParts(s, amount, t), NumUnits) <= amount
    BY <1>1, <2>1, <2>2, PartsWithin
  <2>5. TypeParts(s, amount, t) \in [1..NumUnits -> Nat]
    BY <2>2, <2>4
  <2>6. TypeParts(s, amount, t) \in [1..NumUnits -> Int]
    BY <2>5
  <2>7. Total(TypeParts(s, amount, t), NumUnits) \in Nat
    BY <1>1, <2>5, TotalNonNegative
  <2> QED BY <2>3, <2>4, <2>5, <2>6, <2>7
<1>3. ASSUME NEW u \in Units
      PROVE  /\ GivenReward(s, amount, u) \in Nat
             /\ GivenTopUp(s, amount, u) \in Nat
             /\ GivenReward(s, amount, u) <= TypeParts(s, amount, UnitTypeOf[u])[u]
  <2>1. UnitTypeOf[u] \in UnitTypes /\ u \in 1..NumUnits
    BY UnitConstants
  <2>2. PartOf(s, amount, UnitTypeOf[u]) \in Nat
    BY <1>2, <2>1
  <2>3. u \in Touched(s) => u \in TypePeers(s, UnitTypeOf[u])
    BY DEF Touched, TypePeers
  <2>4. TypeParts(s, amount, UnitTypeOf[u])[u]
          = IF u \in TypePeers(s, UnitTypeOf[u]) THEN PartOf(s, amount, UnitTypeOf[u]) ELSE 0
    BY <2>1 DEF TypeParts
  <2> QED BY <2>2, <2>3, <2>4 DEF GivenReward, GivenTopUp
<1>4. ASSUME NEW t \in UnitTypes
      PROVE  /\ TopUpsGiven(s, amount, t) \in [1..NumUnits -> Nat]
             /\ TopUpsGiven(s, amount, t) \in [1..NumUnits -> Int]
             /\ Total(TopUpsGiven(s, amount, t), NumUnits) \in Nat
  <2>1. TopUpsGiven(s, amount, t) \in [1..NumUnits -> Nat]
    BY <1>3, UnitConstants DEF TopUpsGiven
  <2>2. Total(TopUpsGiven(s, amount, t), NumUnits) \in Nat
    BY <1>1, <2>1, TotalNonNegative
  <2> QED BY <2>1, <2>2
<1> QED BY <1>1, <1>2, <1>3, <1>4

\* What a unit earns by a donation is at most the percentage of its part.
LEMMA DonateEarns ==
  ASSUME BondTypes, UnitInv, NEW s \in Services, NEW amount \in Donations,
         NEW eligible \in BOOLEAN, donate(s, amount, eligible), NEW u \in Units
  PROVE  /\ Earned'[u] \in Nat
         /\ Earned'[u] <= Earned[u] + TypeParts(s, amount, UnitTypeOf[u])[u]
                                        * fractions[epochCounter].reward[UnitTypeOf[u]]
<1> DEFINE e == epochCounter
           t == UnitTypeOf[u]
           pct == fractions[epochCounter].reward[t]
           g == GivenReward(s, amount, u)
           p == TypeParts(s, amount, t)[u]
           q == pendingReward[u] * RewardPct(u)
<1>0. UnitTyped /\ UnitPlace
  BY DEF UnitInv
<1>1. t \in UnitTypes /\ u \in 1..NumUnits
  BY UnitConstants
<1>2. pct \in Nat
  <2>1. fractions[epochCounter] \in {FirstFractions} \cup NewFractions
    BY EpochTypes
  <2> QED BY <1>1, <2>1, FractionTypes
<1>3. g \in Nat /\ g <= p /\ p \in Nat
  <2>1. \A v \in UnitTypes : TypePeers(s, v) # {}
    BY DonateFacts
  <2>2. g \in Nat /\ g <= TypeParts(s, amount, UnitTypeOf[u])[u]
    BY <2>1, DonateTypes
  <2>3. TypeParts(s, amount, t) \in [1..NumUnits -> Nat]
    BY <1>1, <2>1, DonateTypes
  <2>4. p \in Nat
    BY <1>1, <2>3
  <2> QED BY <2>2, <2>4
<1>4. /\ FinalReward(u) \in Nat /\ q \in Nat /\ reward[u] \in Nat /\ pendingReward[u] \in Nat
      /\ 100 * FinalReward(u) <= 100 * reward[u] + q
  BY <1>0, RewardOfFacts DEF UnitTyped
<1>5. Earned[u] = 100 * reward[u] + q
  BY DEF Earned
<1>6. Earned'[u] = 100 * reward'[u] + pendingReward'[u] * RewardPct(u)'
  BY DEF Earned
<1>7. /\ reward'[u] = IF u \in Touched(s) THEN FinalReward(u) ELSE reward[u]
      /\ pendingReward'[u] = IF u \in Touched(s)
                             THEN (IF Stale(u) THEN 0 ELSE pendingReward[u]) + g
                             ELSE pendingReward[u]
      /\ lastEpoch'[u] = IF u \in Touched(s) THEN e ELSE lastEpoch[u]
      /\ fractions' = fractions
  BY DonateFacts
<1>8. p * pct \in Nat /\ g * pct \in Nat /\ g * pct <= p * pct
  BY <1>2, <1>3, ProductMono
<1>9. e \in Nat /\ e > 0 /\ lastEpoch[u] \in Nat /\ lastEpoch[u] <= e
  BY <1>0, EpochTypes DEF UnitTyped, UnitPlace
<1>10. CASE u \notin Touched(s)
  <2>1. reward'[u] = reward[u] /\ pendingReward'[u] = pendingReward[u]
        /\ RewardPct(u)' = RewardPct(u)
    BY <1>7, <1>10 DEF RewardPct
  <2>2. Earned'[u] = Earned[u] /\ Earned[u] \in Nat
    BY <1>4, <1>5, <1>6, <2>1
  <2> HIDE DEF p, pct
  <2> QED BY <1>8, <2>2 DEF p, pct, t
<1>11. CASE u \in Touched(s) /\ Stale(u)
  <2>1. reward'[u] = FinalReward(u) /\ pendingReward'[u] = g /\ RewardPct(u)' = pct
    BY <1>3, <1>7, <1>9, <1>11 DEF RewardPct
  <2>2. Earned'[u] = 100 * FinalReward(u) + g * pct
    BY <1>6, <2>1
  <2> HIDE DEF p, pct, g, q
  <2>3. Earned'[u] \in Nat /\ Earned'[u] <= Earned[u] + p * pct
    BY <1>4, <1>5, <1>8, <2>2
  <2> QED BY <2>3 DEF p, pct, t
<1>12. CASE u \in Touched(s) /\ ~Stale(u)
  <2>1. reward'[u] = reward[u] /\ pendingReward'[u] = pendingReward[u] + g /\ RewardPct(u)' = pct
    BY <1>3, <1>7, <1>9, <1>12 DEF RewardPct, FinalReward
  <2>2. q = pendingReward[u] * pct
    <3>1. CASE lastEpoch[u] = 0
      <4>1. pendingReward[u] = 0 /\ RewardPct(u) = 0
        BY <1>0, <3>1 DEF UnitPlace, RewardPct
      <4> QED BY <1>2, <4>1
    <3>2. CASE lastEpoch[u] # 0
      <4>1. lastEpoch[u] = e
        BY <1>9, <1>12, <3>2 DEF Stale
      <4>2. RewardPct(u) = pct
        BY <1>9, <4>1 DEF RewardPct
      <4> QED BY <4>2
    <3> QED BY <3>1, <3>2
  <2>3. Earned'[u] = 100 * reward[u] + (pendingReward[u] + g) * pct
    BY <1>6, <2>1
  <2> HIDE DEF pct, g
  <2>4. (pendingReward[u] + g) * pct = pendingReward[u] * pct + g * pct
    BY <1>2, <1>3, <1>4
  <2> HIDE DEF p, q
  <2>5. Earned'[u] = 100 * reward[u] + (q + g * pct)
    BY <2>2, <2>3, <2>4
  <2>6. Earned'[u] \in Nat /\ Earned'[u] <= Earned[u] + p * pct
    BY <1>4, <1>5, <1>8, <2>5
  <2> QED BY <2>6 DEF p, pct, t
<1> QED BY <1>10, <1>11, <1>12

\* Arithmetic of the treasury's and the units' percentages.
LEMMA DonationSplit ==
  ASSUME NEW a \in Nat, NEW d \in Nat, NEW c \in Nat, NEW g \in Nat, c + g <= 100,
         NEW x \in Int, NEW y \in Int, NEW pc \in Nat, NEW pa \in Nat, pc <= a, pa <= a,
         NEW m \in Int, y <= x + pc * c + pa * g, x + d * (100 - c - g) <= 100 * m
  PROVE  y + (d + a) * (100 - c - g) <= 100 * (m + a)
<1> DEFINE r == 100 - c - g
<1>1. r \in Nat /\ r + c + g = 100
  OBVIOUS
<1>2. pc * c <= a * c /\ pa * g <= a * g
  BY ProductMono
<1>3. /\ a * r + a * c + a * g = a * (r + c + g)
      /\ (d + a) * r = d * r + a * r
  BY <1>1
<1>4. a * (r + c + g) = 100 * a
  BY <1>1
<1>5. a * r \in Nat /\ a * c \in Nat /\ a * g \in Nat /\ d * r \in Nat
      /\ pc * c \in Nat /\ pa * g \in Nat /\ (d + a) * r \in Int
  BY <1>1
<1>6. x + d * r <= 100 * m
  OBVIOUS
<1> HIDE DEF r
<1>7. y + (d + a) * r <= 100 * (m + a)
  BY <1>2, <1>3, <1>4, <1>5, <1>6
<1> QED BY <1>7 DEF r

\* A donation adds to what the units of the service earned and to the sums of the top-ups.
LEMMA DonateUnits ==
  ASSUME BondTypes, UnitInv, NEW s \in Services, NEW amount \in Donations,
         NEW eligible \in BOOLEAN, donate(s, amount, eligible)
  PROVE  UnitInv'
<1> DEFINE e == epochCounter
           f == fractions[epochCounter]
<1>0. UnitTyped /\ UnitPlace /\ RewardBudget /\ TopUpWeights /\ TopUpBudget
  BY DEF UnitInv
<1>1. /\ ETHFromServices' = ETHFromServices + amount
      /\ totalDonations' = [totalDonations EXCEPT ![e] = @ + amount]
      /\ reward' = [u \in Units |-> IF u \in Touched(s) THEN FinalReward(u) ELSE reward[u]]
      /\ topUp' = [u \in Units |-> IF u \in Touched(s) THEN FinalTopUp(u) ELSE topUp[u]]
      /\ pendingReward' =
           [u \in Units |-> IF u \in Touched(s)
                            THEN (IF Stale(u) THEN 0 ELSE pendingReward[u])
                                   + GivenReward(s, amount, u)
                            ELSE pendingReward[u]]
      /\ pendingTopUp' =
           [u \in Units |-> IF u \in Touched(s)
                            THEN (IF Stale(u) THEN 0 ELSE pendingTopUp[u])
                                   + (IF eligible THEN GivenTopUp(s, amount, u) ELSE 0)
                            ELSE pendingTopUp[u]]
      /\ sumUnitTopUps' =
           IF eligible
           THEN [sumUnitTopUps EXCEPT ![e] =
                   [t \in UnitTypes |-> @[t] + Total(TopUpsGiven(s, amount, t), NumUnits)]]
           ELSE sumUnitTopUps
      /\ lastEpoch' = [u \in Units |-> IF u \in Touched(s) THEN e ELSE lastEpoch[u]]
      /\ UNCHANGED <<epochCounter, fractions, totalTopUpsOLAS, ETHOwned, toppedUp>>
  BY DonateFacts
<1>2. \A t \in UnitTypes : TypePeers(s, t) # {}
  BY DonateFacts
<1>3. /\ amount \in Nat
      /\ \A u \in Units : GivenReward(s, amount, u) \in Nat /\ GivenTopUp(s, amount, u) \in Nat
      /\ \A t \in UnitTypes : /\ TopUpsGiven(s, amount, t) \in [1..NumUnits -> Int]
                              /\ Total(TopUpsGiven(s, amount, t), NumUnits) \in Nat
  BY <1>2, DonateTypes
<1>4. e \in Nat /\ e > 0 /\ e \in Epochs /\ e \in 0..MaxEpochs
  BY EpochTypes, UnitConstants DEF BondTypes
<1>5. \A u \in Units : FinalReward(u) \in Nat /\ FinalTopUp(u) \in Nat
  BY <1>0, RewardOfFacts, FinalTopUpType
<1>6. \A u \in Units : lastEpoch[u] \in Nat /\ lastEpoch[u] <= e
  BY <1>0, UnitConstants DEF UnitTyped, UnitPlace
<1>7. UnitTyped'
  <2>1. /\ reward' \in [Units -> Nat] /\ topUp' \in [Units -> Nat]
    BY <1>0, <1>1, <1>5 DEF UnitTyped
  <2>2. pendingReward' \in [Units -> Nat]
    <3>1. \A u \in Units : pendingReward[u] \in Nat
      BY <1>0 DEF UnitTyped
    <3> QED BY <1>1, <1>3, <3>1
  <2>3. pendingTopUp' \in [Units -> Nat]
    <3>1. \A u \in Units : pendingTopUp[u] \in Nat
      BY <1>0 DEF UnitTyped
    <3> QED BY <1>1, <1>3, <3>1
  <2>4. lastEpoch' \in [Units -> 0..MaxEpochs]
    <3>1. \A u \in Units : lastEpoch[u] \in 0..MaxEpochs
      BY <1>0 DEF UnitTyped
    <3> QED BY <1>1, <1>4, <3>1
  <2>5. totalDonations' \in [Epochs -> Nat]
    <3>1. totalDonations \in [Epochs -> Nat]
      BY <1>0 DEF UnitTyped
    <3> QED BY <1>1, <1>3, <1>4, <3>1
  <2>6. sumUnitTopUps' \in [Epochs -> [UnitTypes -> Nat]]
    <3>1. sumUnitTopUps \in [Epochs -> [UnitTypes -> Nat]]
      BY <1>0 DEF UnitTyped
    <3> DEFINE new == [t \in UnitTypes |-> sumUnitTopUps[e][t]
                                            + Total(TopUpsGiven(s, amount, t), NumUnits)]
    <3>2. new \in [UnitTypes -> Nat]
      BY <1>3, <1>4, <3>1
    <3>3. sumUnitTopUps' = IF eligible THEN [sumUnitTopUps EXCEPT ![e] = new] ELSE sumUnitTopUps
      BY <1>1
    <3> HIDE DEF new
    <3> QED BY <1>4, <3>1, <3>2, <3>3
  <2>7. ETHFromServices' \in Nat /\ ETHOwned' \in Nat /\ toppedUp' \in Nat
    BY <1>0, <1>1, <1>3 DEF UnitTyped
  <2> QED BY <2>1, <2>2, <2>3, <2>4, <2>5, <2>6, <2>7 DEF UnitTyped
<1>8. UnitPlace'
  <2>1. \A u \in Units : lastEpoch'[u] <= e
    BY <1>1, <1>4, <1>6
  <2>2. \A u \in Units : lastEpoch'[u] = 0 => pendingReward'[u] = 0 /\ pendingTopUp'[u] = 0
    BY <1>0, <1>1, <1>4 DEF UnitPlace
  <2>3. \A k \in Epochs : k > e => totalDonations'[k] = totalDonations[k]
                                   /\ sumUnitTopUps'[k] = sumUnitTopUps[k]
    BY <1>0, <1>1, <1>4 DEF UnitTyped
  <2>4. \A k \in Epochs : k > e =>
          totalDonations'[k] = 0 /\ \A t \in UnitTypes : sumUnitTopUps'[k][t] = 0
    BY <1>0, <2>3 DEF UnitPlace
  <2>5. epochCounter' = e
    BY <1>1
  <2> HIDE DEF e
  <2> QED BY <2>1, <2>2, <2>4, <2>5 DEF UnitPlace
<1>9. f \in {FirstFractions} \cup NewFractions
  BY EpochTypes
<1>10. RewardBudget'
  <2> DEFINE rc == f.reward["component"]
             ra == f.reward["agent"]
             pc == TypeParts(s, amount, "component")
             pa == TypeParts(s, amount, "agent")
             E0 == Earned
             E1 == Earned'
             h1 == [u \in 1..NumUnits |-> E0[u] + pc[u] * rc]
             h2 == [u \in 1..NumUnits |-> h1[u] + pa[u] * ra]
  <2>1. rc \in Nat /\ ra \in Nat /\ rc + ra <= 100
    BY <1>9, FractionTypes DEF UnitTypes
  <2>2. /\ pc \in [1..NumUnits -> Nat] /\ pa \in [1..NumUnits -> Nat]
        /\ pc \in [1..NumUnits -> Int] /\ pa \in [1..NumUnits -> Int]
        /\ Total(pc, NumUnits) \in Nat /\ Total(pc, NumUnits) <= amount
        /\ Total(pa, NumUnits) \in Nat /\ Total(pa, NumUnits) <= amount
    BY <1>2, DonateTypes DEF UnitTypes
  <2>3. E0 \in [1..NumUnits -> Nat] /\ E0 \in [1..NumUnits -> Int]
    BY <1>0, EarnedType
  <2>4. \A u \in 1..NumUnits : /\ E1[u] \in Nat
                               /\ E1[u] <= E0[u] + TypeParts(s, amount, UnitTypeOf[u])[u]
                                                     * f.reward[UnitTypeOf[u]]
    BY UnitConstants, DonateEarns
  <2>5. E1 \in [1..NumUnits -> Int]
    <3>1. Earned' = [u \in Units |-> 100 * reward'[u] + pendingReward'[u] * RewardPct(u)']
      BY DEF Earned
    <3>2. Earned' = [u \in Units |-> Earned'[u]]
      BY <3>1
    <3> QED BY <2>4, <3>2, UnitConstants
  <2> HIDE DEF E1, E0
  <2>6. \A u \in 1..NumUnits : UnitTypeOf[u] = "component" \/ UnitTypeOf[u] = "agent"
    BY UnitConstants
  <2>7. \A u \in 1..NumUnits : E1[u] <= E0[u] + pc[u] * rc \/ E1[u] <= E0[u] + pa[u] * ra
    BY <2>4, <2>6
  <2> HIDE DEF pc, pa, rc, ra
  <2>8. \A u \in 1..NumUnits : pc[u] * rc \in Nat /\ pa[u] * ra \in Nat
    BY <2>1, <2>2
  <2>9. h1 \in [1..NumUnits -> Int] /\ \A u \in 1..NumUnits : h1[u] = E0[u] + pc[u] * rc
    BY <2>3, <2>8
  <2> HIDE DEF h1
  <2>10. h2 \in [1..NumUnits -> Int] /\ \A u \in 1..NumUnits : h2[u] = h1[u] + pa[u] * ra
    BY <2>8, <2>9
  <2> HIDE DEF h2
  <2>11. \A u \in 1..NumUnits : E1[u] <= h2[u]
    <3> SUFFICES ASSUME NEW u \in 1..NumUnits
                 PROVE  E1[u] <= h2[u]
      OBVIOUS
    <3> DEFINE x == pc[u] * rc
               y == pa[u] * ra
    <3>1. x \in Nat /\ y \in Nat
      BY <2>8
    <3>2. h2[u] = (E0[u] + x) + y
      BY <2>9, <2>10
    <3>3. E1[u] <= E0[u] + x \/ E1[u] <= E0[u] + y
      BY <2>7
    <3>4. E0[u] \in Nat /\ E1[u] \in Int
      BY <2>3, <2>5
    <3> HIDE DEF x, y
    <3> QED BY <3>1, <3>2, <3>3, <3>4
  <2>12. Total(E1, NumUnits) <= Total(h2, NumUnits)
    BY <2>5, <2>10, <2>11, UnitConstants, TotalMonotone
  <2>13. NumUnits \in Nat /\ rc \in Int /\ ra \in Int
    BY <2>1, UnitConstants
  <2>14. Total(h1, NumUnits) = Total(E0, NumUnits) + Total(pc, NumUnits) * rc
    BY ONLY <2>2, <2>3, <2>9, <2>13, TotalSumScaled
  <2>15. Total(h2, NumUnits) = Total(h1, NumUnits) + Total(pa, NumUnits) * ra
    BY ONLY <2>2, <2>9, <2>10, <2>13, TotalSumScaled
  <2>16. Total(E0, NumUnits) \in Int /\ Total(E1, NumUnits) \in Int
    BY <2>3, <2>5, UnitConstants, TotalType
  <2> DEFINE d == totalDonations[e]
             x == Total(E0, NumUnits)
             y == Total(E1, NumUnits)
             tc == Total(pc, NumUnits)
             ta == Total(pa, NumUnits)
  <2>17. d \in Nat /\ ETHFromServices \in Int
    BY <1>0, <1>4 DEF UnitTyped
  <2>18. y <= x + tc * rc + ta * ra
    BY <2>12, <2>14, <2>15
  <2>19. x + d * (100 - rc - ra) <= 100 * ETHFromServices
    BY <1>0 DEF RewardBudget, TreasuryPct, E0, rc, ra
  <2>20. y + (d + amount) * (100 - rc - ra) <= 100 * (ETHFromServices + amount)
    <3> HIDE DEF d, x, y, tc, ta
    <3>1. /\ d \in Nat /\ ETHFromServices \in Int /\ y <= x + tc * rc + ta * ra
          /\ x + d * (100 - rc - ra) <= 100 * ETHFromServices
      BY <2>17, <2>18, <2>19
    <3>2. x \in Int /\ y \in Int
      BY <2>16 DEF x, y
    <3>3. tc \in Nat /\ ta \in Nat /\ tc <= amount /\ ta <= amount
      BY <2>2 DEF tc, ta
    <3>4. amount \in Nat
      BY <1>3
    <3> QED BY ONLY <2>1, <3>1, <3>2, <3>3, <3>4, DonationSplit
  <2>21. totalDonations'[e] = d + amount
    BY <1>0, <1>1, <1>4 DEF UnitTyped
  <2>22. TreasuryPct(e)' = 100 - rc - ra
    BY <1>1 DEF TreasuryPct, rc, ra
  <2>23. Total(Earned, NumUnits)' = y
    BY DEF E1
  <2> HIDE DEF d, x, y
  <2> QED BY <1>1, <2>20, <2>21, <2>22, <2>23 DEF RewardBudget
<1>11. TopUpWeights'
  <2>1. ASSUME NEW t \in UnitTypes
        PROVE  /\ CurrentTopUps(t)' <= sumUnitTopUps'[e][t]
               /\ \A u \in Units : lastEpoch'[u] = e /\ UnitTypeOf[u] = t =>
                    pendingTopUp'[u] <= sumUnitTopUps'[e][t]
    <3> DEFINE cur == [u \in Units |-> IF lastEpoch[u] = e /\ UnitTypeOf[u] = t
                                       THEN pendingTopUp[u] ELSE 0]
               new == [u \in Units |-> IF lastEpoch'[u] = e /\ UnitTypeOf[u] = t
                                       THEN pendingTopUp'[u] ELSE 0]
               g == TopUpsGiven(s, amount, t)
    <3>1. cur \in [1..NumUnits -> Nat] /\ new \in [1..NumUnits -> Nat]
      BY <1>0, <1>7, UnitConstants DEF UnitTyped
    <3>2. cur \in [1..NumUnits -> Int] /\ new \in [1..NumUnits -> Int]
      BY <3>1
    <3>3. g \in [1..NumUnits -> Int] /\ Total(g, NumUnits) \in Nat
      BY <1>3
    <3>4. \A u \in 1..NumUnits : new[u] = cur[u] + (IF eligible THEN g[u] ELSE 0)
      <4> SUFFICES ASSUME NEW u \in Units
                   PROVE  new[u] = cur[u] + (IF eligible THEN g[u] ELSE 0)
        BY UnitConstants
      <4>1. g[u] = IF UnitTypeOf[u] = t THEN GivenTopUp(s, amount, u) ELSE 0
        BY UnitConstants DEF TopUpsGiven
      <4>2. GivenTopUp(s, amount, u) \in Nat /\ pendingTopUp[u] \in Nat
        BY <1>0, <1>3 DEF UnitTyped
      <4>3. /\ new[u] = IF lastEpoch'[u] = e /\ UnitTypeOf[u] = t THEN pendingTopUp'[u] ELSE 0
            /\ cur[u] = IF lastEpoch[u] = e /\ UnitTypeOf[u] = t THEN pendingTopUp[u] ELSE 0
        OBVIOUS
      <4>4. /\ lastEpoch'[u] = IF u \in Touched(s) THEN e ELSE lastEpoch[u]
            /\ pendingTopUp'[u] = IF u \in Touched(s)
                                  THEN (IF Stale(u) THEN 0 ELSE pendingTopUp[u])
                                         + (IF eligible THEN GivenTopUp(s, amount, u) ELSE 0)
                                  ELSE pendingTopUp[u]
        BY <1>1
      <4>5. u \notin Touched(s) => GivenTopUp(s, amount, u) = 0
        BY DEF GivenTopUp
      <4>6. /\ Stale(u) => lastEpoch[u] # e
            /\ ~Stale(u) => lastEpoch[u] = 0 \/ lastEpoch[u] = e
            /\ lastEpoch[u] = 0 => pendingTopUp[u] = 0
        BY <1>0, <1>4, <1>6 DEF Stale, UnitPlace
      <4> HIDE DEF new, cur, g
      <4> QED BY <1>4, <4>1, <4>2, <4>3, <4>4, <4>5, <4>6
    <3>5. CurrentTopUps(t) = Total(cur, NumUnits)
      BY DEF CurrentTopUps
    <3>6. CurrentTopUps(t)' = Total(new, NumUnits)
      BY <1>1 DEF CurrentTopUps
    <3>7. \A u \in Units : new[u] <= Total(new, NumUnits)
      <4> HIDE DEF new
      <4> QED BY <3>1, UnitConstants, TotalNonNegative
    <3>8. \A u \in Units : lastEpoch'[u] = e /\ UnitTypeOf[u] = t => pendingTopUp'[u] = new[u]
      OBVIOUS
    <3> HIDE DEF new, cur
    <3>9. NumUnits \in Nat
      BY UnitConstants
    <3>10. Total(new, NumUnits) = Total(cur, NumUnits)
                                    + (IF eligible THEN Total(g, NumUnits) ELSE 0)
      <4>1. CASE eligible
        <5>1. \A u \in 1..NumUnits : new[u] = cur[u] + g[u]
          BY <3>4, <4>1
        <5> HIDE DEF g
        <5>2. Total(new, NumUnits) = Total(cur, NumUnits) + Total(g, NumUnits)
          BY ONLY <3>2, <3>3, <3>9, <5>1, TotalSum
        <5> QED BY <4>1, <5>2
      <4>2. CASE ~eligible
        <5>1. \A u \in 1..NumUnits : new[u] = cur[u]
          BY <3>2, <3>4, <4>2
        <5>2. new = cur
          BY ONLY <3>2, <3>9, <5>1
        <5>3. Total(cur, NumUnits) \in Int
          BY <3>2, <3>9, TotalType
        <5> QED BY <4>2, <5>2, <5>3
      <4> QED BY <4>1, <4>2
    <3>11. sumUnitTopUps'[e][t] = sumUnitTopUps[e][t]
                                    + (IF eligible THEN Total(g, NumUnits) ELSE 0)
      <4>1. sumUnitTopUps \in [Epochs -> [UnitTypes -> Nat]]
        BY <1>0 DEF UnitTyped
      <4>2. sumUnitTopUps[e][t] \in Nat
        BY <1>4, <4>1
      <4>3. CASE eligible
        <5>1. sumUnitTopUps'[e] = [v \in UnitTypes |-> sumUnitTopUps[e][v]
                                       + Total(TopUpsGiven(s, amount, v), NumUnits)]
          BY <1>1, <1>4, <4>1, <4>3
        <5> QED BY <4>3, <5>1
      <4>4. CASE ~eligible
        BY <1>1, <4>2, <4>4
      <4> QED BY <4>3, <4>4
    <3>12. Total(cur, NumUnits) <= sumUnitTopUps[e][t]
      BY <1>0, <3>5 DEF TopUpWeights
    <3>13. Total(cur, NumUnits) \in Int /\ sumUnitTopUps[e][t] \in Int
      BY <1>0, <1>4, <3>2, <3>9, TotalType DEF UnitTyped
    <3>14. Total(new, NumUnits) \in Int
      BY <3>2, <3>9, TotalType
    <3>15. Total(new, NumUnits) <= sumUnitTopUps'[e][t] /\ sumUnitTopUps'[e][t] \in Int
      <4> DEFINE k == IF eligible THEN Total(g, NumUnits) ELSE 0
      <4>1. k \in Int
        BY <3>3
      <4> HIDE DEF k, g
      <4>2. Total(new, NumUnits) = Total(cur, NumUnits) + k
        BY <3>10 DEF k, g
      <4>3. sumUnitTopUps'[e][t] = sumUnitTopUps[e][t] + k
        BY <3>11 DEF k, g
      <4> QED BY <3>12, <3>13, <4>1, <4>2, <4>3
    <3>16. \A u \in Units : new[u] \in Int
      BY <3>2, UnitConstants
    <3>17. \A u \in Units : new[u] <= sumUnitTopUps'[e][t]
      BY <3>7, <3>14, <3>15, <3>16
    <3> QED BY <3>6, <3>8, <3>15, <3>17
  <2>2. ASSUME NEW u \in Units, lastEpoch'[u] > 0
        PROVE  pendingTopUp'[u] <= sumUnitTopUps'[lastEpoch'[u]][UnitTypeOf[u]]
    <3>1. CASE lastEpoch'[u] = e
      BY <2>1, <3>1, UnitConstants
    <3>2. CASE lastEpoch'[u] # e
      <4>1. u \notin Touched(s)
        BY <1>1, <3>2
      <4>2. lastEpoch'[u] = lastEpoch[u] /\ pendingTopUp'[u] = pendingTopUp[u]
        BY <1>1, <4>1
      <4>3. sumUnitTopUps'[lastEpoch[u]] = sumUnitTopUps[lastEpoch[u]]
        <5>1. lastEpoch[u] # e
          BY <3>2, <4>2
        <5> QED BY <1>0, <1>1, <5>1 DEF UnitTyped
      <4> QED BY <1>0, <2>2, <4>2, <4>3 DEF TopUpWeights
    <3> QED BY <3>1, <3>2
  <2> QED BY <1>1, <2>1, <2>2 DEF TopUpWeights
<1>12. TopUpBudget'
  <2>1. \A u \in Units : FinalTopUp(u)' = FinalTopUp(u)
    <3> SUFFICES ASSUME NEW u \in Units
                 PROVE  FinalTopUp(u)' = FinalTopUp(u)
      OBVIOUS
    <3>1. CASE u \in Touched(s)
      <4>1. lastEpoch'[u] = e /\ topUp'[u] = FinalTopUp(u)
        BY <1>1, <3>1
      <4>2. ~Stale(u)'
        BY <1>1, <1>4, <4>1 DEF Stale
      <4> QED BY <4>1, <4>2 DEF FinalTopUp
    <3>2. CASE u \notin Touched(s)
      <4>1. lastEpoch'[u] = lastEpoch[u] /\ topUp'[u] = topUp[u]
            /\ pendingTopUp'[u] = pendingTopUp[u]
        BY <1>1, <3>2
      <4>2. Stale(u)' <=> Stale(u)
        BY <1>1, <4>1 DEF Stale
      <4>3. ASSUME Stale(u)
            PROVE  TopUpOf(u)' = TopUpOf(u)
        <5>1. lastEpoch[u] # e
          BY <1>4, <4>3 DEF Stale
        <5>2. sumUnitTopUps'[lastEpoch[u]] = sumUnitTopUps[lastEpoch[u]]
          BY <1>0, <1>1, <5>1 DEF UnitTyped
        <5> QED BY <1>1, <4>1, <5>2 DEF TopUpOf
      <4> QED BY <4>1, <4>2, <4>3 DEF FinalTopUp
    <3> QED BY <3>1, <3>2
  <2>2. FinalTopUps' = FinalTopUps
    BY <2>1 DEF FinalTopUps
  <2>3. TopUpParts' = TopUpParts
    BY <1>1 DEF TopUpParts, TopUpPart, Settled
  <2> QED BY <1>0, <1>1, <2>2, <2>3 DEF TopUpBudget
<1> QED BY <1>7, <1>8, <1>10, <1>11, <1>12 DEF UnitInv

\* A positive factor can be cancelled.
LEMMA CancelFactor ==
  ASSUME NEW k \in Nat \ {0}, NEW a \in Int, NEW b \in Int, k * a <= k * b
  PROVE  a <= b
<1> SUFFICES ASSUME a >= b + 1
             PROVE  FALSE
  OBVIOUS
<1>1. k * a >= k * (b + 1)
  OBVIOUS
<1>2. k * (b + 1) = k * b + k /\ k * a \in Int /\ k * b \in Int
  OBVIOUS
<1> QED BY <1>1, <1>2

\* Shares of a hundredth of X, in proportion to parts of a sum, add up to no more than it.
LEMMA SharesWithin ==
  ASSUME NEW N \in Nat, NEW p \in [1..N -> Nat], NEW S \in Nat, Total(p, N) <= S, NEW X \in Nat,
         NEW q \in [1..N -> Int],
         \A i \in 1..N : q[i] = IF p[i] = 0 THEN 0 ELSE (p[i] * X) \div (100 * S)
  PROVE  /\ \A i \in 1..N : q[i] \in Nat
         /\ Total(q, N) \in Nat /\ 100 * Total(q, N) <= X
<1> DEFINE k == 100 * S
<1>0. p \in [1..N -> Int] /\ \A i \in 1..N : p[i] <= Total(p, N) /\ Total(p, N) \in Nat
  BY TotalNonNegative
<1>1. CASE S = 0
  <2>1. \A i \in 1..N : p[i] = 0
    BY <1>0, <1>1
  <2>2. \A i \in 1..N : q[i] = 0
    BY <2>1
  <2>3. Total(q, N) = 0
    BY <2>2, TotalZero
  <2> QED BY <2>2, <2>3
<1>2. CASE S # 0
  <2>1. k \in Nat \ {0}
    BY <1>2
  <2>2. \A i \in 1..N : q[i] = IF p[i] = 0 THEN 0 ELSE (p[i] * X) \div k
    OBVIOUS
  <2> HIDE DEF k
  <2>3. \A i \in 1..N : q[i] \in Nat /\ q[i] * k <= p[i] * X
    <3> SUFFICES ASSUME NEW i \in 1..N
                 PROVE  q[i] \in Nat /\ q[i] * k <= p[i] * X
      OBVIOUS
    <3> DEFINE x == p[i] * X
               d == x \div k
    <3>1. x \in Nat
      OBVIOUS
    <3>2. q[i] = IF p[i] = 0 THEN 0 ELSE d
      BY <2>2
    <3>3. p[i] = 0 => x = 0
      OBVIOUS
    <3> HIDE DEF x
    <3>4. d \in Nat /\ k * d <= x
      BY <2>1, <3>1, QuotientLow
    <3>5. d * k = k * d /\ 0 * k = 0
      BY <2>1, <3>4
    <3> HIDE DEF d
    <3> QED BY <3>1, <3>2, <3>3, <3>4, <3>5 DEF x
  <2>4. Total(q, N) * k <= Total(p, N) * X
    <3>1. k \in Int /\ X \in Int /\ \A i \in 1..N : q[i] * k <= p[i] * X
      BY <2>1, <2>3
    <3>2. p \in [1..N -> Int] /\ q \in [1..N -> Int] /\ N \in Nat
      BY <1>0
    <3> QED BY ONLY <3>1, <3>2, TotalScaledBound
  <2>5. q \in [1..N -> Nat]
    BY <2>3
  <2>6. Total(q, N) \in Nat /\ Total(p, N) \in Nat
    BY <1>0, <2>5, TotalNonNegative
  <2> DEFINE tq == Total(q, N)
             tp == Total(p, N)
  <2>7. tp * X <= S * X
    <3>1. tp \in Nat /\ tp <= S
      BY <2>6
    <3> HIDE DEF tp
    <3> QED BY <3>1, ProductMono
  <2>8. tq * k = S * (100 * tq)
    <3>1. tq \in Nat
      BY <2>6
    <3> HIDE DEF tq
    <3> QED BY <3>1 DEF k
  <2>9. S * (100 * tq) <= S * X
    <3>1. tq \in Nat /\ tp \in Nat /\ tq * k <= tp * X
      BY <2>4, <2>6
    <3> HIDE DEF tq, tp
    <3>2. S * X \in Int /\ tp * X \in Int /\ S * (100 * tq) \in Int
      BY <3>1
    <3> DEFINE A == S * (100 * tq)
               B == tp * X
               C == S * X
    <3>3. A \in Int /\ B \in Int /\ C \in Int /\ A <= B /\ B <= C
      BY <2>7, <2>8, <3>1, <3>2
    <3> HIDE DEF A, B, C
    <3>4. A <= C
      BY <3>3
    <3> QED BY <3>4 DEF A, C
  <2>10. 100 * tq <= X
    <3>1. 100 * tq \in Int
      BY <2>6
    <3> HIDE DEF tq
    <3> QED BY <1>2, <2>9, <3>1, CancelFactor
  <2> QED BY <2>3, <2>6, <2>10
<1> QED BY <1>1, <1>2

\* The shares of the units of the two types in the top-ups of an epoch, together.
LEMMA TopUpsWithin ==
  ASSUME NEW x \in Nat, NEW y \in Nat, NEW T \in Nat, NEW c \in Nat, NEW a \in Nat,
         100 * x <= T * c, 100 * y <= T * a
  PROVE  x + y <= (T * (c + a)) \div 100
<1>1. T * (c + a) = T * c + T * a /\ T * c \in Nat /\ T * a \in Nat
  OBVIOUS
<1>2. 100 * (x + y) <= T * (c + a) /\ T * (c + a) \in Nat
  BY <1>1
<1> QED BY <1>2, QuotientHigh

\* The treasury takes its percentage, rounded down.
LEMMA TreasuryRewardFacts ==
  ASSUME BondTypes, UnitTyped
  PROVE  /\ TreasuryReward(epochCounter) \in Nat
         /\ 100 * TreasuryReward(epochCounter)
              <= totalDonations[epochCounter] * TreasuryPct(epochCounter)
         /\ totalDonations[epochCounter] * TreasuryPct(epochCounter) \in Nat
<1> DEFINE x == totalDonations[epochCounter] * TreasuryPct(epochCounter)
<1>1. totalDonations[epochCounter] \in Nat /\ TreasuryPct(epochCounter) \in Nat
  <2>1. TreasuryPct(epochCounter) \in 0..100
    BY EpochTypes, TreasuryPctType
  <2>2. totalDonations[epochCounter] \in Nat
    BY EpochTypes DEF UnitTyped
  <2> QED BY <2>1, <2>2
<1>2. x \in Nat
  BY <1>1
<1>3. TreasuryReward(epochCounter) = x \div 100
  BY DEF TreasuryReward, TreasuryPct
<1> HIDE DEF x
<1>4. x \div 100 \in Nat /\ 100 * (x \div 100) <= x
  BY <1>2, QuotientLow
<1> QED BY <1>2, <1>3, <1>4 DEF x

\* The parts of the epochs are typed, in every state.
TopUpPartsTyped ==
    /\ \A e \in Epochs : TopUpPart(e) \in Nat
    /\ TopUpParts \in [1..MaxEpochs -> Int]

LEMMA TopUpPartAlways == BondTypes => TopUpPartsTyped
BY TopUpPartType DEF TopUpPartsTyped

\* A settlement gives the units of the epoch their top-ups, within its part of the inflation,
\* and leaves what they earned as it was; the treasury takes its share.
LEMMA CheckpointUnits ==
  ASSUME BondTypes, BondTypes', UnitInv, epochCounter < MaxEpochs, SettleEpoch, rebalanceTreasury
  PROVE  UnitInv'
<1> PICK e : e = epochCounter
  OBVIOUS
<1> DEFINE n == e + 1
           T == totalTopUpsOLAS'[e]
           f == fractions[e]
<1>0. UnitTyped /\ UnitPlace /\ RewardBudget /\ TopUpWeights /\ TopUpBudget
  BY DEF UnitInv
<1>1. /\ UNCHANGED <<pendingReward, pendingTopUp, reward, topUp, lastEpoch, totalDonations,
                     sumUnitTopUps, toppedUp>>
      /\ TreasuryReward(e) <= ETHFromServices
      /\ ETHFromServices' = ETHFromServices - TreasuryReward(e)
      /\ ETHOwned' = ETHOwned + TreasuryReward(e)
  BY DEF rebalanceTreasury, unitVars
<1>2. /\ epochCounter' = n
      /\ \A k \in Epochs : k # e => totalTopUpsOLAS'[k] = totalTopUpsOLAS[k]
  BY DEF SettleEpoch, BondTypes
<1>3. /\ e \in Nat /\ e > 0 /\ e \in Epochs /\ n \in Epochs /\ e \in 1..(MaxEpochs + 1)
      /\ MaxEpochs \in Nat /\ Epochs = 1..MaxEpochs
  BY EpochTypes, UnitConstants
<1>4. \A k \in 1..e : fractions'[k] = fractions[k]
  <2>1. fractions' = NextFractions
    BY DEF SettleEpoch
  <2>2. \A k \in 1..e : k # epochCounter + 1 /\ k \in 1..(MaxEpochs + 1)
    BY <1>3
  <2>3. fractions \in [1..(MaxEpochs + 1) -> {FirstFractions} \cup NewFractions]
    BY DEF BondTypes
  <2> QED BY <2>1, <2>2, <2>3 DEF NextFractions
<1>5. T \in Nat /\ f \in {FirstFractions} \cup NewFractions
  BY <1>3 DEF BondTypes
<1>6. \A u \in Units : lastEpoch[u] \in Nat /\ lastEpoch[u] <= e
  BY <1>0, UnitConstants DEF UnitTyped, UnitPlace
<1>7. UnitTyped'
  <2>1. ETHFromServices' \in Nat /\ ETHOwned' \in Nat
    <3>1. TreasuryReward(e) \in Nat
      BY <1>0, TreasuryRewardFacts
    <3>2. ETHFromServices \in Nat /\ ETHOwned \in Nat
      BY <1>0 DEF UnitTyped
    <3> QED BY <1>1, <3>1, <3>2
  <2> QED BY <1>0, <1>1, <2>1 DEF UnitTyped
<1>8. UnitPlace'
  <2>1. \A u \in Units : lastEpoch[u] <= n
    BY <1>3, <1>6
  <2>2. \A k \in Epochs : k > n => k > e
    BY <1>3
  <2>3. \A k \in Epochs : k > n =>
          totalDonations[k] = 0 /\ \A t \in UnitTypes : sumUnitTopUps[k][t] = 0
    BY <1>0, <2>2 DEF UnitPlace
  <2> HIDE DEF n
  <2> QED BY <1>0, <1>1, <1>2, <2>1, <2>3 DEF UnitPlace
<1>9. \A u \in Units : lastEpoch[u] > 0 => fractions'[lastEpoch[u]] = fractions[lastEpoch[u]]
  BY <1>3, <1>4, <1>6
<1>10. RewardBudget'
  <2>1. Earned' = Earned
    <3>1. Earned' = [u \in Units |-> 100 * reward[u] + pendingReward[u] *
              (IF lastEpoch[u] > 0 THEN fractions'[lastEpoch[u]].reward[UnitTypeOf[u]] ELSE 0)]
      BY <1>1 DEF Earned, RewardPct
    <3>2. Earned = [u \in Units |-> 100 * reward[u] + pendingReward[u] *
              (IF lastEpoch[u] > 0 THEN fractions[lastEpoch[u]].reward[UnitTypeOf[u]] ELSE 0)]
      BY DEF Earned, RewardPct
    <3> QED BY <1>9, <3>1, <3>2
  <2>2. totalDonations'[n] = 0
    BY <1>0, <1>1, <1>3 DEF UnitPlace
  <2>3. TreasuryPct(n)' \in 0..100
    <3>1. fractions'[n] \in {FirstFractions} \cup NewFractions
      BY <1>3 DEF BondTypes
    <3> DEFINE c == fractions'[n].reward["component"]
               a == fractions'[n].reward["agent"]
    <3>2. c \in Nat /\ a \in Nat /\ c + a <= 100
      BY <3>1, FractionTypes DEF UnitTypes
    <3>3. TreasuryPct(n)' = 100 - c - a
      BY <1>2 DEF TreasuryPct
    <3> HIDE DEF c, a
    <3> QED BY <3>2, <3>3
  <2>4. totalDonations'[n] * TreasuryPct(n)' = 0
    BY <2>2, <2>3
  <2> DEFINE x == Total(Earned, NumUnits)
             r == TreasuryReward(e)
             m == totalDonations[e] * TreasuryPct(e)
  <2>5. x \in Int
    BY <1>0, EarnedType, UnitConstants, TotalType
  <2>6. r \in Nat /\ 100 * r <= m /\ m \in Nat
    BY <1>0, TreasuryRewardFacts
  <2>7. x + m <= 100 * ETHFromServices
    BY <1>0 DEF RewardBudget
  <2>8. ETHFromServices' = ETHFromServices - r /\ ETHFromServices \in Nat
    BY <1>0, <1>1 DEF UnitTyped
  <2>9. Total(Earned, NumUnits)' = x
    BY <2>1
  <2>10. x + 0 <= 100 * ETHFromServices'
    <3> HIDE DEF x, r, m
    <3> QED BY <2>5, <2>6, <2>7, <2>8
  <2>11. RewardBudget' <=> Total(Earned, NumUnits)' + totalDonations'[n] * TreasuryPct(n)'
                             <= 100 * ETHFromServices'
    BY <1>2 DEF RewardBudget, TreasuryPct
  <2> HIDE DEF x, n
  <2> QED BY <2>4, <2>9, <2>10, <2>11
<1>11. TopUpWeights'
  <2>1. ASSUME NEW t \in UnitTypes
        PROVE  CurrentTopUps(t)' <= sumUnitTopUps'[n][t]
    <3> DEFINE new == [u \in Units |-> IF lastEpoch[u] = n /\ UnitTypeOf[u] = t
                                       THEN pendingTopUp[u] ELSE 0]
    <3>1. \A u \in Units : lastEpoch[u] # n
      BY <1>3, <1>6
    <3>2. new \in [1..NumUnits -> Int] /\ \A u \in 1..NumUnits : new[u] = 0
      BY <3>1, UnitConstants
    <3>3. CurrentTopUps(t)' = Total(new, NumUnits)
      BY <1>1, <1>2 DEF CurrentTopUps
    <3> HIDE DEF new
    <3>4. Total(new, NumUnits) = 0
      BY <3>2, UnitConstants, TotalZero
    <3>5. sumUnitTopUps'[n][t] = 0
      BY <1>0, <1>1, <1>3 DEF UnitPlace
    <3> QED BY <3>3, <3>4, <3>5
  <2> HIDE DEF n
  <2> QED BY <1>0, <1>1, <1>2, <2>1 DEF TopUpWeights
<1>12. TopUpBudget'
  <2> DEFINE q == [u \in 1..NumUnits |-> IF lastEpoch[u] = e THEN TopUpOf(u)' ELSE 0]
             F0 == FinalTopUps
             F1 == FinalTopUps'
             part(t) == [u \in 1..NumUnits |-> IF UnitTypeOf[u] = t THEN q[u] ELSE 0]
             cur(t) == [u \in Units |-> IF lastEpoch[u] = e /\ UnitTypeOf[u] = t
                                        THEN pendingTopUp[u] ELSE 0]
  <2>1. ASSUME NEW t \in UnitTypes
        PROVE  /\ \A u \in 1..NumUnits : part(t)[u] \in Nat
               /\ Total(part(t), NumUnits) \in Nat /\ 100 * Total(part(t), NumUnits) <= T * f.topUp[t]
    <3> DEFINE S == sumUnitTopUps[e][t]
               ct == cur(t)
               pt == part(t)
               Xt == T * f.topUp[t]
    <3>1. ct \in [1..NumUnits -> Nat]
      BY <1>0, UnitConstants DEF UnitTyped
    <3>2. Total(ct, NumUnits) <= S
      BY <1>0 DEF TopUpWeights, CurrentTopUps
    <3>3. S \in Nat
      BY <1>0, <1>3 DEF UnitTyped
    <3>4. f.topUp[t] \in Nat /\ T \in Nat
      BY <1>5, FractionTypes
    <3>5. Xt \in Nat
      <4> HIDE DEF T, f
      <4> QED BY <3>4
    <3>6. ASSUME NEW u \in 1..NumUnits
          PROVE  pt[u] = IF ct[u] = 0 THEN 0 ELSE (ct[u] * Xt) \div (100 * S)
      <4>1. u \in Units
        BY UnitConstants
      <4>2. CASE lastEpoch[u] = e /\ UnitTypeOf[u] = t
        <5>1. ct[u] = pendingTopUp[u] /\ pt[u] = TopUpOf(u)'
          BY <4>1, <4>2
        <5>2. fractions'[lastEpoch[u]] = f
          BY <1>3, <1>9, <4>1, <4>2
        <5>3. TopUpOf(u)' = IF pendingTopUp[u] = 0 THEN 0
                            ELSE (pendingTopUp[u] * T * f.topUp[t]) \div (100 * S)
          BY <1>1, <4>2, <5>2 DEF TopUpOf
        <5>4. pendingTopUp[u] * T * f.topUp[t] = pendingTopUp[u] * Xt
          <6>1. pendingTopUp[u] \in Nat
            BY <1>0, <4>1 DEF UnitTyped
          <6> HIDE DEF T, f
          <6> QED BY <3>4, <6>1
        <5> HIDE DEF ct, pt, Xt, S, T, f
        <5> QED BY <5>1, <5>3, <5>4
      <4>3. CASE ~(lastEpoch[u] = e /\ UnitTypeOf[u] = t)
        <5>1. ct[u] = 0 /\ pt[u] = 0
          BY <4>1, <4>3
        <5> QED BY <5>1
      <4> QED BY <4>2, <4>3
    <3>7. pt \in [1..NumUnits -> Int]
      <4>1. pt = [u \in 1..NumUnits |-> pt[u]]
        OBVIOUS
      <4>2. \A u \in 1..NumUnits : pt[u] \in Int
        <5> SUFFICES ASSUME NEW u \in 1..NumUnits
                     PROVE  pt[u] \in Int
          OBVIOUS
        <5>1. CASE ct[u] = 0
          <6>1. pt[u] = 0
            BY <3>6, <5>1
          <6> QED BY <6>1
        <5>2. CASE ct[u] # 0
          <6>1. pt[u] = (ct[u] * Xt) \div (100 * S)
            BY <3>6, <5>2
          <6>2. ct[u] \in Nat /\ ct[u] <= Total(ct, NumUnits) /\ Total(ct, NumUnits) \in Nat
            <7> HIDE DEF ct
            <7> QED BY <3>1, UnitConstants, TotalNonNegative
          <6> HIDE DEF ct, Xt, S, pt
          <6>3. ct[u] * Xt \in Nat
            BY <3>5, <6>2
          <6>4. S # 0
            BY <3>2, <3>3, <5>2, <6>2
          <6>5. 100 * S \in Nat \ {0}
            BY <3>3, <6>4
          <6> QED BY <6>1, <6>3, <6>5, QuotientType
        <5> QED BY <5>1, <5>2
      <4> HIDE DEF pt
      <4> QED BY <4>1, <4>2
    <3> HIDE DEF ct, pt, Xt, S
    <3>8. NumUnits \in Nat
      BY UnitConstants
    <3>9. /\ \A u \in 1..NumUnits : pt[u] \in Nat
          /\ Total(pt, NumUnits) \in Nat /\ 100 * Total(pt, NumUnits) <= Xt
      BY ONLY <3>1, <3>2, <3>3, <3>5, <3>6, <3>7, <3>8, SharesWithin
    <3> QED BY <3>9 DEF pt, Xt
  <2>2. ASSUME NEW u \in Units
        PROVE  /\ F1[u] = F0[u] + q[u] /\ F0[u] \in Nat /\ q[u] \in Nat
    <3>1. u \in 1..NumUnits /\ UnitTypeOf[u] \in UnitTypes
      BY UnitConstants
    <3>2. q[u] \in Nat
      <4>1. part(UnitTypeOf[u])[u] = q[u]
        BY <3>1
      <4> HIDE DEF q, part
      <4> QED BY <2>1, <3>1, <4>1
    <3>3. F0[u] = FinalTopUp(u) /\ FinalTopUp(u) \in Nat
      BY <1>0, FinalTopUpType DEF FinalTopUps
    <3>4. F1[u] = FinalTopUp(u)'
      BY DEF FinalTopUps
    <3>5. /\ Stale(u) <=> lastEpoch[u] # 0 /\ lastEpoch[u] # e
          /\ Stale(u)' <=> lastEpoch[u] # 0
      <4>1. Stale(u) <=> lastEpoch[u] \in 1..(e - 1)
        BY DEF Stale
      <4>2. Stale(u)' <=> lastEpoch[u] \in 1..(n - 1)
        BY <1>1, <1>2 DEF Stale
      <4> QED BY <1>3, <1>6, <4>1, <4>2
    <3>6. /\ FinalTopUp(u)' = IF lastEpoch[u] # 0 THEN topUp[u] + TopUpOf(u)' ELSE topUp[u]
          /\ FinalTopUp(u) = IF lastEpoch[u] # 0 /\ lastEpoch[u] # e THEN topUp[u] + TopUpOf(u)
                             ELSE topUp[u]
      BY <1>1, <3>5 DEF FinalTopUp
    <3>7. q[u] = IF lastEpoch[u] = e THEN TopUpOf(u)' ELSE 0
      BY <3>1
    <3>8. lastEpoch[u] # 0 /\ lastEpoch[u] # e => TopUpOf(u)' = TopUpOf(u)
      <4> SUFFICES ASSUME lastEpoch[u] # 0, lastEpoch[u] # e
                   PROVE  TopUpOf(u)' = TopUpOf(u)
        OBVIOUS
      <4>1. lastEpoch[u] > 0 /\ lastEpoch[u] \in Epochs
        BY <1>3, <1>6
      <4>2. totalTopUpsOLAS'[lastEpoch[u]] = totalTopUpsOLAS[lastEpoch[u]]
        BY <1>2, <4>1
      <4> QED BY <1>1, <1>9, <4>1, <4>2 DEF TopUpOf
    <3>9. topUp[u] \in Nat
      BY <1>0 DEF UnitTyped
    <3> HIDE DEF q, F0, F1
    <3> QED BY <1>3, <3>2, <3>3, <3>4, <3>6, <3>7, <3>8, <3>9
  <2>3. /\ F0 \in [1..NumUnits -> Int] /\ F1 \in [1..NumUnits -> Int] /\ q \in [1..NumUnits -> Int]
    <3>1. F1 = [u \in Units |-> F1[u]] /\ F0 = [u \in Units |-> F0[u]]
      BY DEF FinalTopUps
    <3>2. q = [u \in 1..NumUnits |-> q[u]]
      OBVIOUS
    <3> HIDE DEF q, F0, F1
    <3>3. \A u \in 1..NumUnits : F0[u] \in Int /\ F1[u] \in Int /\ q[u] \in Int
      BY <2>2, UnitConstants
    <3> QED BY <3>1, <3>2, <3>3, UnitConstants
  <2> DEFINE qc == part("component")
             qa == part("agent")
             x == Total(qc, NumUnits)
             y == Total(qa, NumUnits)
  <2>4. \A u \in 1..NumUnits : q[u] = qc[u] + qa[u]
    <3>1. \A u \in 1..NumUnits : /\ qc[u] = IF UnitTypeOf[u] = "component" THEN q[u] ELSE 0
                                 /\ qa[u] = IF UnitTypeOf[u] = "agent" THEN q[u] ELSE 0
      OBVIOUS
    <3>2. \A u \in 1..NumUnits : UnitTypeOf[u] = "component" \/ UnitTypeOf[u] = "agent"
      BY UnitConstants
    <3> HIDE DEF q, qc, qa
    <3> QED BY <2>3, <3>1, <3>2
  <2>5. qc \in [1..NumUnits -> Int] /\ qa \in [1..NumUnits -> Int]
    <3> HIDE DEF q
    <3> QED BY <2>3
  <2>6. x \in Nat /\ y \in Nat /\ 100 * x <= T * f.topUp["component"] /\ 100 * y <= T * f.topUp["agent"]
    <3> HIDE DEF part
    <3> QED BY <2>1, UnitConstants
  <2>7. NumUnits \in Nat
    BY UnitConstants
  <2> HIDE DEF q, F0, F1, qc, qa
  <2>8. Total(q, NumUnits) = x + y
    BY ONLY <2>3, <2>4, <2>5, <2>7, TotalSum
  <2>9. Total(F1, NumUnits) = Total(F0, NumUnits) + Total(q, NumUnits)
    <3>1. \A u \in 1..NumUnits : F1[u] = F0[u] + q[u]
      BY <2>2, UnitConstants
    <3> QED BY ONLY <2>3, <2>7, <3>1, TotalSum
  <2>10. x + y <= TopUpPart(e)'
    <3>1. TopUpPart(e)' = (T * (f.topUp["component"] + f.topUp["agent"])) \div 100
      <4>1. fractions'[e] = f
        BY <1>3, <1>4
      <4>2. TopUpPart(e)' = (totalTopUpsOLAS'[e] * (fractions'[e].topUp["component"]
                                                      + fractions'[e].topUp["agent"])) \div 100
        BY DEF TopUpPart
      <4> QED BY <4>1, <4>2
    <3> DEFINE c == f.topUp["component"]
               a == f.topUp["agent"]
    <3>2. c \in Nat /\ a \in Nat
      BY <1>5, FractionTypes DEF UnitTypes
    <3>3. 100 * x <= T * c /\ 100 * y <= T * a /\ x \in Nat /\ y \in Nat /\ T \in Nat
      BY <1>5, <2>6
    <3>4. TopUpPart(e)' = (T * (c + a)) \div 100
      BY <3>1
    <3> HIDE DEF c, a, x, y, T
    <3>5. x + y <= (T * (c + a)) \div 100
      BY ONLY <3>2, <3>3, TopUpsWithin
    <3> QED BY <3>4, <3>5
  <2>11. Total(TopUpParts, MaxEpochs)' = Total(TopUpParts, MaxEpochs) + TopUpPart(e)'
    <3> DEFINE P0 == TopUpParts
               P1 == TopUpParts'
               v == TopUpPart(e)'
    <3>1. P0 \in [1..MaxEpochs -> Int] /\ P0[e] = 0
      BY <1>3, TopUpPartType DEF TopUpParts, Settled
    <3>2. P1 \in [1..MaxEpochs -> Int] /\ v \in Int
      <4>1. TopUpPartsTyped'
        BY TopUpPartAlways, PTL
      <4> QED BY <1>3, <4>1 DEF TopUpPartsTyped
    <3>3. P1 = [P0 EXCEPT ![e] = v]
      <4>1. P1[e] = v
        BY <1>2, <1>3 DEF TopUpParts, Settled, TopUpPart
      <4>2. \A k \in 1..MaxEpochs : k # e => P1[k] = P0[k]
        <5> SUFFICES ASSUME NEW k \in 1..MaxEpochs, k # e
                     PROVE  P1[k] = P0[k]
          OBVIOUS
        <5>1. k \in Settled <=> k \in Settled'
          BY <1>2, <1>3 DEF Settled
        <5>2. k \in Settled => TopUpPart(k)' = TopUpPart(k)
          <6>1. k \in Settled => k \in 1..e /\ k \in Epochs
            BY <1>3 DEF Settled
          <6> QED BY <1>2, <1>4, <6>1 DEF TopUpPart
        <5>3. P1[k] = IF k \in Settled' THEN TopUpPart(k)' ELSE 0
          BY <1>3 DEF TopUpParts
        <5>4. P0[k] = IF k \in Settled THEN TopUpPart(k) ELSE 0
          BY <1>3 DEF TopUpParts
        <5> QED BY <5>1, <5>2, <5>3, <5>4
      <4> HIDE DEF P0, P1, v
      <4> QED BY <1>3, <3>1, <3>2, <4>1, <4>2
    <3> HIDE DEF P0, P1, v
    <3>4. Total(P1, MaxEpochs) = Total(P0, MaxEpochs) - P0[e] + v
      <4>1. e \in 1..MaxEpochs /\ MaxEpochs \in Nat
        BY <1>3
      <4>2. Total([P0 EXCEPT ![e] = v], MaxEpochs) = Total(P0, MaxEpochs) - P0[e] + v
        BY ONLY <3>1, <3>2, <4>1, TotalExcept
      <4> QED BY <3>3, <4>2
    <3>5. Total(P0, MaxEpochs) \in Int
      BY <1>3, <3>1, TotalType
    <3>6. Total(P1, MaxEpochs) = Total(P0, MaxEpochs) + v
      BY <3>1, <3>2, <3>4, <3>5
    <3> QED BY <3>6 DEF P0, P1, v
  <2>12. Total(F0, NumUnits) \in Int /\ Total(TopUpParts, MaxEpochs) \in Int
    BY <1>3, <2>3, <2>7, TopUpPartType, TotalType
  <2>13. toppedUp \in Nat /\ toppedUp' = toppedUp
    BY <1>0, <1>1 DEF UnitTyped
  <2>14. toppedUp + Total(F0, NumUnits) <= Total(TopUpParts, MaxEpochs)
    BY <1>0 DEF TopUpBudget, F0
  <2>15. TopUpBudget' <=> toppedUp' + Total(F1, NumUnits) <= Total(TopUpParts, MaxEpochs)'
    BY DEF TopUpBudget, F1
  <2>16. x + y \in Nat
    BY <2>6
  <2>17. TopUpPart(e)' \in Int
    <3>1. TopUpPartsTyped'
      BY TopUpPartAlways, PTL
    <3> QED BY <1>3, <3>1 DEF TopUpPartsTyped
  <2> DEFINE v == TopUpPart(e)'
             w == x + y
  <2>18. /\ w \in Int /\ v \in Int /\ w <= v
         /\ Total(F1, NumUnits) = Total(F0, NumUnits) + w
         /\ Total(TopUpParts, MaxEpochs)' = Total(TopUpParts, MaxEpochs) + v
    BY <2>8, <2>9, <2>10, <2>11, <2>16, <2>17
  <2> HIDE DEF v, w
  <2> QED BY <2>12, <2>13, <2>14, <2>15, <2>18
<1> QED BY <1>7, <1>8, <1>10, <1>11, <1>12 DEF UnitInv

\* The owner changes no fraction of an epoch that has begun.
LEMMA OwnerFractions ==
  ASSUME BondTypes, OwnerCall
  PROVE  \A e \in 1..epochCounter : fractions'[e] = fractions[e]
<1>1. \/ fractions' = fractions
      \/ \E f \in NewFractions : fractions' = [fractions EXCEPT ![epochCounter + 1] = f]
  BY DEF OwnerCall, changeTokenomicsParameters, changeIncentiveFractions, changeStakingParams
<1>2. \A e \in 1..epochCounter : e # epochCounter + 1 /\ e \in 1..(MaxEpochs + 1)
  BY EpochTypes
<1>3. fractions \in [1..(MaxEpochs + 1) -> {FirstFractions} \cup NewFractions]
  BY DEF BondTypes
<1> QED BY <1>1, <1>2, <1>3

\* Every step keeps the invariant.
LEMMA UnitNext == BondInv /\ BondInv' /\ UnitInv /\ [Next]_vars => UnitInv'
<1> SUFFICES ASSUME BondInv, BondInv', UnitInv, [Next]_vars
             PROVE  UnitInv'
  OBVIOUS
<1>1. BondTypes /\ BondTypes'
  BY DEF BondInv
<1>2. CASE Tick \/ BondCall \/ StakingCall \/ UNCHANGED vars
  <2>1. UNCHANGED <<incentiveVars, epochCounter, totalTopUpsOLAS, fractions>>
    <3>1. CASE Tick
      BY <3>1 DEF Tick, inflationVars, settleVars, paramVars
    <3>2. CASE BondCall
      BY <3>2 DEF BondCall, create, close, deposit, redeem, inflationRest, inflationVars,
                  settleVars, paramVars
    <3>3. CASE StakingCall
      BY <3>3 DEF StakingCall, addNominee, removeNominee, checkpointNominee,
                  claimStakingIncentives, retain, inflationVars, settleVars, paramVars
    <3>4. CASE UNCHANGED vars
      BY <3>4 DEF vars, inflationVars, settleVars, paramVars
    <3> QED BY <1>2, <3>1, <3>2, <3>3, <3>4
  <2> QED BY <1>1, <2>1, UnitQuiet
<1>3. CASE OwnerCall
  <2>1. UNCHANGED <<incentiveVars, epochCounter, totalTopUpsOLAS>>
    BY <1>3 DEF OwnerCall, changeTokenomicsParameters, changeIncentiveFractions,
                changeStakingParams, settleVars
  <2> QED BY <1>1, <1>3, <2>1, OwnerFractions, UnitQuiet
<1>4. CASE Checkpoint
  <2>1. epochCounter < MaxEpochs /\ SettleEpoch /\ rebalanceTreasury
    BY <1>4 DEF Checkpoint
  <2> QED BY <1>1, <2>1, CheckpointUnits
<1>5. CASE UnitCall
  <2>1. \/ \E s \in Services, amount \in Donations, eligible \in BOOLEAN :
             donate(s, amount, eligible)
        \/ \E S \in SUBSET Units : claimOwnerIncentives(S)
    BY <1>5 DEF UnitCall
  <2>2. CASE \E s \in Services, amount \in Donations, eligible \in BOOLEAN :
               donate(s, amount, eligible)
    BY <1>1, <2>2, DonateUnits
  <2>3. CASE \E S \in SUBSET Units : claimOwnerIncentives(S)
    BY <1>1, <2>3, ClaimUnits
  <2> QED BY <2>1, <2>2, <2>3
<1> QED BY <1>2, <1>3, <1>4, <1>5 DEF Next

LEMMA UnitAlways == Spec => []UnitInv
<1>1. BondInv /\ UnitInv /\ [Next]_vars => BondInv' /\ UnitInv'
  BY BondNext, UnitNext
<1> QED BY <1>1, BondInitially, UnitInitially, BondAlways, PTL DEF Spec

\* For all units, fractions, donations and votes: the ETH of the donations covers every reward,
\* pending or final, and the treasury's share of the current epoch, so that no claim drops a
\* reward and no checkpoint reverts for lack of ETH (Treasury.sol:402, :446).
THEOREM RewardsAlwaysCovered == Spec => []RewardsCovered
<1>1. BondInv /\ UnitInv => RewardsCovered
  <2> SUFFICES ASSUME BondInv, UnitInv
               PROVE  RewardsCovered
    OBVIOUS
  <2> DEFINE g == [u \in 1..NumUnits |->
                     reward[u] + (IF lastEpoch[u] > 0 THEN RewardOf(u) ELSE 0)]
             x == Total(g, NumUnits)
             y == Total(Earned, NumUnits)
             r == TreasuryReward(epochCounter)
             m == totalDonations[epochCounter] * TreasuryPct(epochCounter)
  <2>1. BondTypes /\ UnitTyped /\ UnitPlace /\ RewardBudget
    BY DEF BondInv, UnitInv
  <2>2. ASSUME NEW u \in 1..NumUnits
        PROVE  g[u] \in Nat /\ g[u] * 100 <= Earned[u] * 1
    <3> DEFINE q == IF lastEpoch[u] > 0 THEN RewardOf(u) ELSE 0
               p == pendingReward[u] * RewardPct(u)
    <3>1. u \in Units
      BY UnitConstants
    <3>2. reward[u] \in Nat /\ p \in Nat /\ q \in Nat /\ 100 * q <= p
      BY <2>1, <3>1, RewardOfFacts DEF UnitTyped
    <3>3. g[u] = reward[u] + q /\ Earned[u] = 100 * reward[u] + p
      BY <3>1 DEF Earned
    <3> HIDE DEF q, p, g
    <3> QED BY <3>2, <3>3
  <2>3. g \in [1..NumUnits -> Nat] /\ g \in [1..NumUnits -> Int]
    <3>1. g = [u \in 1..NumUnits |-> g[u]]
      OBVIOUS
    <3> HIDE DEF g
    <3> QED BY <2>2, <3>1
  <2>4. Earned \in [1..NumUnits -> Int] /\ NumUnits \in Nat
    BY <2>1, EarnedType, UnitConstants
  <2>5. RewardsCovered <=> x + r <= ETHFromServices
    BY DEF RewardsCovered, TotalOver
  <2> HIDE DEF g
  <2>6. x * 100 <= y * 1
    <3> DEFINE k == 100
               l == 1
    <3>1. k \in Int /\ l \in Int /\ \A u \in 1..NumUnits : g[u] * k <= Earned[u] * l
      BY <2>2
    <3> HIDE DEF k, l
    <3>2. Total(g, NumUnits) * k <= Total(Earned, NumUnits) * l
      BY ONLY <2>3, <2>4, <3>1, TotalScaledBound
    <3> QED BY <3>2 DEF k, l
  <2>7. x \in Int /\ y \in Int
    BY <2>3, <2>4, TotalType
  <2>8. r \in Nat /\ 100 * r <= m /\ m \in Nat
    BY <2>1, TreasuryRewardFacts
  <2>9. y + m <= 100 * ETHFromServices
    BY <2>1 DEF RewardBudget
  <2>10. ETHFromServices \in Nat
    BY <2>1 DEF UnitTyped
  <2> HIDE DEF x, y, r, m
  <2> QED BY <2>5, <2>6, <2>7, <2>8, <2>9, <2>10
<1> QED BY <1>1, BondAlways, UnitAlways, PTL

\* For all units, fractions and votes: what is minted for top-ups, final, or pending since a
\* settled epoch stays within the part of the inflation of those epochs that is for them.
THEOREM TopUpsAlwaysCovered == Spec => []TopUpsCovered
<1>1. UnitInv => TopUpsCovered
  <2> SUFFICES ASSUME TopUpBudget
               PROVE  TopUpsCovered
    BY DEF UnitInv
  <2>1. TotalOver(FinalTopUp, NumUnits) = Total(FinalTopUps, NumUnits)
    BY DEF TotalOver, FinalTopUps, Units
  <2>2. TotalOver(LAMBDA e : IF e \in Settled
                             THEN (totalTopUpsOLAS[e] * (fractions[e].topUp["component"]
                                                          + fractions[e].topUp["agent"])) \div 100
                             ELSE 0, MaxEpochs) = Total(TopUpParts, MaxEpochs)
    BY DEF TotalOver, TopUpParts, TopUpPart, Epochs
  <2> QED BY <2>1, <2>2 DEF TopUpsCovered, TopUpBudget
<1> QED BY <1>1, UnitAlways, PTL

\* A year adds its inflation to the schedule.
LEMMA ScheduleAdds ==
  ASSUME NEW y \in Nat, y <= MaxTime \div Year + CapYears + 1
  PROVE  /\ InflationUntilYear(y) \in Nat /\ InflationForYear[y] \in Nat
         /\ InflationUntilYear(y + 1) = InflationUntilYear(y) + InflationForYear[y]
<1> DEFINE f == [i \in 1..y |-> InflationForYear[i - 1]]
           g == [i \in 1..(y + 1) |-> InflationForYear[i - 1]]
<1>1. MaxTime \div Year \in Nat /\ CapYears \in Nat
  BY ScheduleAssumption, QuotientType
<1>2. \A k \in Nat : k <= y => InflationForYear[k] \in Nat
  <2>1. \A k \in Nat : k <= y => k \in 0..(MaxTime \div Year + CapYears + 1)
    BY <1>1
  <2> QED BY <2>1, ScheduleAssumption
<1>3. \A i \in 1..(y + 1) : i - 1 \in Nat /\ i - 1 <= y
  OBVIOUS
<1>4. \A i \in 1..y : i \in 1..(y + 1)
  OBVIOUS
<1>5. g \in [1..(y + 1) -> Nat] /\ f \in [1..y -> Nat]
  BY <1>2, <1>3, <1>4
<1>6. g \in [1..(y + 1) -> Int] /\ f \in [1..y -> Int]
  BY <1>5
<1>7. \A i \in 1..y : g[i] = f[i]
  BY <1>4
<1>8. g[y + 1] = InflationForYear[y]
  BY y + 1 \in 1..(y + 1), (y + 1) - 1 = y
<1>9. InflationUntilYear(y) = Total(f, y) /\ InflationUntilYear(y + 1) = Total(g, y + 1)
  BY DEF InflationUntilYear
<1> HIDE DEF f, g
<1>10. Total(g, y + 1) = Total(f, y) + g[y + 1]
  BY <1>6, <1>7, TotalAppend
<1>11. Total(f, y) \in Nat
  BY <1>5, TotalNonNegative
<1> QED BY <1>2, <1>8, <1>9, <1>10, <1>11

\* The years that can begin are years of the schedule.
LEMMA YearBound ==
  ASSUME BondInv
  PROVE  /\ now \in Nat /\ YearOf(now) \in Nat /\ YearOf(now) <= MaxTime \div Year
         /\ currentYear \in Nat /\ currentYear <= YearOf(now)
         /\ MaxTime \div Year \in Nat /\ CapYears \in Nat \ {0}
<1>1. now \in Nat /\ now <= MaxTime /\ MaxTime \in Nat /\ MaxEpochs \in Nat
  BY EpochConstants DEF BondInv, BondTypes
<1>2. YearOf(now) <= YearOf(MaxTime) /\ YearOf(now) \in Nat /\ YearOf(MaxTime) \in Nat
  BY <1>1, YearMono, YearFacts
<1>3. epochCounter \in 1..MaxEpochs /\ endTime \in [0..MaxEpochs -> Nat]
  BY DEF BondInv, BondTypes
<1>4. LastEnd \in Nat /\ LastEnd <= now /\ currentYear = YearOf(LastEnd)
  BY <1>1, <1>3 DEF BondInv, EpochPlace, LastEnd
<1>5. YearOf(LastEnd) <= YearOf(now) /\ YearOf(LastEnd) \in Nat
  BY <1>1, <1>4, YearMono, YearFacts
<1> QED BY <1>1, <1>2, <1>4, <1>5, ScheduleAssumption DEF YearOf

\* The last settled epoch lies in the current year.
LEMMA LastEndFacts ==
  ASSUME BondInv
  PROVE  /\ LastEnd \in Nat /\ LastEnd <= now /\ Year \in Nat \ {0}
         /\ currentYear * Year <= LastEnd /\ LastEnd < (currentYear + 1) * Year
         /\ YearStart \in Nat
         /\ totalTopUpsOLAS \in [1..MaxEpochs -> Nat] /\ totalTopUpsOLAS \in [1..MaxEpochs -> Int]
         /\ Total(totalTopUpsOLAS, MaxEpochs) \in Nat /\ inflationPerSecond \in Nat
<1>1. Year \in Nat \ {0} /\ MaxEpochs \in Nat /\ now \in Nat
  BY YearBound, EpochConstants
<1>2. epochCounter \in 1..MaxEpochs /\ endTime \in [0..MaxEpochs -> Nat]
      /\ inflationPerSecond \in Nat /\ currentYear \in Nat
      /\ totalTopUpsOLAS \in [1..MaxEpochs -> Nat]
  BY UnitConstants DEF BondInv, BondTypes
<1>3. LastEnd \in Nat /\ LastEnd <= now /\ currentYear = YearOf(LastEnd)
  BY <1>1, <1>2 DEF BondInv, EpochPlace, LastEnd
<1>4. currentYear * Year <= LastEnd /\ LastEnd < currentYear * Year + Year
  BY <1>3, YearFacts
<1>5. (currentYear + 1) * Year = currentYear * Year + Year /\ currentYear * Year \in Nat
  BY <1>1, <1>2
<1>6. totalTopUpsOLAS \in [1..MaxEpochs -> Int]
  BY <1>2
<1>7. Total(totalTopUpsOLAS, MaxEpochs) \in Nat
  BY <1>1, <1>2, TotalNonNegative
<1>8. endTime[0] \in Nat
  BY <1>1, <1>2
<1> QED BY <1>1, <1>2, <1>3, <1>4, <1>5, <1>6, <1>7, <1>8 DEF YearStart

\* Nothing has been handed out at first.
LEMMA ScheduleInitially == Init => ScheduleInv
<1> SUFFICES ASSUME Init
             PROVE  ScheduleInv
  OBVIOUS
<1>0. BondInv
  BY BondInitially
<1> USE DEF Init, InflationInit
<1>1. /\ now \in 0..(Year - 1) /\ Year \in Nat \ {0} /\ MaxEpochs \in Nat \ {0}
  BY ScheduleAssumption, EpochAssumption
<1>2. LastEnd = now /\ YearStart = now
  BY <1>1 DEF LastEnd, YearStart
<1>3. InflationUntilYear(0) \in Nat /\ InflationForYear[0] \in Nat
  BY <1>0, YearBound, ScheduleAdds
<1>4. inflationPerSecond * ((currentYear + 1) * Year - YearStart) <= InflationForYear[currentYear]
  <2> DEFINE k == Year - now
             x == InflationForYear[0]
             d == x \div k
  <2>1. k \in Nat \ {0} /\ x \in Nat
    BY <1>1, <1>3
  <2>2. inflationPerSecond = d /\ currentYear = 0 /\ (0 + 1) * Year - now = k
    BY <1>1
  <2> HIDE DEF k, x
  <2>3. d \in Nat /\ k * d <= x
    BY <2>1, QuotientLow
  <2> HIDE DEF d
  <2>4. d * k = k * d
    BY <2>1, <2>3
  <2> QED BY <1>2, <2>2, <2>3, <2>4 DEF x
<1>5. Total(totalTopUpsOLAS, MaxEpochs) = 0
  <2>1. totalTopUpsOLAS \in [1..MaxEpochs -> Int] /\ \A e \in 1..MaxEpochs : totalTopUpsOLAS[e] = 0
    BY DEF Epochs
  <2> QED BY <1>1, <2>1, TotalZero
<1>6. (LastEnd - YearStart) * inflationPerSecond = 0
  <2>1. inflationPerSecond \in Nat
    BY <1>0, LastEndFacts
  <2>2. LastEnd - YearStart = 0
    BY <1>1, <1>2
  <2> QED BY <2>1, <2>2
<1>7. \A e \in Epochs : e >= epochCounter => totalTopUpsOLAS[e] = 0
  OBVIOUS
<1>8. currentYear = 0 /\ now <= now
  BY <1>1
<1> HIDE DEF Init, InflationInit
<1> QED BY <1>2, <1>3, <1>4, <1>5, <1>6, <1>7, <1>8 DEF ScheduleInv

\* Steps that settle no epoch keep the schedule.
LEMMA ScheduleQuiet ==
  ASSUME ScheduleInv, UNCHANGED settleVars
  PROVE  ScheduleInv'
<1>1. UNCHANGED <<epochCounter, endTime, currentYear, inflationPerSecond, totalTopUpsOLAS>>
  BY DEF settleVars
<1> QED BY <1>1 DEF ScheduleInv, YearStart, LastEnd

\* What a year has handed out by its end is within its inflation.
LEMMA YearEnds ==
  ASSUME NEW s \in Nat, NEW a \in Nat, NEW z \in Nat, NEW p \in Nat, NEW I \in Nat, NEW U \in Nat,
         NEW t \in Nat, s <= a, a <= z, p * (z - s) <= I, t <= U + (a - s) * p
  PROVE  t + (z - a) * p <= U + I
<1> DEFINE x == a - s
           y == z - a
<1>1. x \in Nat /\ y \in Nat /\ z - s = x + y
  OBVIOUS
<1>2. p * (x + y) <= I /\ t <= U + x * p
  BY <1>1
<1> HIDE DEF x, y
<1>3. p * (x + y) = x * p + y * p /\ x * p \in Nat /\ y * p \in Nat
  BY <1>1
<1>4. t + y * p <= U + I
  BY <1>2, <1>3
<1> QED BY <1>4 DEF y

\* A settlement hands out the inflation since the last one; when the year has changed, the rest
\* of the old year at its rate, which completes that year's inflation at most.
LEMMA ScheduleSettle ==
  ASSUME BondInv, BondInv', ScheduleInv, epochCounter < MaxEpochs, SettleEpoch, now' = now
  PROVE  ScheduleInv'
<1> PICK e : e = epochCounter
  OBVIOUS
<1> DEFINE a == LastEnd
           y == currentYear
           z == YearOf(now)
           p == inflationPerSecond
           T == Total(totalTopUpsOLAS, MaxEpochs)
           inflation == InflationBetween(LastEnd, now, inflationPerSecond, currentYear)
<1>1. /\ a \in Nat /\ a <= now /\ now \in Nat /\ Year \in Nat \ {0}
      /\ y \in Nat /\ z \in Nat /\ y <= z /\ z <= MaxTime \div Year /\ y * Year <= a /\ a < (y + 1) * Year
      /\ MaxTime \div Year \in Nat /\ CapYears \in Nat
      /\ YearStart \in Nat /\ T \in Nat /\ p \in Nat
      /\ totalTopUpsOLAS \in [1..MaxEpochs -> Int]
  BY YearBound, LastEndFacts
<1>2. /\ e \in Nat /\ e > 0 /\ e \in 1..MaxEpochs /\ e + 1 \in 1..MaxEpochs /\ MaxEpochs \in Nat
      /\ Epochs = 1..MaxEpochs
  BY EpochTypes, UnitConstants DEF BondInv
<1>3. /\ YearStart <= a
      /\ p * ((y + 1) * Year - YearStart) <= InflationForYear[y]
      /\ \A k \in Epochs : k >= e => totalTopUpsOLAS[k] = 0
      /\ T <= InflationUntilYear(y) + (a - YearStart) * p
  BY DEF ScheduleInv
<1>4. /\ totalTopUpsOLAS' = [totalTopUpsOLAS EXCEPT ![e] = inflation]
      /\ currentYear' = IF z > y THEN z ELSE y
      /\ inflationPerSecond' = IF z > y THEN InflationForYear[z] \div Year ELSE p
      /\ endTime' = [endTime EXCEPT ![e] = now] /\ epochCounter' = e + 1
  BY DEF SettleEpoch
<1>5. LastEnd' = now
  <2>1. endTime \in [0..MaxEpochs -> Nat]
    BY DEF BondInv, BondTypes
  <2>2. LastEnd' = endTime'[(e + 1) - 1]
    BY <1>4 DEF LastEnd
  <2>3. (e + 1) - 1 = e /\ e \in 0..MaxEpochs
    BY <1>2
  <2> QED BY <1>4, <2>1, <2>2, <2>3
<1>6. now - a < Year
  <2>1. now - LastEnd \in epochLen..MaxEpochLen /\ MaxEpochLen < Year /\ MaxEpochLen \in Nat
    BY EpochConstants DEF SettleEpoch, SettleTime
  <2>2. epochLen \in Nat
    BY EpochConstants DEF BondInv, BondTypes
  <2> QED BY <1>1, <2>1, <2>2
<1>7. now < z * Year + Year /\ z * Year <= now
  BY <1>1, YearFacts
<1>8. z > y => z = y + 1
  <2> SUFFICES ASSUME z > y
               PROVE  z <= y + 1
    BY <1>1
  <2>1. now < (y + 1) * Year + Year
    BY <1>1, <1>6
  <2>2. (y + 1) * Year + Year = (y + 2) * Year
    BY <1>1
  <2> SUFFICES ASSUME z >= y + 2
               PROVE  FALSE
    BY <1>1
  <2>3. (y + 2) * Year <= z * Year
    BY <1>1, ProductMono
  <2>4. (y + 2) * Year \in Nat /\ z * Year \in Nat
    BY <1>1
  <2> HIDE DEF z, y, a
  <2> QED BY <1>1, <1>7, <2>1, <2>2, <2>3, <2>4
<1>9. inflation \in Nat /\ totalTopUpsOLAS' \in [1..MaxEpochs -> Nat]
  <2>1. totalTopUpsOLAS' \in [1..MaxEpochs -> Nat]
    BY <1>2 DEF BondInv, BondTypes
  <2>2. totalTopUpsOLAS'[e] = inflation
    BY <1>1, <1>2, <1>4
  <2> QED BY <1>2, <2>1, <2>2
<1>10. Total(totalTopUpsOLAS', MaxEpochs) = T + inflation
  <2>1. Total([totalTopUpsOLAS EXCEPT ![e] = inflation], MaxEpochs)
          = Total(totalTopUpsOLAS, MaxEpochs) - totalTopUpsOLAS[e] + inflation
    <3>1. inflation \in Int
      BY <1>9
    <3> HIDE DEF inflation
    <3> QED BY ONLY <1>1, <1>2, <3>1, TotalExcept
  <2>2. totalTopUpsOLAS[e] = 0
    BY <1>2, <1>3
  <2> HIDE DEF inflation
  <2> QED BY <1>1, <1>4, <1>9, <2>1, <2>2
<1>11. Total(totalTopUpsOLAS, MaxEpochs)' = T + inflation
  BY <1>10 DEF Total, RunningTotal
<1>12. \A k \in Epochs : k >= e + 1 => totalTopUpsOLAS'[k] = 0
  <2>1. \A k \in Epochs : k >= e + 1 => k >= e /\ k # e
    BY <1>2
  <2> HIDE DEF inflation
  <2> QED BY <1>1, <1>2, <1>3, <1>4, <2>1
<1>13. CASE z = y
  <2>1. inflation = (now - a) * p
    <3>1. ~ (YearOf(now) > currentYear)
      BY <1>1, <1>13
    <3> QED BY <3>1 DEF InflationBetween
  <2>2. currentYear' = y /\ inflationPerSecond' = p /\ YearStart' = YearStart
    <3>1. endTime'[0] = endTime[0]
      BY <1>2, <1>4 DEF BondInv, BondTypes
    <3> QED BY <1>1, <1>4, <1>13, <3>1 DEF YearStart
  <2> DEFINE s == YearStart
             U == InflationUntilYear(y)
             u == a - s
             v == now - a
  <2>3. s \in Nat /\ s <= a /\ u \in Nat /\ v \in Nat /\ now - s = u + v
    BY <1>1, <1>3
  <2>4. s <= now
    BY <1>1, <2>3
  <2>5. U \in Nat
    BY <1>1, ScheduleAdds
  <2>6. T + inflation <= U + (now - s) * p
    <3>1. (u + v) * p = u * p + v * p /\ u * p \in Nat /\ v * p \in Nat
      <4> HIDE DEF u, v, p
      <4> QED BY <1>1, <2>3
    <3>2. T <= U + u * p /\ inflation = v * p
      BY <1>3, <2>1
    <3>3. (now - s) * p = (u + v) * p
      BY <2>3
    <3> HIDE DEF u, v, p, U, T, s, inflation
    <3> QED BY <1>1, <2>5, <3>1, <3>2, <3>3
  <2>7. ScheduleInv' <=>
          /\ s <= now
          /\ p * ((y + 1) * Year - s) <= InflationForYear[y]
          /\ \A k \in Epochs : k >= e + 1 => totalTopUpsOLAS'[k] = 0
          /\ T + inflation <= U + (now - s) * p
    BY <1>4, <1>5, <1>11, <2>2 DEF ScheduleInv
  <2> HIDE DEF U, s, T, p, inflation
  <2> QED BY <1>3, <1>12, <2>4, <2>6, <2>7 DEF s, p
<1>14. CASE z = y + 1
  <2> DEFINE s == YearStart
             Z == z * Year
             I == InflationForYear[y]
             J == InflationForYear[z]
             r == J \div Year
             U == InflationUntilYear(y)
  <2>1. currentYear' = z /\ inflationPerSecond' = r /\ z > y
    BY <1>1, <1>4, <1>14
  <2>2. YearStart' = Z
    BY <1>1, <2>1 DEF YearStart
  <2>3. inflation = (Z - a) * p + (now - Z) * r
    BY <1>1, <2>1, InflationAcross
  <2>4. Z \in Nat /\ a <= Z /\ Z <= now /\ s \in Nat /\ s <= a
    BY <1>1, <1>3, <1>7, <1>14
  <2>5. U \in Nat /\ I \in Nat /\ InflationUntilYear(z) = U + I
    BY <1>1, <1>14, ScheduleAdds
  <2>6. J \in Nat
    BY <1>1, ScheduleAdds
  <2>7. r \in Nat /\ Year * r <= J
    <3> HIDE DEF J
    <3> QED BY <1>1, <2>6, QuotientLow
  <2>8. T + (Z - a) * p <= U + I
    <3>1. p * (Z - s) <= I /\ T <= U + (a - s) * p
      BY <1>3, <1>14
    <3> HIDE DEF s, Z, I, U, p, T, a
    <3> QED BY <1>1, <2>4, <2>5, <3>1, YearEnds
  <2>9. r * ((z + 1) * Year - Z) <= J
    <3>1. (z + 1) * Year - Z = Year
      BY <1>1
    <3>2. r * Year = Year * r
      <4> HIDE DEF r
      <4> QED BY <1>1, <2>7
    <3> HIDE DEF r, Z
    <3> QED BY <2>7, <3>1, <3>2
  <2>10. T + inflation <= (U + I) + (now - Z) * r
    <3> DEFINE A == (Z - a) * p
               B == (now - Z) * r
    <3>1. A \in Nat
      <4>1. Z - a \in Nat
        BY <1>1, <2>4
      <4> HIDE DEF Z, a, p
      <4> QED BY <1>1, <4>1
    <3>2. B \in Nat
      <4>1. now - Z \in Nat
        BY <1>1, <2>4
      <4> HIDE DEF Z, r
      <4> QED BY <2>7, <4>1
    <3>3. T + A <= U + I /\ inflation = A + B
      BY <2>3, <2>8
    <3> HIDE DEF A, B, T, U, I, inflation
    <3>4. T + inflation <= (U + I) + B
      BY <1>1, <2>5, <3>1, <3>2, <3>3
    <3> QED BY <3>4 DEF B
  <2>11. ScheduleInv' <=>
          /\ Z <= now
          /\ r * ((z + 1) * Year - Z) <= J
          /\ \A k \in Epochs : k >= e + 1 => totalTopUpsOLAS'[k] = 0
          /\ T + inflation <= InflationUntilYear(z) + (now - Z) * r
    <3>1. ScheduleInv' <=>
            /\ YearStart' <= LastEnd'
            /\ inflationPerSecond' * ((currentYear' + 1) * Year - YearStart') <= InflationForYear[currentYear']
            /\ \A k \in Epochs : k >= epochCounter' => totalTopUpsOLAS'[k] = 0
            /\ Total(totalTopUpsOLAS, MaxEpochs)'
                 <= InflationUntilYear(currentYear') + (LastEnd' - YearStart') * inflationPerSecond'
      BY DEF ScheduleInv, InflationUntilYear
    <3> HIDE DEF T, inflation, r
    <3> QED BY <1>4, <1>5, <1>11, <2>1, <2>2, <3>1 DEF r
  <2> HIDE DEF Z, r, J, U, I, T, inflation, z
  <2> QED BY <1>12, <2>4, <2>5, <2>9, <2>10, <2>11
<1> QED BY <1>1, <1>8, <1>13, <1>14

\* Only a checkpoint settles an epoch.
LEMMA SettleOnlyAtCheckpoint ==
  ASSUME [Next]_vars, ~Checkpoint
  PROVE  UNCHANGED settleVars
<1>1. CASE Tick \/ UNCHANGED vars
  BY <1>1 DEF Tick, vars, inflationVars
<1>2. CASE OwnerCall
  BY <1>2 DEF OwnerCall, changeTokenomicsParameters, changeIncentiveFractions, changeStakingParams
<1>3. CASE BondCall
  BY <1>3 DEF BondCall, create, close, deposit, redeem, inflationRest, inflationVars
<1>4. CASE UnitCall
  BY <1>4 DEF UnitCall, donate, claimOwnerIncentives, inflationVars
<1>5. CASE StakingCall
  BY <1>5 DEF StakingCall, addNominee, removeNominee, checkpointNominee, claimStakingIncentives,
              retain, inflationVars
<1> QED BY <1>1, <1>2, <1>3, <1>4, <1>5 DEF Next

\* Every step keeps the schedule.
LEMMA ScheduleNext == BondInv /\ BondInv' /\ ScheduleInv /\ [Next]_vars => ScheduleInv'
<1> SUFFICES ASSUME BondInv, BondInv', ScheduleInv, [Next]_vars
             PROVE  ScheduleInv'
  OBVIOUS
<1>1. CASE Checkpoint
  <2>1. epochCounter < MaxEpochs /\ SettleEpoch /\ now' = now
    BY <1>1 DEF Checkpoint
  <2> QED BY <2>1, ScheduleSettle
<1>2. CASE ~Checkpoint
  BY <1>2, SettleOnlyAtCheckpoint, ScheduleQuiet
<1> QED BY <1>1, <1>2

LEMMA ScheduleAlways == Spec => []ScheduleInv
<1>1. BondInv /\ ScheduleInv /\ [Next]_vars => BondInv' /\ ScheduleInv'
  BY BondNext, ScheduleNext
<1> QED BY <1>1, BondInitially, ScheduleInitially, PTL DEF Spec

\* The years before the current one and what has passed of it: within the schedule.
LEMMA ScheduleHolds == BondInv /\ ScheduleInv => ScheduleKept
<1> SUFFICES ASSUME BondInv, ScheduleInv
             PROVE  ScheduleKept
  OBVIOUS
<1> DEFINE s == YearStart
           a == LastEnd
           p == inflationPerSecond
           z == (currentYear + 1) * Year
           I == InflationForYear[currentYear]
           U == InflationUntilYear(currentYear)
           t == Total(totalTopUpsOLAS, MaxEpochs)
<1>1. /\ s \in Nat /\ a \in Nat /\ p \in Nat /\ t \in Nat /\ a < z
      /\ currentYear \in Nat /\ Year \in Nat \ {0}
  BY LastEndFacts, YearBound
<1>2. z \in Nat /\ a <= z
  BY <1>1
<1>3. U \in Nat /\ I \in Nat /\ InflationUntilYear(currentYear + 1) = U + I
  BY YearBound, ScheduleAdds
<1>4. s <= a /\ p * (z - s) <= I /\ t <= U + (a - s) * p
  BY DEF ScheduleInv
<1>5. (z - a) * p \in Nat
  <2>1. z - a \in Nat
    BY <1>1, <1>2
  <2> HIDE DEF z, a, p
  <2> QED BY <1>1, <2>1
<1>6. t + (z - a) * p <= U + I
  <2> HIDE DEF s, a, p, z, I, U, t
  <2> QED BY <1>1, <1>2, <1>3, <1>4, YearEnds
<1>7. t <= InflationUntilYear(currentYear + 1)
  <2> DEFINE w == (z - a) * p
  <2>1. t + w <= U + I /\ w \in Nat
    BY <1>5, <1>6
  <2> HIDE DEF w, t, U, I
  <2> QED BY <1>1, <1>3, <2>1
<1>8. currentYear = YearOf(LastEnd)
  BY DEF BondInv, EpochPlace
<1> QED BY <1>7, <1>8 DEF ScheduleKept

-----------------------------------------------------------------------------
(* Sums over epochs and minima                                               *)

\* The least member of a set that has one.
LEMMA MinOfFacts ==
  ASSUME NEW S \in SUBSET Int, NEW m \in S, \A y \in S : m <= y
  PROVE  MinOf(S) \in S /\ \A y \in S : MinOf(S) <= y
BY DEF MinOf

\* The lesser of two numbers.
LEMMA MinOfTwo ==
  ASSUME NEW a \in Int, NEW b \in Int
  PROVE  /\ MinOf({a, b}) = a \/ MinOf({a, b}) = b
         /\ MinOf({a, b}) <= a /\ MinOf({a, b}) <= b
<1> DEFINE S == {a, b}
<1>1. S \in SUBSET Int /\ a \in S /\ b \in S
  OBVIOUS
<1>2. MinOf(S) \in S /\ \A y \in S : MinOf(S) <= y
  <2>1. CASE a <= b
    <3>1. \A y \in S : a <= y
      BY <2>1
    <3> HIDE DEF S
    <3> QED BY <1>1, <3>1, MinOfFacts
  <2>2. CASE b <= a
    <3>1. \A y \in S : b <= y
      BY <2>2
    <3> HIDE DEF S
    <3> QED BY <1>1, <3>1, MinOfFacts
  <2> QED BY <2>1, <2>2
<1> QED BY <1>2

\* The function whose total a sum over epochs is.
Window(f, first, last) == [e \in Epochs |-> IF e \in first..(last - 1) THEN f[e] ELSE 0]

LEMMA WindowTypes ==
  ASSUME NEW f \in [Epochs -> Nat], NEW first \in Int, NEW last \in Int
  PROVE  /\ Window(f, first, last) \in [1..MaxEpochs -> Nat]
         /\ Window(f, first, last) \in [1..MaxEpochs -> Int]
         /\ SumOverEpochs(f, first, last) = Total(Window(f, first, last), MaxEpochs)
         /\ SumOverEpochs(f, first, last) \in Nat
<1>1. Epochs = 1..MaxEpochs /\ MaxEpochs \in Nat
  BY UnitConstants
<1>2. Window(f, first, last) \in [1..MaxEpochs -> Nat]
  BY <1>1 DEF Window
<1>3. Window(f, first, last) \in [1..MaxEpochs -> Int]
  BY <1>2
<1>4. SumOverEpochs(f, first, last) = Total(Window(f, first, last), MaxEpochs)
  BY DEF SumOverEpochs, Window
<1>5. Total(Window(f, first, last), MaxEpochs) \in Nat
  BY <1>1, <1>2, TotalNonNegative
<1> QED BY <1>2, <1>3, <1>4, <1>5

\* A sum over epochs is that over the first of them and that over the rest.
LEMMA SumSplits ==
  ASSUME NEW f \in [Epochs -> Nat], NEW first \in Int, NEW mid \in Int, NEW last \in Int,
         first <= mid, mid <= last
  PROVE  SumOverEpochs(f, first, last)
           = SumOverEpochs(f, first, mid) + SumOverEpochs(f, mid, last)
<1> DEFINE h == Window(f, first, last)
           l == Window(f, first, mid)
           r == Window(f, mid, last)
<1>1. Epochs = 1..MaxEpochs /\ MaxEpochs \in Nat
  BY UnitConstants
<1>2. /\ h \in [1..MaxEpochs -> Int] /\ l \in [1..MaxEpochs -> Int] /\ r \in [1..MaxEpochs -> Int]
      /\ SumOverEpochs(f, first, last) = Total(h, MaxEpochs)
      /\ SumOverEpochs(f, first, mid) = Total(l, MaxEpochs)
      /\ SumOverEpochs(f, mid, last) = Total(r, MaxEpochs)
  BY WindowTypes
<1>3. ASSUME NEW e \in 1..MaxEpochs
      PROVE  h[e] = l[e] + r[e]
  <2>1. /\ h[e] = IF e \in first..(last - 1) THEN f[e] ELSE 0
        /\ l[e] = IF e \in first..(mid - 1) THEN f[e] ELSE 0
        /\ r[e] = IF e \in mid..(last - 1) THEN f[e] ELSE 0
        /\ f[e] \in Nat
    BY <1>1 DEF Window
  <2> HIDE DEF h, l, r
  <2> QED BY <2>1
<1> HIDE DEF h, l, r
<1>4. Total(h, MaxEpochs) = Total(l, MaxEpochs) + Total(r, MaxEpochs)
  BY ONLY <1>1, <1>2, <1>3, TotalSum
<1> QED BY <1>2, <1>4

\* The sum over no epochs, and that over one.
LEMMA SumEnds ==
  ASSUME NEW f \in [Epochs -> Nat], NEW e \in Epochs
  PROVE  /\ SumOverEpochs(f, e, e) = 0
         /\ SumOverEpochs(f, e, e + 1) = f[e]
<1> DEFINE z == Window(f, e, e)
           o == Window(f, e, e + 1)
<1>1. Epochs = 1..MaxEpochs /\ MaxEpochs \in Nat /\ e \in Int /\ e + 1 \in Int
  BY UnitConstants
<1>2. /\ z \in [1..MaxEpochs -> Int] /\ o \in [1..MaxEpochs -> Int]
      /\ SumOverEpochs(f, e, e) = Total(z, MaxEpochs)
      /\ SumOverEpochs(f, e, e + 1) = Total(o, MaxEpochs)
  BY <1>1, WindowTypes
<1>3. \A k \in 1..MaxEpochs : z[k] = 0
  BY <1>1 DEF Window
<1>4. o[e] = f[e] /\ \A k \in 1..MaxEpochs : k # e => o[k] = 0
  BY <1>1 DEF Window
<1> HIDE DEF z, o
<1>5. Total(z, MaxEpochs) = 0
  BY <1>1, <1>2, <1>3, TotalZero
<1>6. Total(o, MaxEpochs) = o[e]
  BY <1>1, <1>2, <1>4, TotalSingle
<1> QED BY <1>2, <1>4, <1>5, <1>6

\* Sums over the same epochs of functions that agree on them.
LEMMA SumAgrees ==
  ASSUME NEW f, NEW g, NEW first \in Int, NEW last \in Int,
         \A e \in Epochs : e \in first..(last - 1) => f[e] = g[e]
  PROVE  SumOverEpochs(f, first, last) = SumOverEpochs(g, first, last)
BY DEF SumOverEpochs

\* Scaled sums over the same epochs.
LEMMA SumScaled ==
  ASSUME NEW f \in [Epochs -> Nat], NEW g \in [Epochs -> Nat], NEW h \in [Epochs -> Nat],
         NEW first \in Int, NEW last \in Int, NEW k \in Nat,
         \A e \in Epochs : k * (f[e] + g[e]) <= h[e]
  PROVE  k * (SumOverEpochs(f, first, last) + SumOverEpochs(g, first, last))
           <= SumOverEpochs(h, first, last)
<1> DEFINE F == Window(f, first, last)
           G == Window(g, first, last)
           H == Window(h, first, last)
           B == [e \in 1..MaxEpochs |-> F[e] + G[e]]
           one == 1
<1>1. Epochs = 1..MaxEpochs /\ MaxEpochs \in Nat
  BY UnitConstants
<1>2. /\ F \in [1..MaxEpochs -> Nat] /\ G \in [1..MaxEpochs -> Nat]
      /\ F \in [1..MaxEpochs -> Int] /\ G \in [1..MaxEpochs -> Int] /\ H \in [1..MaxEpochs -> Int]
      /\ SumOverEpochs(f, first, last) = Total(F, MaxEpochs)
      /\ SumOverEpochs(g, first, last) = Total(G, MaxEpochs)
      /\ SumOverEpochs(h, first, last) = Total(H, MaxEpochs)
      /\ Total(F, MaxEpochs) \in Int /\ Total(G, MaxEpochs) \in Int /\ Total(H, MaxEpochs) \in Int
  BY WindowTypes
<1>3. ASSUME NEW e \in 1..MaxEpochs
      PROVE  (F[e] + G[e]) * k <= H[e] * one
  <2>1. /\ F[e] = IF e \in first..(last - 1) THEN f[e] ELSE 0
        /\ G[e] = IF e \in first..(last - 1) THEN g[e] ELSE 0
        /\ H[e] = IF e \in first..(last - 1) THEN h[e] ELSE 0
        /\ f[e] \in Nat /\ g[e] \in Nat /\ h[e] \in Nat
        /\ k * (f[e] + g[e]) <= h[e]
    BY <1>1 DEF Window
  <2> HIDE DEF F, G, H
  <2>2. CASE e \in first..(last - 1)
    <3>1. (f[e] + g[e]) * k = k * (f[e] + g[e])
      BY <2>1
    <3> QED BY <2>1, <2>2, <3>1
  <2>3. CASE e \notin first..(last - 1)
    BY <2>1, <2>3
  <2> QED BY <2>2, <2>3
<1> HIDE DEF F, G, H
<1>4. B \in [1..MaxEpochs -> Int] /\ \A e \in 1..MaxEpochs : B[e] = F[e] + G[e]
  BY <1>2
<1>5. \A e \in 1..MaxEpochs : B[e] * k <= H[e] * one
  BY <1>3, <1>4
<1> HIDE DEF B, one
<1>6. Total(B, MaxEpochs) = Total(F, MaxEpochs) + Total(G, MaxEpochs)
  BY ONLY <1>1, <1>2, <1>4, TotalSum
<1>7. k \in Int /\ one \in Int
  BY DEF one
<1>8. Total(B, MaxEpochs) * k <= Total(H, MaxEpochs) * one
  BY ONLY <1>1, <1>2, <1>4, <1>5, <1>7, TotalScaledBound
<1> DEFINE b == Total(B, MaxEpochs)
           t == Total(H, MaxEpochs)
<1>9. b \in Int /\ t \in Int
  BY <1>2, <1>6
<1>10. b * k <= t * 1
  BY <1>8 DEF one
<1>11. k * b <= t
  <2> HIDE DEF b, t
  <2> QED BY <1>9, <1>10
<1> QED BY <1>2, <1>6, <1>11

-----------------------------------------------------------------------------
(* The staking incentives: what a nominee gets                                *)

\* The constants of the dispenser.
LEMMA NomineeConstants ==
  /\ NumNominees \in Nat /\ Nominees = 1..NumNominees /\ Retainer \in Nominees
  /\ Scale \in Nat \ {0} /\ BridgeUnit \in [Nominees -> Nat \ {0}]
  /\ MaxNumClaimingEpochs \in Nat \ {0}
  /\ \A v \in VoteOutcomes \cup {NoVotes} :
       /\ v.weight \in [Nominees -> Nat] /\ v.sum \in Nat
       /\ \A n \in Nominees : v.weight[n] \in Nat
BY DispenserAssumption DEF Nominees, NoVotes

\* The terms of a nominee's share.
LEMMA ShareTypes ==
  ASSUME BondTypes, StakingTyped, NEW n \in Nominees, NEW e \in Epochs
  PROVE  /\ stakingIncentive[e] \in Nat /\ votes[e].weight[n] \in Nat /\ votes[e].sum \in Nat
         /\ stakingParams[e].maxIncentive \in Nat /\ stakingParams[e].minWeight \in Nat
         /\ BridgeUnit[n] \in Nat \ {0} /\ Weighted(n, e) \in Nat
<1>1. e \in 1..(MaxEpochs + 1)
  BY UnitConstants
<1>2. stakingParams[e] \in {FirstStakingParams} \cup NewStakingParams
  BY <1>1 DEF StakingTyped
<1>3. votes[e] \in VoteOutcomes \cup {NoVotes}
  BY DEF StakingTyped
<1>4. votes[e].weight[n] \in Nat /\ votes[e].sum \in Nat
  BY <1>3, NomineeConstants
<1>5. stakingIncentive[e] \in Nat
  BY <1>1 DEF StakingTyped
<1>6. Weighted(n, e) \in Nat
  BY <1>4, <1>5 DEF Weighted
<1> QED BY <1>2, <1>4, <1>5, <1>6, NomineeConstants, StakingParamsAssumption

\* An amount split in two, each weighted part rounded down.
LEMMA SplitWeights ==
  ASSUME NEW i \in Nat, NEW a \in Nat, a <= i, NEW w \in Nat, NEW k \in Nat \ {0}
  PROVE  /\ (a * w) \div k \in Nat /\ ((i - a) * w) \div k \in Nat
         /\ k * ((a * w) \div k + ((i - a) * w) \div k) <= i * w
<1> DEFINE x == a * w
           y == (i - a) * w
           p == x \div k
           q == y \div k
<1>1. x \in Nat /\ y \in Nat /\ x + y = i * w
  OBVIOUS
<1> HIDE DEF x, y
<1>2. p \in Nat /\ q \in Nat /\ k * p <= x /\ k * q <= y
  BY <1>1, QuotientLow
<1> HIDE DEF p, q
<1>3. k * (p + q) = k * p + k * q /\ k * p \in Nat /\ k * q \in Nat
  BY <1>2
<1>4. k * (p + q) <= i * w
  BY <1>1, <1>2, <1>3
<1> QED BY <1>2, <1>4 DEF p, q, x, y

\* What an epoch pays to a nominee and what it returns are no more than its share: what exceeds
\* the power that voted, the maximum and the decimals of the bridge is returned once.
LEMMA IncentiveWithin ==
  ASSUME BondTypes, StakingTyped, NEW n \in Nominees, NEW e \in Epochs
  PROVE  /\ EpochIncentive(n, e).paid \in Nat /\ EpochIncentive(n, e).returned \in Nat
         /\ Scale * (EpochIncentive(n, e).paid + EpochIncentive(n, e).returned) <= Weighted(n, e)
<1> DEFINE i == stakingIncentive[e]
           s == votes[e].sum
           w == votes[e].weight[n]
           k == Scale
           a == MinOf({i, s})
           share == (a * w) \div k
           rest == ((i - a) * w) \div k
           m == stakingParams[e].maxIncentive
           capped == MinOf({share, m})
           b == BridgeUnit[n]
           normalized == (capped \div b) * b
           low == w < stakingParams[e].minWeight
<1>1. i \in Nat /\ s \in Nat /\ w \in Nat /\ k \in Nat \ {0} /\ m \in Nat /\ b \in Nat \ {0}
  BY ShareTypes, NomineeConstants
<1>2. Weighted(n, e) = i * w
  BY DEF Weighted
<1>3. EpochIncentive(n, e) = IF low THEN [paid |-> 0, returned |-> (i * w) \div k]
                             ELSE [paid |-> normalized, returned |-> rest + (share - normalized)]
  BY DEF EpochIncentive, Available
<1>4. a \in Nat /\ a <= i
  <2> HIDE DEF i, s
  <2>1. i \in Int /\ s \in Int
    BY <1>1
  <2>2. (a = i \/ a = s) /\ a <= i
    BY ONLY <2>1, MinOfTwo
  <2> HIDE DEF a
  <2> QED BY <1>1, <2>2
<1>5. share \in Nat /\ rest \in Nat /\ k * (share + rest) <= i * w
  <2> HIDE DEF i, w, k, a
  <2> QED BY <1>1, <1>4, SplitWeights
<1>6. capped \in Nat /\ capped <= share
  <2> HIDE DEF share, m
  <2>1. share \in Int /\ m \in Int
    BY <1>1, <1>5
  <2>2. (capped = share \/ capped = m) /\ capped <= share
    BY ONLY <2>1, MinOfTwo
  <2> HIDE DEF capped
  <2> QED BY <1>1, <1>5, <2>2
<1>7. normalized \in Nat /\ normalized <= capped
  <2> DEFINE d == capped \div b
  <2>1. d \in Nat /\ b * d <= capped
    <3> HIDE DEF capped, b
    <3> QED BY <1>1, <1>6, QuotientLow
  <2> HIDE DEF d, b, capped
  <2>2. d * b \in Nat /\ d * b = b * d
    BY <1>1, <2>1
  <2>3. d * b \in Nat /\ d * b <= capped
    BY <2>1, <2>2
  <2> QED BY <2>3 DEF d
<1>8. CASE low
  <2> DEFINE x == i * w
             q == x \div k
  <2>1. x \in Nat
    <3> HIDE DEF i, w
    <3> QED BY <1>1
  <2>2. EpochIncentive(n, e) = [paid |-> 0, returned |-> q]
    BY <1>3, <1>8
  <2> HIDE DEF x
  <2>3. q \in Nat /\ k * q <= x
    <3> HIDE DEF k
    <3> QED BY <1>1, <2>1, QuotientLow
  <2> HIDE DEF q
  <2>4. EpochIncentive(n, e).paid = 0 /\ EpochIncentive(n, e).returned = q
    BY <2>2
  <2>5. 0 + q = q
    BY <2>3
  <2> QED BY <1>2, <2>3, <2>4, <2>5 DEF x
<1>9. CASE ~low
  <2>1. EpochIncentive(n, e) = [paid |-> normalized, returned |-> rest + (share - normalized)]
    BY <1>3, <1>9
  <2> HIDE DEF share, rest, normalized, capped
  <2>2. EpochIncentive(n, e).paid = normalized
        /\ EpochIncentive(n, e).returned = rest + (share - normalized)
    BY <2>1
  <2>3. /\ rest + (share - normalized) \in Nat
        /\ normalized + (rest + (share - normalized)) = share + rest
    BY <1>5, <1>6, <1>7
  <2> QED BY <1>2, <1>5, <1>7, <2>2, <2>3
<1> QED BY <1>8, <1>9

\* A claim ends at a later epoch, up to the current one.
LEMMA LastClaimedFacts ==
  ASSUME BondTypes, StakingTyped, NEW n \in Nominees, CanClaim(n), NEW num \in Nat \ {0}
  PROVE  /\ mapLastClaimed[n] \in Nat /\ mapLastClaimed[n] > 0
         /\ LastClaimed(n, num) \in Nat /\ mapLastClaimed[n] <= LastClaimed(n, num)
         /\ LastClaimed(n, num) <= epochCounter
         /\ mapRemoved[n] > 0 => LastClaimed(n, num) <= mapRemoved[n] + 1
<1> DEFINE l == mapLastClaimed[n]
           r == mapRemoved[n]
           S == {l + num, epochCounter} \cup (IF r > 0 THEN {r + 1} ELSE {})
<1>1. epochCounter \in Nat /\ MaxEpochs \in Nat
  BY EpochTypes
<1>2. l \in Nat /\ l > 0 /\ l <= epochCounter - 1
  BY <1>1 DEF CanClaim
<1>3. r \in Nat /\ (r > 0 => l <= r)
  BY <1>1 DEF CanClaim, StakingTyped
<1>4. LastClaimed(n, num) = MinOf(S)
  BY DEF LastClaimed
<1> HIDE DEF l, r
<1> DEFINE x == l + num
           c == IF r > 0 THEN r + 1 ELSE epochCounter
<1>5. /\ x \in Nat /\ l <= x /\ c \in Nat /\ l <= c
      /\ \A y : y \in S <=> y = x \/ y = epochCounter \/ y = c
  BY <1>1, <1>2, <1>3
<1>6. l <= epochCounter /\ (r > 0 => c = r + 1)
  BY <1>1, <1>2
<1> HIDE DEF S, x, c
<1>7. MinOf(S) \in S /\ \A y \in S : MinOf(S) <= y
  <2>1. S \in SUBSET Int
    BY <1>1, <1>5
  <2>2. \E m \in S : \A y \in S : m <= y
    <3>1. CASE x <= epochCounter /\ x <= c
      BY <1>1, <1>5, <3>1
    <3>2. CASE epochCounter <= x /\ epochCounter <= c
      BY <1>1, <1>5, <3>2
    <3>3. CASE c <= x /\ c <= epochCounter
      BY <1>1, <1>5, <3>3
    <3> QED BY <1>1, <1>5, <3>1, <3>2, <3>3
  <2> QED BY <2>1, <2>2, MinOfFacts
<1> QED BY <1>1, <1>2, <1>4, <1>5, <1>6, <1>7 DEF l, r

\* What is due to the nominees.
LEMMA DueTypes ==
  ASSUME BondTypes, StakingTyped
  PROVE  /\ \A n \in Nominees : /\ WeightedOf(n) \in [Epochs -> Nat]
                                /\ DueTo(n) \in Nat
         /\ Due \in [1..NumNominees -> Nat] /\ Due \in [1..NumNominees -> Int]
         /\ Total(Due, NumNominees) \in Nat
<1>1. ASSUME NEW n \in Nominees
      PROVE  WeightedOf(n) \in [Epochs -> Nat] /\ DueTo(n) \in Nat
  <2>1. WeightedOf(n) \in [Epochs -> Nat]
    BY ShareTypes DEF WeightedOf
  <2>2. mapLastClaimed[n] \in Int /\ epochCounter \in Int
    BY EpochTypes DEF StakingTyped
  <2>3. SumOverEpochs(WeightedOf(n), mapLastClaimed[n], epochCounter) \in Nat
    BY <2>1, <2>2, WindowTypes
  <2> QED BY <2>1, <2>3 DEF DueTo
<1>2. Due \in [1..NumNominees -> Nat]
  BY <1>1, NomineeConstants DEF Due
<1>3. Due \in [1..NumNominees -> Int]
  BY <1>2
<1>4. Total(Due, NumNominees) \in Nat
  BY <1>2, NomineeConstants, TotalNonNegative
<1> QED BY <1>1, <1>2, <1>3, <1>4

\* The part of an epoch's inflation that is for staking.
StakingPartsTyped ==
    /\ \A e \in Epochs : StakingOf(e) \in Nat
    /\ StakingParts \in [1..MaxEpochs -> Nat] /\ StakingParts \in [1..MaxEpochs -> Int]
    /\ Total(StakingParts, MaxEpochs) \in Nat

LEMMA StakingPartAlways == BondTypes => StakingPartsTyped
<1> SUFFICES ASSUME BondTypes
             PROVE  StakingPartsTyped
  OBVIOUS
<1>1. ASSUME NEW e \in Epochs
      PROVE  StakingOf(e) \in Nat
  <2>1. totalTopUpsOLAS[e] \in Nat /\ fractions[e] \in {FirstFractions} \cup NewFractions
    BY UnitConstants DEF BondTypes
  <2>2. fractions[e].staking \in Nat
    BY <2>1, FractionTypes
  <2>3. totalTopUpsOLAS[e] * fractions[e].staking \in Nat
    BY <2>1, <2>2
  <2> QED BY <2>3, QuotientLow DEF StakingOf
<1>2. StakingParts \in [1..MaxEpochs -> Nat]
  BY <1>1, UnitConstants DEF StakingParts
<1>3. StakingParts \in [1..MaxEpochs -> Int]
  BY <1>2
<1>4. Total(StakingParts, MaxEpochs) \in Nat
  BY <1>2, UnitConstants, TotalNonNegative
<1> QED BY <1>1, <1>2, <1>3, <1>4 DEF StakingPartsTyped

\* The parts of the settled epochs stay when no fraction of theirs changes.
LEMMA SameStakingParts ==
  ASSUME BondTypes, UNCHANGED <<epochCounter, totalTopUpsOLAS>>,
         \A e \in 1..epochCounter : fractions'[e] = fractions[e]
  PROVE  StakingParts' = StakingParts
<1>1. \A e \in Settled : e \in 1..epochCounter
  BY EpochTypes DEF Settled
<1>2. \A e \in Settled : StakingOf(e)' = StakingOf(e)
  BY <1>1 DEF StakingOf
<1> QED BY <1>2 DEF StakingParts, Settled

\* The weights beyond 100%.
LEMMA OversTypes ==
  ASSUME BondTypes, StakingTyped
  PROVE  /\ \A e \in Epochs : Excess(e) \in Nat
         /\ Overs \in [1..MaxEpochs -> Nat] /\ Overs \in [1..MaxEpochs -> Int]
         /\ Total(Overs, MaxEpochs) \in Nat
<1>1. ASSUME NEW e \in Epochs
      PROVE  Excess(e) \in Nat /\ stakingIncentive[e] \in Nat
  <2>1. votes[e].weight \in [1..NumNominees -> Nat]
    <3>1. votes[e] \in VoteOutcomes \cup {NoVotes}
      BY DEF StakingTyped
    <3>2. /\ Nominees = 1..NumNominees /\ NoVotes.weight = [n \in Nominees |-> 0]
          /\ \A v \in VoteOutcomes : v.weight \in [Nominees -> Nat]
      BY DispenserAssumption DEF Nominees, NoVotes
    <3> QED BY <3>1, <3>2
  <2>2. Total(votes[e].weight, NumNominees) \in Nat
    BY <2>1, NomineeConstants, TotalNonNegative
  <2>3. stakingIncentive[e] \in Nat
    <3>1. e \in 1..(MaxEpochs + 1)
      BY UnitConstants
    <3>2. stakingIncentive \in [1..(MaxEpochs + 1) -> Nat]
      BY DEF StakingTyped
    <3> QED BY <3>1, <3>2
  <2> QED BY <2>2, <2>3, NomineeConstants DEF Excess
<1>2. \A e \in Epochs : stakingIncentive[e] * Excess(e) \in Nat
  BY <1>1
<1>3. Overs \in [1..MaxEpochs -> Nat]
  BY <1>2, UnitConstants DEF Overs
<1>4. Overs \in [1..MaxEpochs -> Int]
  BY <1>3
<1>5. Total(Overs, MaxEpochs) \in Nat
  BY <1>3, UnitConstants, TotalNonNegative
<1> QED BY <1>1, <1>3, <1>4, <1>5

LEMMA OversTypesNext == (BondTypes /\ StakingTyped)' => (Overs \in [1..MaxEpochs -> Nat])'
BY OversTypes, PTL

\* They stay when no vote and no incentive of a settled epoch changes.
LEMMA SameOvers ==
  ASSUME BondTypes, UNCHANGED <<epochCounter, votes>>,
         \A e \in Epochs : e # epochCounter => stakingIncentive'[e] = stakingIncentive[e]
  PROVE  Overs' = Overs
<1>1. \A e \in Settled : e # epochCounter
  BY EpochTypes DEF Settled
<1>2. \A e \in Epochs : Excess(e)' = Excess(e)
  BY DEF Excess
<1>3. Settled' = Settled
  BY DEF Settled
<1> QED BY <1>1, <1>2, <1>3 DEF Overs

\* Nothing is due at first.
LEMMA StakingInitially == Init => StakingInv
<1> SUFFICES ASSUME Init
             PROVE  StakingInv
  OBVIOUS
<1>0. BondTypes
  BY BondInitially DEF BondInv
<1>1. epochCounter = 1 /\ stakingIncentive = [e \in 1..(MaxEpochs + 1) |-> 0]
      /\ stakingParams = [e \in 1..(MaxEpochs + 1) |-> FirstStakingParams]
      /\ mapLastClaimed = [n \in Nominees |-> 0] /\ mapRemoved = [n \in Nominees |-> 0]
      /\ votes = [e \in Epochs |-> NoVotes] /\ filled = [n \in Nominees |-> 0]
      /\ distributed = 0 /\ forfeited = 0
  BY DEF Init, InflationInit, DispenserInit
<1>2. StakingTyped
  <2>1. 0 \in 0..MaxEpochs /\ 0 <= 1
    BY UnitConstants
  <2> QED BY <1>1, <2>1 DEF StakingTyped
<1>3. Due \in [1..NumNominees -> Int] /\ \A n \in 1..NumNominees : Due[n] = 0
  BY <1>1, NomineeConstants DEF Due, DueTo
<1>4. Total(Due, NumNominees) = 0
  BY <1>3, NomineeConstants, TotalZero
<1>5. Total(StakingParts, MaxEpochs) \in Nat
  BY <1>0, StakingPartAlways DEF StakingPartsTyped
<1>6. stakingIncentive[epochCounter] = 0
  BY <1>1, UnitConstants
<1>7. Scale * (0 + 0 + 0) + 0 <= Scale * Total(StakingParts, MaxEpochs) + Total(Overs, MaxEpochs)
  <2> DEFINE t == Total(StakingParts, MaxEpochs)
             o == Total(Overs, MaxEpochs)
  <2>1. t \in Nat /\ Scale \in Nat /\ o \in Nat
    BY <1>0, <1>2, <1>5, OversTypes, NomineeConstants
  <2> HIDE DEF t, o
  <2>2. Scale * t \in Nat /\ Scale * (0 + 0 + 0) = 0
    BY <2>1
  <2> QED BY <2>1, <2>2 DEF t, o
<1>8. StakingBudget
  BY <1>1, <1>4, <1>6, <1>7 DEF StakingBudget
<1> QED BY <1>2, <1>8 DEF StakingInv

\* Steps that move nothing of the staking incentives keep their budget.
LEMMA StakingQuiet ==
  ASSUME BondTypes, StakingInv, StakingTyped',
         UNCHANGED <<epochCounter, totalTopUpsOLAS, mapLastClaimed, votes, stakingIncentive,
                     distributed, forfeited>>,
         \A e \in 1..epochCounter : fractions'[e] = fractions[e]
  PROVE  StakingInv'
<1>1. StakingParts' = StakingParts
  BY SameStakingParts
<1>2. Due' = Due
  BY DEF Due, DueTo, WeightedOf, Weighted
<1>3. StakingBudget
  BY DEF StakingInv
<1>4. Overs' = Overs
  BY SameOvers
<1> QED BY <1>1, <1>2, <1>3, <1>4 DEF StakingInv, StakingBudget

\* A claim or a retention takes what it hands out or returns from what was due to the nominee.
LEMMA StakingClaims ==
  ASSUME BondTypes, StakingInv, StakingTyped',
         UNCHANGED <<epochCounter, totalTopUpsOLAS, fractions, votes>>,
         NEW n \in Nominees, mapLastClaimed[n] > 0,
         NEW last \in Nat, mapLastClaimed[n] <= last, last <= epochCounter,
         mapLastClaimed' = [mapLastClaimed EXCEPT ![n] = last],
         NEW c \in Nat, NEW d \in Nat,
         stakingIncentive' = [stakingIncentive EXCEPT ![epochCounter] = @ + c],
         distributed' + forfeited' = distributed + forfeited + d,
         Scale * (c + d) <= SumOverEpochs(WeightedOf(n), mapLastClaimed[n], last)
  PROVE  StakingInv'
<1> PICK e : e = epochCounter
  OBVIOUS
<1> DEFINE first == mapLastClaimed[n]
           taken == SumOverEpochs(WeightedOf(n), first, last)
           rest == SumOverEpochs(WeightedOf(n), last, e)
<1>1. StakingTyped /\ StakingBudget
  BY DEF StakingInv
<1>2. e \in Nat /\ e > 0 /\ e \in Epochs /\ e \in 1..(MaxEpochs + 1)
  BY EpochTypes
<1>3. first \in Nat /\ first > 0 /\ first <= last /\ last <= e /\ last > 0
  BY <1>1, UnitConstants DEF StakingTyped
<1>4. \A m \in Nominees : mapLastClaimed[m] \in Nat
  BY <1>1, UnitConstants DEF StakingTyped
<1>5. StakingParts' = StakingParts
  BY SameStakingParts
<1>6. stakingIncentive'[e] = stakingIncentive[e] + c
      /\ \A k \in Epochs : k # e => stakingIncentive'[k] = stakingIncentive[k]
  BY <1>1, <1>2, UnitConstants DEF StakingTyped
<1>7. ASSUME NEW m \in Nominees, NEW k \in Epochs, k # e
      PROVE  WeightedOf(m)'[k] = WeightedOf(m)[k]
  BY <1>6, <1>7 DEF WeightedOf, Weighted
<1>8. ASSUME NEW m \in Nominees, NEW x \in Nat
      PROVE  SumOverEpochs(WeightedOf(m)', x, e) = SumOverEpochs(WeightedOf(m), x, e)
  <2> DEFINE W1 == WeightedOf(m)'
             W0 == WeightedOf(m)
  <2>1. \A k \in Epochs : k \in x..(e - 1) => W1[k] = W0[k]
    BY <1>2, <1>7
  <2> HIDE DEF W1, W0
  <2>2. x \in Int /\ e \in Int
    BY <1>2
  <2>3. SumOverEpochs(W1, x, e) = SumOverEpochs(W0, x, e)
    BY ONLY <2>1, <2>2, SumAgrees
  <2> QED BY <2>3 DEF W1, W0
<1>9. ASSUME NEW m \in Nominees
      PROVE  DueTo(m)' = IF m = n THEN rest ELSE DueTo(m)
  <2>1. mapLastClaimed'[m] = IF m = n THEN last ELSE mapLastClaimed[m]
    BY <1>1 DEF StakingTyped
  <2>2. DueTo(m)' = IF mapLastClaimed'[m] = 0 THEN 0
                    ELSE SumOverEpochs(WeightedOf(m)', mapLastClaimed'[m], e)
    BY DEF DueTo, SumOverEpochs
  <2>3. DueTo(m) = IF mapLastClaimed[m] = 0 THEN 0
                   ELSE SumOverEpochs(WeightedOf(m), mapLastClaimed[m], e)
    BY DEF DueTo
  <2>4. CASE m = n
    <3>1. DueTo(m)' = SumOverEpochs(WeightedOf(m)', last, e)
      BY <1>3, <2>1, <2>2, <2>4
    <3> QED BY <1>8, <2>4, <3>1
  <2>5. CASE m # n
    <3>1. mapLastClaimed'[m] = mapLastClaimed[m] /\ mapLastClaimed[m] \in Nat
      BY <1>4, <2>1, <2>5
    <3>2. SumOverEpochs(WeightedOf(m)', mapLastClaimed[m], e)
            = SumOverEpochs(WeightedOf(m), mapLastClaimed[m], e)
      BY <1>8, <3>1
    <3> QED BY <2>2, <2>3, <2>5, <3>1, <3>2
  <2> QED BY <2>4, <2>5
<1>10. /\ DueTo(n) = taken + rest /\ taken \in Nat /\ rest \in Nat
       /\ Scale * (c + d) <= taken
  <2>1. WeightedOf(n) \in [Epochs -> Nat]
    BY <1>1, DueTypes
  <2>2. first \in Int /\ last \in Int /\ e \in Int
    BY <1>2, <1>3
  <2>3. SumOverEpochs(WeightedOf(n), first, e) = taken + rest
    <3> HIDE DEF first
    <3> QED BY <1>3, <2>1, <2>2, SumSplits
  <2>4. taken \in Nat /\ rest \in Nat
    BY <2>1, <2>2, WindowTypes
  <2>5. DueTo(n) = SumOverEpochs(WeightedOf(n), first, e)
    BY <1>3 DEF DueTo
  <2> QED BY <2>3, <2>4, <2>5
<1> HIDE DEF taken, rest
<1>11. Due' = [Due EXCEPT ![n] = rest]
  BY <1>9 DEF Due
<1>12. /\ Due \in [1..NumNominees -> Int] /\ Total(Due, NumNominees) \in Nat
       /\ Due[n] = taken + rest /\ n \in 1..NumNominees /\ NumNominees \in Nat
  BY <1>1, <1>10, DueTypes, NomineeConstants DEF Due
<1>13. Total(Due, NumNominees)' = Total(Due, NumNominees) - taken
  <2>1. rest \in Int
    BY <1>10
  <2>2. Total([Due EXCEPT ![n] = rest], NumNominees) = Total(Due, NumNominees) - Due[n] + rest
    BY ONLY <1>12, <2>1, TotalExcept
  <2>3. Total(Due, NumNominees)' = Total([Due EXCEPT ![n] = rest], NumNominees)
    BY <1>11
  <2> HIDE DEF Due
  <2> QED BY <1>10, <1>12, <2>2, <2>3
<1> DEFINE x == distributed + forfeited + stakingIncentive[e]
           t == Total(Due, NumNominees)
           r == Scale * Total(StakingParts, MaxEpochs) + Total(Overs, MaxEpochs)
<1>18. Overs' = Overs
  BY <1>6, SameOvers
<1>14. Scale * x + t <= r
  BY <1>1 DEF StakingBudget
<1>15. distributed' + forfeited' + stakingIncentive'[e] = x + (c + d) /\ x \in Nat
  <2>1. distributed \in Nat /\ forfeited \in Nat /\ stakingIncentive[e] \in Nat
        /\ distributed' \in Nat /\ forfeited' \in Nat
    BY <1>1, <1>2 DEF StakingTyped
  <2>2. /\ distributed' + forfeited' = distributed + forfeited + d
        /\ stakingIncentive'[e] = stakingIncentive[e] + c /\ c \in Nat /\ d \in Nat
    BY <1>6
  <2>3. x = distributed + forfeited + stakingIncentive[e]
    OBVIOUS
  <2>4. x \in Nat /\ x = (distributed + forfeited) + stakingIncentive[e]
    BY <2>1, <2>3
  <2> DEFINE p == distributed + forfeited
             i == stakingIncentive[e]
             q == distributed' + forfeited'
             j == stakingIncentive'[e]
  <2>5. p \in Nat /\ i \in Nat /\ c \in Nat /\ d \in Nat /\ q = p + d /\ j = i + c /\ x = p + i
    <3>1. p \in Nat /\ i \in Nat
      BY <2>1
    <3>2. c \in Nat /\ d \in Nat
      OBVIOUS
    <3>3. q = p + d
      BY <2>2
    <3>4. j = i + c
      BY <2>2
    <3>5. x = p + i
      BY <2>3
    <3> QED BY <3>1, <3>2, <3>3, <3>4, <3>5
  <2> HIDE DEF p, i, q, j, x
  <2>6. q + j = x + (c + d)
    BY ONLY <2>5
  <2> QED BY <2>4, <2>6 DEF q, j
<1>16. StakingBudget' <=> Scale * (x + (c + d)) + (t - taken) <= r
  BY <1>5, <1>13, <1>15, <1>18 DEF StakingBudget
<1>17. Scale * (x + (c + d)) + (t - taken) <= r
  <2> DEFINE y == c + d
  <2>1. r \in Nat /\ t \in Nat /\ Scale \in Nat /\ y \in Nat
    <3>1. Total(StakingParts, MaxEpochs) \in Nat /\ Scale \in Nat /\ Total(Overs, MaxEpochs) \in Nat
      BY <1>1, StakingPartAlways, OversTypes, NomineeConstants DEF StakingPartsTyped
    <3> QED BY <1>12, <3>1
  <2>2. Scale * y <= taken
    BY <1>10
  <2> HIDE DEF x, t, r, y
  <2>3. Scale * (x + y) = Scale * x + Scale * y /\ Scale * x \in Nat /\ Scale * y \in Nat
    BY <1>15, <2>1
  <2>4. Scale * (x + y) + (t - taken) <= r
    BY <1>10, <1>14, <2>1, <2>2, <2>3
  <2> QED BY <2>4 DEF y
<1> QED BY <1>16, <1>17 DEF StakingInv

\* What is left of a budget after an epoch: W is the sum of the weights, k the scale, and over
\* what the weights have beyond it.
LEMMA EpochBudget ==
  ASSUME NEW k \in Nat, NEW p \in Nat, NEW s \in Nat, NEW t \in Nat, NEW W \in Nat,
         NEW over \in Nat, W <= k + over, NEW o \in Nat,
         NEW part \in Nat, NEW r \in Nat, k * (p + s) + t <= k * r + o
  PROVE  k * (p + 0) + (t + W * (s + part)) <= k * (r + part) + (o + (s + part) * over)
<1> DEFINE X == s + part
           K == k + over
<1>1. X \in Nat /\ K \in Nat
  OBVIOUS
<1>2. W * X \in Nat /\ W * X <= K * X
  <2> HIDE DEF X, K
  <2>1. W <= K
    BY DEF K
  <2> QED BY <1>1, <2>1, ProductMono
<1>3. /\ k * (p + s) = k * p + k * s /\ k * X = k * s + k * part
      /\ k * (r + part) = k * r + k * part /\ k * (p + 0) = k * p
      /\ k * p \in Nat /\ k * s \in Nat /\ k * part \in Nat /\ k * r \in Nat
  OBVIOUS
<1>4. K * X = k * X + X * over /\ X * over \in Nat
  <2> HIDE DEF X
  <2> QED BY <1>1
<1> HIDE DEF X, K
<1>5. k * (p + 0) + (t + W * X) <= k * (r + part) + (o + X * over)
  <2> DEFINE z == X * over
             kx == k * X
             wx == W * X
             kp == k * p
             ks == k * s
             kr == k * r
             ka == k * part
  <2>1. /\ wx \in Nat /\ kx = ks + ka /\ wx <= kx + z /\ z \in Nat
        /\ kp \in Nat /\ ks \in Nat /\ ka \in Nat /\ kr \in Nat
        /\ (kp + ks) + t <= kr + o
    BY <1>2, <1>3, <1>4
  <2> HIDE DEF z, kx, wx, kp, ks, kr, ka
  <2>2. kp + (t + wx) <= (kr + ka) + (o + z)
    BY <2>1
  <2> QED BY <1>3, <2>2 DEF z, wx, kp, kr, ka
<1> QED BY <1>5 DEF X

\* What a settlement leaves: the epoch holds its refunds and its own part, and the votes.
LEMMA EpochSettled ==
  ASSUME BondTypes, BondTypes', StakingTyped, epochCounter < MaxEpochs, SettleEpoch, CountVotes,
         NEW e, e = epochCounter
  PROVE  \E v \in VoteOutcomes, part \in Nat :
           /\ \A n \in Nominees : v.weight[n] > 0 => mapLastClaimed[n] > 0
           /\ votes'[e] = v /\ \A k \in Epochs : k # e => votes'[k] = votes[k]
           /\ epochCounter' = e + 1 /\ stakingIncentive[e] \in Nat
           /\ stakingIncentive'[e] = stakingIncentive[e] + part /\ stakingIncentive'[e + 1] = 0
           /\ \A k \in Epochs : k # e => stakingIncentive'[k] = stakingIncentive[k]
           /\ Total(StakingParts, MaxEpochs)' = Total(StakingParts, MaxEpochs) + part
<1> DEFINE inflation == InflationBetween(LastEnd, now, inflationPerSecond, currentYear)
           part == (inflation * fractions[e].staking) \div 100
           s == stakingIncentive[e]
           X == stakingIncentive'[e]
<1>1. StakingTyped
  OBVIOUS
<1>2. /\ e \in Nat /\ e > 0 /\ e \in Epochs /\ e \in 1..(MaxEpochs + 1)
      /\ e + 1 \in Epochs /\ e + 1 \in 1..(MaxEpochs + 1) /\ Epochs = 1..MaxEpochs /\ MaxEpochs \in Nat
  BY EpochTypes, UnitConstants
<1>3. /\ epochCounter' = e + 1
      /\ totalTopUpsOLAS' = [totalTopUpsOLAS EXCEPT ![e] = inflation]
      /\ stakingIncentive' = [stakingIncentive EXCEPT ![e] = @ + part]
      /\ fractions' = NextFractions
  BY DEF SettleEpoch
<1>4. \A k \in 1..e : fractions'[k] = fractions[k]
  <2>1. \A k \in 1..e : k # epochCounter + 1 /\ k \in 1..(MaxEpochs + 1)
    BY <1>2
  <2>2. fractions \in [1..(MaxEpochs + 1) -> {FirstFractions} \cup NewFractions]
    BY DEF BondTypes
  <2> QED BY <1>3, <2>1, <2>2 DEF NextFractions
<1>5. PICK v \in VoteOutcomes :
         /\ \A n \in Nominees : v.weight[n] > 0 => mapLastClaimed[n] > 0
         /\ votes' = [votes EXCEPT ![e] = v]
  BY DEF CountVotes
<1>7. totalTopUpsOLAS'[e] = inflation /\ StakingOf(e)' = part
  <2>1. totalTopUpsOLAS'[e] = inflation
    BY <1>2, <1>3 DEF BondTypes
  <2>2. fractions'[e] = fractions[e]
    BY <1>2, <1>4
  <2>3. StakingOf(e)' = (totalTopUpsOLAS'[e] * fractions'[e].staking) \div 100
    BY DEF StakingOf
  <2> QED BY <2>1, <2>2, <2>3
<1>8. StakingPartsTyped /\ StakingPartsTyped'
  BY StakingPartAlways, PTL
<1>9. part \in Nat
  BY <1>2, <1>7, <1>8 DEF StakingPartsTyped
<1>10. /\ s \in Nat /\ X = s + part /\ stakingIncentive'[e + 1] = 0
       /\ \A k \in Epochs : k # e => stakingIncentive'[k] = stakingIncentive[k]
  <2>1. stakingIncentive \in [1..(MaxEpochs + 1) -> Nat] /\ stakingIncentive[e + 1] = 0
    BY <1>1, <1>2 DEF StakingTyped
  <2>2. \A k \in Epochs : k \in 1..(MaxEpochs + 1)
    BY <1>2
  <2> HIDE DEF part
  <2> QED BY <1>2, <1>3, <2>1, <2>2
<1> HIDE DEF inflation, part
<1>12. /\ votes'[e] = v /\ \A k \in Epochs : k # e => votes'[k] = votes[k]
  BY <1>1, <1>2, <1>5 DEF StakingTyped
<1>15. Total(StakingParts, MaxEpochs)' = Total(StakingParts, MaxEpochs) + part
  <2> DEFINE P0 == StakingParts
             P1 == StakingParts'
  <2>1. P0 \in [1..MaxEpochs -> Int] /\ P0[e] = 0
    BY <1>2, <1>8 DEF StakingParts, Settled, StakingPartsTyped
  <2>2. P1 \in [1..MaxEpochs -> Int]
    BY <1>8 DEF StakingPartsTyped
  <2>3. P1 = [P0 EXCEPT ![e] = part]
    <3>1. P1[e] = part
      <4>1. e \in Settled'
        BY <1>2, <1>3 DEF Settled
      <4>2. P1[e] = IF e \in Settled' THEN StakingOf(e)' ELSE 0
        BY <1>2 DEF StakingParts
      <4> QED BY <1>7, <4>1, <4>2
    <3>2. \A k \in 1..MaxEpochs : k # e => P1[k] = P0[k]
      <4> SUFFICES ASSUME NEW k \in 1..MaxEpochs, k # e
                   PROVE  P1[k] = P0[k]
        OBVIOUS
      <4>1. k \in Settled <=> k \in Settled'
        BY <1>2, <1>3 DEF Settled
      <4>2. k \in Settled => StakingOf(k)' = StakingOf(k)
        <5>1. k \in Settled => k \in 1..e
          BY <1>2 DEF Settled
        <5>2. totalTopUpsOLAS'[k] = totalTopUpsOLAS[k]
          BY <1>2, <1>3 DEF BondTypes
        <5> QED BY <1>4, <5>1, <5>2 DEF StakingOf
      <4>3. P1[k] = IF k \in Settled' THEN StakingOf(k)' ELSE 0
        BY <1>2 DEF StakingParts
      <4>4. P0[k] = IF k \in Settled THEN StakingOf(k) ELSE 0
        BY <1>2 DEF StakingParts
      <4> QED BY <4>1, <4>2, <4>3, <4>4
    <3> HIDE DEF P0, P1
    <3> QED BY <1>2, <2>1, <2>2, <3>1, <3>2
  <2> HIDE DEF P0, P1
  <2>4. part \in Int /\ e \in 1..MaxEpochs /\ MaxEpochs \in Nat
    BY <1>2, <1>9
  <2>5. Total([P0 EXCEPT ![e] = part], MaxEpochs) = Total(P0, MaxEpochs) - P0[e] + part
    BY ONLY <2>1, <2>4, TotalExcept
  <2>6. Total(P0, MaxEpochs) \in Int
    BY <1>2, <2>1, TotalType
  <2>7. Total(P1, MaxEpochs) = Total(P0, MaxEpochs) + part
    BY <2>1, <2>3, <2>4, <2>5, <2>6
  <2> QED BY <2>7 DEF P0, P1
<1> QED BY <1>3, <1>5, <1>9, <1>10, <1>12, <1>15

\* A settlement makes the weighted shares of the epoch due: all of them, at most, together.
LEMMA StakingSettles ==
  ASSUME BondTypes, BondTypes', StakingInv, StakingTyped', epochCounter < MaxEpochs, SettleEpoch,
         CountVotes, UNCHANGED <<mapLastClaimed, distributed, forfeited>>
  PROVE  StakingInv'
<1> PICK e : e = epochCounter
  OBVIOUS
<1> DEFINE s == stakingIncentive[e]
           X == stakingIncentive'[e]
<1>1. StakingTyped /\ StakingBudget
  BY DEF StakingInv
<1>2. /\ e \in Nat /\ e > 0 /\ e \in Epochs /\ e \in 1..(MaxEpochs + 1)
      /\ e + 1 \in Epochs /\ e + 1 \in 1..(MaxEpochs + 1) /\ Epochs = 1..MaxEpochs /\ MaxEpochs \in Nat
  BY EpochTypes, UnitConstants
<1>3. PICK v \in VoteOutcomes, part \in Nat :
         /\ \A n \in Nominees : v.weight[n] > 0 => mapLastClaimed[n] > 0
         /\ votes'[e] = v /\ \A k \in Epochs : k # e => votes'[k] = votes[k]
         /\ epochCounter' = e + 1 /\ s \in Nat
         /\ X = s + part /\ stakingIncentive'[e + 1] = 0
         /\ \A k \in Epochs : k # e => stakingIncentive'[k] = stakingIncentive[k]
         /\ Total(StakingParts, MaxEpochs)' = Total(StakingParts, MaxEpochs) + part
  BY <1>1, EpochSettled
<1>5. \A n \in Nominees : v.weight[n] > 0 => mapLastClaimed[n] > 0
  BY <1>3
<1>6. /\ v.weight \in [1..NumNominees -> Int] /\ \A n \in Nominees : v.weight[n] \in Nat
      /\ Total(v.weight, NumNominees) \in Nat
  <2>1. \A n \in Nominees : v.weight[n] \in Nat
    BY NomineeConstants
  <2>2. v.weight \in [Nominees -> Nat]
    BY DispenserAssumption
  <2>3. v.weight \in [1..NumNominees -> Nat]
    BY <2>1, <2>2, NomineeConstants
  <2>4. v.weight \in [1..NumNominees -> Int]
    BY <2>3
  <2> QED BY <2>1, <2>2, <2>3, <2>4, NomineeConstants, TotalNonNegative
<1>8. StakingPartsTyped /\ StakingPartsTyped'
  BY StakingPartAlways, PTL
<1>9. part \in Nat
  OBVIOUS
<1>10. /\ s \in Nat /\ X = s + part /\ stakingIncentive'[e + 1] = 0
       /\ \A k \in Epochs : k # e => stakingIncentive'[k] = stakingIncentive[k]
  BY <1>3
<1>11. X \in Nat
  BY <1>9, <1>10
<1>12. /\ votes'[e] = v /\ \A k \in Epochs : k # e => votes'[k] = votes[k]
  BY <1>3
<1>13. ASSUME NEW n \in Nominees
       PROVE  /\ DueTo(n)' = DueTo(n) + v.weight[n] * X
              /\ DueTo(n)' \in Int
  <2> DEFINE W0 == WeightedOf(n)
             W1 == WeightedOf(n)'
             l == mapLastClaimed[n]
             w == v.weight[n]
  <2>1. W0 \in [Epochs -> Nat]
    BY <1>1, DueTypes
  <2>2. W1[e] = X * w /\ \A k \in Epochs : k # e => W1[k] = W0[k]
    BY <1>2, <1>10, <1>12 DEF WeightedOf, Weighted
  <2>3. w \in Nat
    BY <1>6
  <2>4. X * w = w * X /\ X * w \in Nat
    <3> HIDE DEF X, w
    <3> QED BY <1>11, <2>3
  <2>5. W1 \in [Epochs -> Nat]
    <3>1. W1 = [k \in Epochs |-> W1[k]]
      BY DEF WeightedOf
    <3>2. \A k \in Epochs : W1[k] \in Nat
      <4> HIDE DEF W0, W1, X, w
      <4> QED BY <2>1, <2>2, <2>4
    <3> HIDE DEF W1
    <3> QED BY <3>1, <3>2
  <2>6. l \in Nat /\ l <= e
    BY <1>1, <1>2 DEF StakingTyped
  <2>7. DueTo(n) = IF l = 0 THEN 0 ELSE SumOverEpochs(W0, l, e)
    BY DEF DueTo
  <2>8. DueTo(n)' = IF l = 0 THEN 0 ELSE SumOverEpochs(W1, l, e + 1)
    BY <1>3 DEF DueTo, SumOverEpochs
  <2>9. l = 0 => w = 0
    BY <1>5, <2>3
  <2>10. DueTo(n) \in Nat
    BY <1>1, DueTypes
  <2> HIDE DEF W0, W1, w, X
  <2>11. SumOverEpochs(W1, l, e + 1) = SumOverEpochs(W0, l, e) + X * w
    <3>1. l \in Int /\ e \in Int /\ e + 1 \in Int /\ l <= e /\ e <= e + 1
      BY <1>2, <2>6
    <3> HIDE DEF l
    <3>2. SumOverEpochs(W1, l, e + 1) = SumOverEpochs(W1, l, e) + SumOverEpochs(W1, e, e + 1)
      BY <2>5, <3>1, SumSplits
    <3>3. SumOverEpochs(W1, e, e + 1) = W1[e]
      BY <1>2, <2>5, SumEnds
    <3>4. \A k \in Epochs : k \in l..(e - 1) => W1[k] = W0[k]
      BY <2>2, <3>1
    <3>5. SumOverEpochs(W1, l, e) = SumOverEpochs(W0, l, e)
      BY ONLY <3>1, <3>4, SumAgrees
    <3> QED BY <2>2, <3>2, <3>3, <3>5
  <2>12. CASE l = 0
    <3>1. w * X = 0
      BY <1>11, <2>9, <2>12
    <3>2. DueTo(n)' = 0 /\ DueTo(n) = 0
      BY <2>7, <2>8, <2>12
    <3> QED BY <3>1, <3>2 DEF w
  <2>13. CASE l # 0
    <3>1. DueTo(n)' = DueTo(n) + w * X
      BY <2>4, <2>7, <2>8, <2>11, <2>13
    <3> DEFINE q == w * X
    <3>2. q \in Nat /\ DueTo(n)' = DueTo(n) + q
      BY <2>4, <3>1
    <3> HIDE DEF q
    <3>3. DueTo(n)' \in Int
      BY <2>10, <3>2
    <3> QED BY <3>1, <3>3 DEF w
  <2> QED BY <2>12, <2>13
<1>14. Total(Due, NumNominees)' = Total(Due, NumNominees) + Total(v.weight, NumNominees) * X
  <2> DEFINE D0 == Due
             D1 == Due'
             u == v.weight
  <2>1. D0 \in [1..NumNominees -> Int] /\ NumNominees \in Nat
    BY <1>1, DueTypes, NomineeConstants
  <2>2. \A n \in 1..NumNominees : D1[n] = D0[n] + u[n] * X
    BY <1>13, NomineeConstants DEF Due
  <2>3. D1 \in [1..NumNominees -> Int]
    BY <1>13, NomineeConstants DEF Due
  <2>4. u \in [1..NumNominees -> Int] /\ X \in Int
    BY <1>6, <1>11
  <2> HIDE DEF D0, D1, u, X
  <2>5. Total(D1, NumNominees) = Total(D0, NumNominees) + Total(u, NumNominees) * X
    BY ONLY <2>1, <2>2, <2>3, <2>4, TotalSumScaled
  <2> QED BY <2>5 DEF D0, D1, u
<1>15. Total(StakingParts, MaxEpochs)' = Total(StakingParts, MaxEpochs) + part
  BY <1>3
<1> DEFINE p == distributed + forfeited
           t == Total(Due, NumNominees)
           r == Total(StakingParts, MaxEpochs)
           W == Total(v.weight, NumNominees)
<1> DEFINE over == Excess(e)'
           o == Total(Overs, MaxEpochs)
<1>16. /\ p \in Nat /\ t \in Nat /\ r \in Nat /\ W \in Nat /\ Scale \in Nat
       /\ over \in Nat /\ W <= Scale + over /\ o \in Nat
  <2>1. p \in Nat
    BY <1>1 DEF StakingTyped
  <2>2. t \in Nat
    BY <1>1, DueTypes
  <2>3. over = IF W > Scale THEN W - Scale ELSE 0
    BY <1>12 DEF Excess
  <2>4. o \in Nat
    BY <1>1, OversTypes
  <2>5. W \in Nat /\ r \in Nat /\ Scale \in Nat
    BY <1>6, <1>8, NomineeConstants DEF StakingPartsTyped
  <2> HIDE DEF p, t, r, W, over, o
  <2> QED BY <2>1, <2>2, <2>3, <2>4, <2>5
<1>17. Scale * (p + s) + t <= Scale * r + o
  BY <1>1 DEF StakingBudget
<1>18. Scale * (p + 0) + (t + W * (s + part)) <= Scale * (r + part) + (o + (s + part) * over)
  <2>1. s \in Nat /\ part \in Nat
    BY <1>9, <1>10
  <2> HIDE DEF p, s, t, r, W, over, o
  <2> QED BY ONLY <1>16, <1>17, <2>1, EpochBudget
<1>20. Total(Overs, MaxEpochs)' = o + (s + part) * over
  <2> DEFINE O0 == Overs
             O1 == Overs'
             q == (s + part) * over
  <2>1. q \in Nat
    <3>1. s + part \in Nat
      BY <1>9, <1>10
    <3> HIDE DEF s, over
    <3> QED BY <1>16, <3>1
  <2>2. O0 \in [1..MaxEpochs -> Int] /\ O0[e] = 0
    <3>1. e \notin Settled
      BY <1>2 DEF Settled
    <3> QED BY <1>1, <1>2, <3>1, OversTypes DEF Overs
  <2>3. O1[e] = q
    <3>1. e \in Settled'
      BY <1>2, <1>3 DEF Settled
    <3>2. O1[e] = stakingIncentive'[e] * over
      BY <1>2, <3>1 DEF Overs
    <3> QED BY <1>10, <3>2
  <2>4. \A k \in 1..MaxEpochs : k # e => O1[k] = O0[k]
    <3> SUFFICES ASSUME NEW k \in 1..MaxEpochs, k # e
                 PROVE  O1[k] = O0[k]
      OBVIOUS
    <3>1. k \in Settled <=> k \in Settled'
      BY <1>2, <1>3 DEF Settled
    <3>2. Excess(k)' = Excess(k) /\ stakingIncentive'[k] = stakingIncentive[k]
      BY <1>2, <1>10, <1>12 DEF Excess
    <3>3. O1[k] = IF k \in Settled' THEN stakingIncentive'[k] * Excess(k)' ELSE 0
      BY <1>2 DEF Overs
    <3>4. O0[k] = IF k \in Settled THEN stakingIncentive[k] * Excess(k) ELSE 0
      BY <1>2 DEF Overs
    <3> QED BY <3>1, <3>2, <3>3, <3>4
  <2>5. O1 = [O0 EXCEPT ![e] = q]
    <3>1. O1 = [k \in 1..MaxEpochs |-> O1[k]]
      BY <1>2 DEF Overs
    <3> HIDE DEF O0, O1, q
    <3> QED BY <1>2, <2>2, <2>3, <2>4, <3>1
  <2> HIDE DEF O0, O1, q
  <2>6. q \in Int /\ e \in 1..MaxEpochs /\ MaxEpochs \in Nat
    BY <1>2, <2>1
  <2>7. Total([O0 EXCEPT ![e] = q], MaxEpochs) = Total(O0, MaxEpochs) - O0[e] + q
    BY ONLY <2>2, <2>6, TotalExcept
  <2>8. Total(O0, MaxEpochs) \in Int
    BY <1>2, <2>2, TotalType
  <2>9. Total(O1, MaxEpochs) = Total(O0, MaxEpochs) + q
    BY <2>2, <2>5, <2>6, <2>7, <2>8
  <2> QED BY <2>9 DEF O0, O1, q, Total, RunningTotal
<1>19. StakingBudget' <=>
         Scale * (p + 0) + (t + W * (s + part)) <= Scale * (r + part) + (o + (s + part) * over)
  <2>1. StakingBudget' <=> Scale * (distributed' + forfeited' + stakingIncentive'[e + 1])
                             + Total(Due, NumNominees)'
                           <= Scale * Total(StakingParts, MaxEpochs)' + Total(Overs, MaxEpochs)'
    BY <1>3 DEF StakingBudget
  <2>2. distributed' + forfeited' + stakingIncentive'[e + 1] = p + 0
    BY <1>10
  <2> HIDE DEF p, t, r, W, s, o, over
  <2> QED BY <1>10, <1>14, <1>15, <1>20, <2>1, <2>2 DEF t, r, W, s, o
<1> QED BY <1>18, <1>19 DEF StakingInv

\* What a claim pays and returns together is no more than what was due.
LEMMA PaidWithin ==
  ASSUME BondTypes, StakingTyped, NEW n \in Nominees, NEW first \in Int, NEW last \in Int
  PROVE  LET paid == SumOverEpochs([e \in Epochs |-> EpochIncentive(n, e).paid], first, last)
             returned == SumOverEpochs([e \in Epochs |-> EpochIncentive(n, e).returned], first, last)
         IN  /\ paid \in Nat /\ returned \in Nat
             /\ Scale * (returned + paid) <= SumOverEpochs(WeightedOf(n), first, last)
<1> DEFINE f == [e \in Epochs |-> EpochIncentive(n, e).returned]
           g == [e \in Epochs |-> EpochIncentive(n, e).paid]
           h == WeightedOf(n)
<1>1. f \in [Epochs -> Nat] /\ g \in [Epochs -> Nat]
  BY IncentiveWithin
<1>2. h \in [Epochs -> Nat]
  BY DueTypes
<1>3. \A e \in Epochs : Scale * (f[e] + g[e]) <= h[e]
  <2> SUFFICES ASSUME NEW e \in Epochs
               PROVE  Scale * (f[e] + g[e]) <= h[e]
    OBVIOUS
  <2>1. f[e] = EpochIncentive(n, e).returned /\ g[e] = EpochIncentive(n, e).paid
        /\ h[e] = Weighted(n, e)
    BY DEF WeightedOf
  <2>2. Scale * (g[e] + f[e]) <= h[e]
    BY <2>1, IncentiveWithin
  <2>3. g[e] + f[e] = f[e] + g[e]
    BY <1>1
  <2> QED BY <2>2, <2>3
<1> HIDE DEF f, g, h
<1>4. Scale \in Nat
  BY NomineeConstants
<1>5. SumOverEpochs(f, first, last) \in Nat /\ SumOverEpochs(g, first, last) \in Nat
  BY <1>1, WindowTypes
<1>6. Scale * (SumOverEpochs(f, first, last) + SumOverEpochs(g, first, last))
        <= SumOverEpochs(h, first, last)
  BY ONLY <1>1, <1>2, <1>3, <1>4, first \in Int, last \in Int, SumScaled
<1> QED BY <1>5, <1>6 DEF f, g, h

\* So is what a retention refunds and what it does not see.
LEMMA RetainedWithin ==
  ASSUME BondTypes, StakingTyped, NEW first \in Int, NEW last \in Int
  PROVE  LET Part(e) == stakingIncentive[e] * votes[e].weight[Retainer]
             seen == SumOverEpochs([e \in Epochs |-> IF e <= filled[Retainer] THEN Part(e) ELSE 0],
                                   first, last)
             missed == SumOverEpochs([e \in Epochs |-> IF e > filled[Retainer] THEN Part(e) ELSE 0],
                                     first, last)
         IN  /\ seen \div Scale \in Nat /\ missed \div Scale \in Nat
             /\ Scale * (seen \div Scale + missed \div Scale)
                  <= SumOverEpochs(WeightedOf(Retainer), first, last)
<1> DEFINE Part(e) == stakingIncentive[e] * votes[e].weight[Retainer]
           f == [e \in Epochs |-> IF e <= filled[Retainer] THEN Part(e) ELSE 0]
           g == [e \in Epochs |-> IF e > filled[Retainer] THEN Part(e) ELSE 0]
           h == WeightedOf(Retainer)
           seen == SumOverEpochs(f, first, last)
           missed == SumOverEpochs(g, first, last)
<1>1. h \in [Epochs -> Nat] /\ \A e \in Epochs : h[e] = Part(e) /\ Part(e) \in Nat
  BY NomineeConstants, DueTypes DEF WeightedOf, Weighted
<1>2. /\ \A e \in Epochs : f[e] = IF e <= filled[Retainer] THEN h[e] ELSE 0
      /\ \A e \in Epochs : g[e] = IF e > filled[Retainer] THEN h[e] ELSE 0
      /\ f \in [Epochs -> Nat] /\ g \in [Epochs -> Nat]
  BY <1>1
<1>3. \A e \in Epochs : e \in Int /\ filled[Retainer] \in Int
  BY NomineeConstants, UnitConstants DEF StakingTyped
<1> HIDE DEF f, g, h
<1> DEFINE one == 1
<1>4. \A e \in Epochs : one * (f[e] + g[e]) <= h[e]
  <2> SUFFICES ASSUME NEW e \in Epochs
               PROVE  1 * (f[e] + g[e]) <= h[e]
    OBVIOUS
  <2>1. h[e] \in Nat
    BY <1>1
  <2>2. CASE e <= filled[Retainer]
    <3>1. f[e] = h[e] /\ g[e] = 0
      BY <1>2, <1>3, <2>2
    <3> QED BY <2>1, <3>1
  <2>3. CASE e > filled[Retainer]
    <3>1. g[e] = h[e] /\ f[e] = 0
      BY <1>2, <1>3, <2>3
    <3> QED BY <2>1, <3>1
  <2> QED BY <1>3, <2>2, <2>3
<1>5. one \in Nat
  OBVIOUS
<1> HIDE DEF one
<1>6. one * (seen + missed) <= SumOverEpochs(h, first, last)
  BY ONLY <1>1, <1>2, <1>4, <1>5, first \in Int, last \in Int, SumScaled
<1>7. seen \in Nat /\ missed \in Nat /\ SumOverEpochs(h, first, last) \in Nat
  BY <1>1, <1>2, WindowTypes
<1> DEFINE p == seen \div Scale
           q == missed \div Scale
           all == SumOverEpochs(h, first, last)
<1>8. p \in Nat /\ q \in Nat /\ Scale * p <= seen /\ Scale * q <= missed /\ Scale \in Nat
  <2> HIDE DEF seen, missed
  <2> QED BY <1>7, NomineeConstants, QuotientLow
<1>9. seen + missed <= all
  <2> HIDE DEF seen, missed, all
  <2> QED BY <1>6, <1>7 DEF one, all
<1>10. Scale * (p + q) <= all
  <2> HIDE DEF p, q, seen, missed, all
  <2>1. Scale * (p + q) = Scale * p + Scale * q /\ Scale * p \in Nat /\ Scale * q \in Nat
    BY <1>8
  <2> QED BY <1>7, <1>8, <1>9, <2>1 DEF all
<1> QED BY <1>8, <1>10 DEF f, g, h, p, q, seen, missed, all

-----------------------------------------------------------------------------
(* The staking incentives: every step                                        *)

\* A nominee is added with nothing due to it.
LEMMA NomineeAdded ==
  ASSUME BondTypes, StakingInv, NEW n \in Nominees, addNominee(n)
  PROVE  StakingInv'
<1> PICK e : e = epochCounter
  OBVIOUS
<1>1. StakingTyped /\ StakingBudget
  BY DEF StakingInv
<1>2. e \in Nat /\ e > 0 /\ e \in Epochs /\ e \in 0..MaxEpochs /\ e - 1 \in 0..MaxEpochs
  BY EpochTypes
<1>3. /\ mapLastClaimed[n] = 0 /\ mapLastClaimed' = [mapLastClaimed EXCEPT ![n] = e]
      /\ filled' = [filled EXCEPT ![n] = e - 1]
      /\ UNCHANGED <<stakingIncentive, stakingParams, epochCounter, totalTopUpsOLAS, fractions,
                     mapRemoved, votes, distributed, forfeited>>
  BY DEF addNominee, inflationVars, settleVars, paramVars
<1>4. StakingTyped'
  <2>1. mapLastClaimed' \in [Nominees -> 0..MaxEpochs] /\ filled' \in [Nominees -> 0..MaxEpochs]
    BY <1>1, <1>2, <1>3 DEF StakingTyped
  <2>2. \A m \in Nominees : mapLastClaimed'[m] <= epochCounter'
    BY <1>1, <1>2, <1>3 DEF StakingTyped
  <2> QED BY <1>1, <1>3, <2>1, <2>2 DEF StakingTyped
<1>5. StakingParts' = StakingParts
  BY <1>3, SameStakingParts
<1>6. \A m \in Nominees : WeightedOf(m)' = WeightedOf(m) /\ WeightedOf(m) \in [Epochs -> Nat]
  BY <1>1, <1>3, DueTypes DEF WeightedOf, Weighted
<1>7. ASSUME NEW m \in Nominees
      PROVE  DueTo(m)' = DueTo(m)
  <2>1. DueTo(m)' = IF mapLastClaimed'[m] = 0 THEN 0
                    ELSE SumOverEpochs(WeightedOf(m), mapLastClaimed'[m], e)
    BY <1>3, <1>6 DEF DueTo, SumOverEpochs
  <2>2. CASE m = n
    <3>1. mapLastClaimed'[m] = e /\ e # 0
      BY <1>1, <1>2, <1>3, <2>2 DEF StakingTyped
    <3>2. DueTo(m) = 0
      BY <1>3, <2>2 DEF DueTo
    <3> QED BY <1>2, <1>6, <2>1, <3>1, <3>2, SumEnds
  <2>3. CASE m # n
    <3>1. mapLastClaimed'[m] = mapLastClaimed[m]
      BY <1>1, <1>3, <2>3 DEF StakingTyped
    <3> QED BY <2>1, <3>1 DEF DueTo
  <2> QED BY <2>2, <2>3
<1>8. Due' = Due
  BY <1>7 DEF Due
<1>9. stakingIncentive'[e] = stakingIncentive[e] /\ epochCounter' = e
  BY <1>3
<1>10. Overs' = Overs
  BY <1>3, SameOvers
<1> QED BY <1>1, <1>3, <1>4, <1>5, <1>8, <1>10 DEF StakingInv, StakingBudget

\* A claim.
LEMMA StakingClaimed ==
  ASSUME BondTypes, StakingInv, NEW n \in Nominees, NEW num \in Nat \ {0},
         claimStakingIncentives(n, num)
  PROVE  StakingInv'
<1> PICK e : e = epochCounter
  OBVIOUS
<1> DEFINE first == mapLastClaimed[n]
           last == LastClaimed(n, num)
           paid == SumOverEpochs([k \in Epochs |-> EpochIncentive(n, k).paid], first, last)
           returned == SumOverEpochs([k \in Epochs |-> EpochIncentive(n, k).returned], first, last)
<1>1. StakingTyped /\ StakingBudget
  BY DEF StakingInv
<1>2. e \in Nat /\ e > 0 /\ e \in Epochs /\ e - 1 \in 0..MaxEpochs /\ e \in 1..(MaxEpochs + 1)
  BY EpochTypes
<1>3. /\ CanClaim(n)
      /\ mapLastClaimed' = [mapLastClaimed EXCEPT ![n] = last]
      /\ filled' = [filled EXCEPT ![n] = e - 1]
      /\ stakingIncentive' = [stakingIncentive EXCEPT ![epochCounter] = @ + returned]
      /\ distributed' = distributed + paid
      /\ UNCHANGED <<epochCounter, totalTopUpsOLAS, fractions, stakingParams, votes, mapRemoved,
                     forfeited>>
  BY DEF claimStakingIncentives, refundFromStaking, settleVars, paramVars
<1>4. first \in Nat /\ first > 0 /\ last \in Nat /\ first <= last /\ last <= e
  BY <1>1, <1>3, LastClaimedFacts
<1>5. /\ paid \in Nat /\ returned \in Nat
      /\ Scale * (returned + paid) <= SumOverEpochs(WeightedOf(n), first, last)
  <2>1. first \in Int /\ last \in Int
    BY <1>4
  <2> HIDE DEF first, last
  <2> QED BY <1>1, <2>1, PaidWithin DEF first, last
<1> HIDE DEF last, paid, returned
<1>6. StakingTyped'
  <2>1. last \in 0..MaxEpochs
    BY <1>4, EpochTypes
  <2>2. mapLastClaimed' \in [Nominees -> 0..MaxEpochs] /\ filled' \in [Nominees -> 0..MaxEpochs]
    BY <1>1, <1>2, <1>3, <2>1 DEF StakingTyped
  <2>3. \A m \in Nominees : mapLastClaimed'[m] <= epochCounter'
    BY <1>1, <1>2, <1>3, <1>4 DEF StakingTyped
  <2>4. /\ stakingIncentive' \in [1..(MaxEpochs + 1) -> Nat]
        /\ \A k \in 1..(MaxEpochs + 1) : k > e => stakingIncentive'[k] = 0
    <3>1. stakingIncentive[e] \in Nat
      BY <1>1, <1>2 DEF StakingTyped
    <3>2. stakingIncentive[e] + returned \in Nat
      BY <1>5, <3>1
    <3> QED BY <1>1, <1>2, <1>3, <3>2 DEF StakingTyped
  <2>5. distributed' \in Nat /\ forfeited' \in Nat
    BY <1>1, <1>3, <1>5 DEF StakingTyped
  <2>6. epochCounter' = e
    BY <1>3
  <2> QED BY <1>1, <1>3, <2>2, <2>3, <2>4, <2>5, <2>6 DEF StakingTyped
<1>7. distributed' + forfeited' = distributed + forfeited + paid
  <2>1. distributed \in Nat /\ forfeited \in Nat
    BY <1>1 DEF StakingTyped
  <2> QED BY <1>3, <1>5, <2>1
<1>8. UNCHANGED <<epochCounter, totalTopUpsOLAS, fractions, votes>>
  BY <1>3
<1>9. mapLastClaimed[n] > 0 /\ mapLastClaimed[n] <= last /\ last <= epochCounter /\ last \in Nat
  BY <1>4
<1>10. Scale * (returned + paid) <= SumOverEpochs(WeightedOf(n), mapLastClaimed[n], last)
  BY <1>5
<1> HIDE DEF first
<1> QED BY <1>3, <1>5, <1>6, <1>7, <1>8, <1>9, <1>10, StakingClaims

\* A retention.
LEMMA StakingRetained ==
  ASSUME BondTypes, StakingInv, retain
  PROVE  StakingInv'
<1> PICK e : e = epochCounter
  OBVIOUS
<1> DEFINE first == mapLastClaimed[Retainer]
           last == LastClaimed(Retainer, MaxNumClaimingEpochs)
           Part(k) == stakingIncentive[k] * votes[k].weight[Retainer]
           seen == SumOverEpochs([k \in Epochs |-> IF k <= filled[Retainer] THEN Part(k) ELSE 0],
                                 first, last)
           missed == SumOverEpochs([k \in Epochs |-> IF k > filled[Retainer] THEN Part(k) ELSE 0],
                                   first, last)
           c == seen \div Scale
           d == missed \div Scale
<1>1. StakingTyped /\ StakingBudget /\ Retainer \in Nominees
  BY NomineeConstants DEF StakingInv
<1>2. e \in Nat /\ e > 0 /\ e \in Epochs /\ e \in 1..(MaxEpochs + 1)
  BY EpochTypes
<1>3. /\ CanClaim(Retainer)
      /\ mapLastClaimed' = [mapLastClaimed EXCEPT ![Retainer] = last]
      /\ stakingIncentive' = [stakingIncentive EXCEPT ![epochCounter] = @ + c]
      /\ forfeited' = forfeited + d
      /\ UNCHANGED <<epochCounter, totalTopUpsOLAS, fractions, stakingParams, votes, mapRemoved,
                     filled, distributed>>
  BY DEF retain, refundFromStaking, settleVars, paramVars
<1>4. first \in Nat /\ first > 0 /\ last \in Nat /\ first <= last /\ last <= e
  BY <1>1, <1>3, LastClaimedFacts, NomineeConstants
<1>5. /\ c \in Nat /\ d \in Nat
      /\ Scale * (c + d) <= SumOverEpochs(WeightedOf(Retainer), first, last)
  <2>1. first \in Int /\ last \in Int
    BY <1>4
  <2> HIDE DEF first, last
  <2> QED BY <1>1, <2>1, RetainedWithin DEF first, last
<1> HIDE DEF last, c, d, seen, missed
<1>6. StakingTyped'
  <2>1. last \in 0..MaxEpochs
    BY <1>4, EpochTypes
  <2>2. mapLastClaimed' \in [Nominees -> 0..MaxEpochs]
    BY <1>1, <1>3, <2>1 DEF StakingTyped
  <2>3. \A m \in Nominees : mapLastClaimed'[m] <= epochCounter'
    BY <1>1, <1>2, <1>3, <1>4 DEF StakingTyped
  <2>4. /\ stakingIncentive' \in [1..(MaxEpochs + 1) -> Nat]
        /\ \A k \in 1..(MaxEpochs + 1) : k > e => stakingIncentive'[k] = 0
    <3>1. stakingIncentive[e] \in Nat
      BY <1>1, <1>2 DEF StakingTyped
    <3>2. stakingIncentive[e] + c \in Nat
      BY <1>5, <3>1
    <3> QED BY <1>1, <1>2, <1>3, <3>2 DEF StakingTyped
  <2>5. distributed' \in Nat /\ forfeited' \in Nat
    BY <1>1, <1>3, <1>5 DEF StakingTyped
  <2>6. epochCounter' = e
    BY <1>3
  <2> QED BY <1>1, <1>3, <2>2, <2>3, <2>4, <2>5, <2>6 DEF StakingTyped
<1>7. distributed' + forfeited' = distributed + forfeited + d
  <2>1. distributed \in Nat /\ forfeited \in Nat
    BY <1>1 DEF StakingTyped
  <2> QED BY <1>3, <1>5, <2>1
<1>8. UNCHANGED <<epochCounter, totalTopUpsOLAS, fractions, votes>>
  BY <1>3
<1>9. mapLastClaimed[Retainer] > 0 /\ mapLastClaimed[Retainer] <= last /\ last <= epochCounter
      /\ last \in Nat
  BY <1>4
<1>10. Scale * (c + d) <= SumOverEpochs(WeightedOf(Retainer), mapLastClaimed[Retainer], last)
  BY <1>5
<1> HIDE DEF first
<1> QED BY <1>1, <1>3, <1>5, <1>6, <1>7, <1>8, <1>9, <1>10, StakingClaims

\* A settlement keeps the types.
LEMMA StakingTypedSettled ==
  ASSUME BondTypes, StakingTyped, BondTypes', epochCounter < MaxEpochs, SettleEpoch, CountVotes,
         UNCHANGED <<mapLastClaimed, mapRemoved, filled, distributed, forfeited>>
  PROVE  StakingTyped'
<1> PICK e : e = epochCounter
  OBVIOUS
<1> DEFINE inflation == InflationBetween(LastEnd, now, inflationPerSecond, currentYear)
           part == (inflation * fractions[e].staking) \div 100
<1>1. /\ e \in Nat /\ e > 0 /\ e \in Epochs /\ e \in 1..(MaxEpochs + 1) /\ e + 1 \in 1..(MaxEpochs + 1)
  BY EpochTypes, UnitConstants
<1>2. /\ epochCounter' = e + 1
      /\ totalTopUpsOLAS' = [totalTopUpsOLAS EXCEPT ![e] = inflation]
      /\ stakingIncentive' = [stakingIncentive EXCEPT ![e] = @ + part]
      /\ stakingParams' = IF "staking" \in updated THEN stakingParams
                          ELSE [stakingParams EXCEPT ![e + 1] = stakingParams[e]]
  BY DEF SettleEpoch
<1>3. inflation \in Nat
  <2>1. totalTopUpsOLAS'[e] = inflation /\ totalTopUpsOLAS'[e] \in Nat
    BY <1>1, <1>2 DEF BondTypes
  <2> QED BY <2>1
<1> HIDE DEF inflation
<1>4. part \in Nat
  <2>1. fractions[e] \in {FirstFractions} \cup NewFractions
    BY <1>1 DEF BondTypes
  <2>2. fractions[e].staking \in Nat
    BY <2>1, FractionTypes
  <2>3. inflation * fractions[e].staking \in Nat
    BY <1>3, <2>2
  <2> QED BY <2>3, QuotientLow
<1> HIDE DEF part
<1>5. /\ stakingIncentive' \in [1..(MaxEpochs + 1) -> Nat]
      /\ \A k \in 1..(MaxEpochs + 1) : k > epochCounter' => stakingIncentive'[k] = 0
  <2>1. stakingIncentive[e] \in Nat
    BY <1>1 DEF StakingTyped
  <2>2. stakingIncentive[e] + part \in Nat
    BY <1>4, <2>1
  <2> QED BY <1>1, <1>2, <2>2 DEF StakingTyped
<1>6. stakingParams' \in [1..(MaxEpochs + 1) -> {FirstStakingParams} \cup NewStakingParams]
  BY <1>1, <1>2 DEF StakingTyped
<1>7. votes' \in [Epochs -> VoteOutcomes \cup {NoVotes}]
  BY DEF CountVotes, StakingTyped
<1>8. \A n \in Nominees : mapLastClaimed'[n] <= epochCounter'
  <2>1. \A n \in Nominees : mapLastClaimed[n] \in 0..MaxEpochs /\ mapLastClaimed[n] <= e
    BY DEF StakingTyped
  <2>2. \A n \in Nominees : mapLastClaimed[n] <= e + 1
    BY <1>1, <2>1
  <2> QED BY <1>2, <2>2
<1> QED BY <1>5, <1>6, <1>7, <1>8 DEF StakingTyped

\* Every step keeps the budget of the staking incentives.
LEMMA StakingNext == BondInv /\ BondInv' /\ StakingInv /\ [Next]_vars => StakingInv'
<1> SUFFICES ASSUME BondInv, BondInv', StakingInv, [Next]_vars
             PROVE  StakingInv'
  OBVIOUS
<1>1. BondTypes /\ BondTypes' /\ StakingTyped
  BY DEF BondInv, StakingInv
<1>2. CASE Tick \/ BondCall \/ UnitCall \/ UNCHANGED vars
  <2>1. UNCHANGED <<epochCounter, totalTopUpsOLAS, fractions, stakingParams, stakingIncentive,
                    mapLastClaimed, mapRemoved, votes, filled, distributed, forfeited>>
    <3>1. CASE Tick
      BY <3>1 DEF Tick, inflationVars, settleVars, paramVars, dispenserVars
    <3>2. CASE BondCall
      BY <3>2 DEF BondCall, create, close, deposit, redeem, inflationRest, inflationVars,
                  settleVars, paramVars, dispenserVars
    <3>3. CASE UnitCall
      BY <3>3 DEF UnitCall, donate, claimOwnerIncentives, inflationVars, settleVars, paramVars,
                  dispenserVars
    <3>4. CASE UNCHANGED vars
      BY <3>4 DEF vars, inflationVars, settleVars, paramVars, dispenserVars
    <3> QED BY <1>2, <3>1, <3>2, <3>3, <3>4
  <2>2. StakingTyped'
    BY <1>1, <2>1 DEF StakingTyped
  <2> QED BY <1>1, <2>1, <2>2, StakingQuiet
<1>3. CASE OwnerCall
  <2>1. UNCHANGED <<epochCounter, totalTopUpsOLAS, stakingIncentive, mapLastClaimed, mapRemoved,
                    votes, filled, distributed, forfeited>>
    BY <1>3 DEF OwnerCall, changeTokenomicsParameters, changeIncentiveFractions,
                changeStakingParams, settleVars, dispenserVars
  <2>2. stakingParams' \in [1..(MaxEpochs + 1) -> {FirstStakingParams} \cup NewStakingParams]
    <3>1. \/ stakingParams' = stakingParams
          \/ \E p \in NewStakingParams : stakingParams' = [stakingParams EXCEPT ![epochCounter + 1] = p]
      BY <1>3 DEF OwnerCall, changeTokenomicsParameters, changeIncentiveFractions,
                  changeStakingParams
    <3>2. stakingParams \in [1..(MaxEpochs + 1) -> {FirstStakingParams} \cup NewStakingParams]
      BY <1>1 DEF StakingTyped
    <3> QED BY <3>1, <3>2
  <2>3. StakingTyped'
    BY <1>1, <2>1, <2>2 DEF StakingTyped
  <2> QED BY <1>1, <1>3, <2>1, <2>3, OwnerFractions, StakingQuiet
<1>4. CASE Checkpoint
  <2>1. /\ epochCounter < MaxEpochs /\ SettleEpoch /\ CountVotes
        /\ UNCHANGED <<mapLastClaimed, mapRemoved, filled, distributed, forfeited>>
    BY <1>4 DEF Checkpoint
  <2>2. StakingTyped'
    BY <1>1, <2>1, StakingTypedSettled
  <2> QED BY <1>1, <2>1, <2>2, StakingSettles
<1>5. CASE StakingCall
  <2>1. CASE \E n \in Nominees : addNominee(n)
    BY <1>1, <2>1, NomineeAdded
  <2>2. CASE \E n \in Nominees : removeNominee(n) \/ checkpointNominee(n)
    <3>1. UNCHANGED <<epochCounter, totalTopUpsOLAS, fractions, stakingParams, stakingIncentive,
                      mapLastClaimed, votes, distributed, forfeited>>
      BY <2>2 DEF removeNominee, checkpointNominee, inflationVars, settleVars, paramVars
    <3>2. mapRemoved' \in [Nominees -> 0..MaxEpochs] /\ filled' \in [Nominees -> 0..MaxEpochs]
      <4>1. epochCounter \in 0..MaxEpochs /\ epochCounter - 1 \in 0..MaxEpochs
        BY <1>1, EpochTypes
      <4> QED BY <1>1, <2>2, <4>1 DEF removeNominee, checkpointNominee, StakingTyped
    <3>3. StakingTyped'
      BY <1>1, <3>1, <3>2 DEF StakingTyped
    <3> QED BY <1>1, <3>1, <3>3, StakingQuiet
  <2>3. CASE \E n \in Nominees, num \in 1..MaxNumClaimingEpochs : claimStakingIncentives(n, num)
    <3>1. \A num \in 1..MaxNumClaimingEpochs : num \in Nat \ {0}
      BY NomineeConstants
    <3> QED BY <1>1, <2>3, <3>1, StakingClaimed
  <2>4. CASE retain
    BY <1>1, <2>4, StakingRetained
  <2> QED BY <1>5, <2>1, <2>2, <2>3, <2>4 DEF StakingCall
<1> QED BY <1>2, <1>3, <1>4, <1>5 DEF Next

LEMMA StakingAlways == Spec => []StakingInv
<1>1. BondInv /\ StakingInv /\ [Next]_vars => BondInv' /\ StakingInv'
  BY BondNext, StakingNext
<1> QED BY <1>1, BondInitially, StakingInitially, PTL DEF Spec

\* A bound on multiples is one on the factor, but for a quotient.
LEMMA QuotientOver ==
  ASSUME NEW k \in Nat \ {0}, NEW x \in Nat, NEW r \in Nat, NEW o \in Nat, k * x <= k * r + o
  PROVE  x <= r + o \div k
<1> DEFINE q == o \div k
<1>1. q \in Nat /\ o < k * (q + 1)
  <2>1. q \in Nat /\ o < k * q + k
    OBVIOUS
  <2>2. k * (q + 1) = k * q + k
    BY <2>1
  <2> QED BY <2>1, <2>2
<1> HIDE DEF q
<1>2. k * x < k * (r + q + 1)
  <2>1. k * (r + q + 1) = k * r + k * (q + 1) /\ k * r \in Nat /\ k * (q + 1) \in Nat /\ k * x \in Nat
    BY <1>1
  <2> QED BY <1>1, <2>1
<1>3. SUFFICES ASSUME x >= r + q + 1
               PROVE  FALSE
  BY <1>1 DEF q
<1>4. k * (r + q + 1) <= k * x
  <2>1. x - (r + q + 1) \in Nat /\ k * (x - (r + q + 1)) \in Nat
    BY <1>1, <1>3
  <2>2. k * x = k * (r + q + 1) + k * (x - (r + q + 1))
    BY <1>1, <1>3
  <2>3. k * (r + q + 1) \in Nat
    BY <1>1
  <2> QED BY <2>1, <2>2, <2>3
<1>5. k * (r + q + 1) \in Nat /\ k * x \in Nat
  BY <1>1
<1> QED BY <1>2, <1>4, <1>5

\* What is due to the nominees covers the rounding.
LEMMA StakingHolds == BondInv /\ StakingInv => StakingCovered
<1> SUFFICES ASSUME BondInv, StakingInv
             PROVE  StakingCovered
  OBVIOUS
<1> DEFINE x == distributed + forfeited + stakingIncentive[epochCounter]
           t == Total(Due, NumNominees)
           r == Total(StakingParts, MaxEpochs)
           o == Total(Overs, MaxEpochs)
           k == Scale
<1>1. BondTypes /\ StakingTyped /\ StakingBudget
  BY DEF BondInv, StakingInv
<1>2. k * x + t <= k * r + o
  BY <1>1 DEF StakingBudget
<1>3. t \in Nat /\ r \in Nat /\ o \in Nat /\ k \in Nat \ {0}
  BY <1>1, DueTypes, StakingPartAlways, OversTypes, NomineeConstants DEF StakingPartsTyped
<1>4. x \in Nat
  <2>1. epochCounter \in 1..(MaxEpochs + 1)
    BY <1>1, EpochTypes
  <2>2. distributed \in Nat /\ forfeited \in Nat /\ stakingIncentive[epochCounter] \in Nat
    BY <1>1, <2>1 DEF StakingTyped
  <2> QED BY <2>2
<1>5. x <= r + o \div k
  <2> HIDE DEF x, t, r, o, k
  <2>1. k * x \in Nat /\ k * r \in Nat
    BY <1>3, <1>4
  <2>2. k * x <= k * r + o
    BY <1>2, <1>3, <2>1
  <2> QED BY <1>3, <1>4, <2>2, QuotientOver
<1>6. TotalOver(LAMBDA e : IF e \in Settled THEN StakingOf(e) ELSE 0, MaxEpochs) = r
  BY DEF TotalOver, StakingParts, Epochs
<1>7. Overallocated = o \div k
  BY DEF Overallocated, TotalOver, Overs, Epochs
<1> QED BY <1>5, <1>6, <1>7 DEF StakingCovered

\* For all weights, limits, bridges, claims and retentions: what was sent to the staking targets,
\* refunded or not seen stays within the staking part of the settled epochs' inflation and what
\* their weights allocate beyond 100%: nothing beyond it is sent where they keep to 100%.
THEOREM StakingAlwaysCovered == Spec => []StakingCovered
BY BondAlways, StakingAlways, StakingHolds, PTL

\* For all lengths, fractions, years and late settlements: the inflation that the settled epochs
\* hand out never exceeds the schedule of the years that have begun (Tokenomics.sol:1129-1150),
\* the owners' top-ups stay within their part of it, and the staking incentives within theirs
\* and what the weights of the settled epochs allocate beyond 100%.
THEOREM InflationAlwaysKept == Spec => []InflationKept
<1>1. BondInv /\ ScheduleInv /\ TopUpsCovered /\ StakingCovered => InflationKept
  BY ScheduleHolds DEF InflationKept
<1> QED BY <1>1, BondAlways, ScheduleAlways, TopUpsAlwaysCovered, StakingAlwaysCovered, PTL

-----------------------------------------------------------------------------
(* The staking incentives: nothing lost but roundings                         *)

ShareOf(n) == [e \in Epochs |-> Share(n, e)]
UnevenOf(n) == [e \in Epochs |-> IF Uneven(n, e) THEN 1 ELSE 0]
UnclaimedShares == [n \in Nominees |-> Unclaimed(n)]
RoundedShares == [n \in Nominees |-> Roundings(n)]
Allocated(e) == Total([n \in 1..NumNominees |-> Share(n, e)], NumNominees)
UnallocatedParts == [e \in Epochs |-> IF e \in Settled THEN Unallocated(e) ELSE 0]
Kept ==
    distributed + forfeited + stakingIncentive[epochCounter]
      + Total(UnclaimedShares, NumNominees) + Total(UnallocatedParts, MaxEpochs)
ConservedInv ==
    /\ Total(StakingParts, MaxEpochs) <= Kept + Total(RoundedShares, NumNominees)
    /\ Kept <= Total(StakingParts, MaxEpochs) + Roundings(Retainer)

\* The invariants are the property.
LEMMA ConservedHolds == ConservedInv /\ RemovedDone => StakingConserved
<1>1. TotalOver(LAMBDA e : IF e \in Settled THEN StakingOf(e) ELSE 0, MaxEpochs)
        = Total(StakingParts, MaxEpochs)
  BY DEF TotalOver, StakingParts, Epochs
<1>2. TotalOver(Unclaimed, NumNominees) = Total(UnclaimedShares, NumNominees)
  BY DEF TotalOver, UnclaimedShares, Nominees
<1>3. TotalOver(LAMBDA e : IF e \in Settled THEN Unallocated(e) ELSE 0, MaxEpochs)
        = Total(UnallocatedParts, MaxEpochs)
  BY DEF TotalOver, UnallocatedParts, Epochs
<1>4. TotalOver(Roundings, NumNominees) = Total(RoundedShares, NumNominees)
  BY DEF TotalOver, RoundedShares, Nominees
<1> QED BY <1>1, <1>2, <1>3, <1>4 DEF ConservedInv, Kept, StakingConserved, RemovedDone

LEMMA RemovedInitially == Init => RemovedDone
BY DEF Init, DispenserInit, RemovedDone

\* A nominee is removed in an epoch it is not done with, and claims nothing after that one.
LEMMA RemovedNext == BondInv /\ StakingInv /\ RemovedDone /\ [Next]_vars => RemovedDone'
<1> SUFFICES ASSUME BondInv, StakingInv, RemovedDone, [Next]_vars
             PROVE  RemovedDone'
  OBVIOUS
<1>1. /\ BondTypes /\ StakingTyped /\ epochCounter \in Nat /\ epochCounter > 0
      /\ mapLastClaimed \in [Nominees -> 0..MaxEpochs] /\ mapRemoved \in [Nominees -> 0..MaxEpochs]
      /\ MaxEpochs \in Nat
  BY EpochTypes DEF BondInv, StakingInv, StakingTyped
<1>2. \A n \in Nominees : mapLastClaimed[n] <= epochCounter
  BY <1>1 DEF StakingTyped
<1>3. CASE UNCHANGED <<mapLastClaimed, mapRemoved>>
  BY <1>3 DEF RemovedDone
<1>4. ASSUME NEW n \in Nominees, NEW num \in Nat \ {0}, CanClaim(n),
             mapLastClaimed' = [mapLastClaimed EXCEPT ![n] = LastClaimed(n, num)],
             UNCHANGED mapRemoved
      PROVE  RemovedDone'
  <2> DEFINE last == LastClaimed(n, num)
  <2>1. /\ last \in Nat /\ mapLastClaimed[n] > 0 /\ mapLastClaimed[n] <= last
        /\ mapRemoved[n] > 0 => last <= mapRemoved[n] + 1
    BY <1>1, <1>4, LastClaimedFacts
  <2>2. last # 0
    BY <1>1, <2>1
  <2> HIDE DEF last
  <2>3. mapLastClaimed' = [mapLastClaimed EXCEPT ![n] = last]
    BY <1>4 DEF last
  <2> QED BY <1>1, <1>4, <2>1, <2>2, <2>3 DEF RemovedDone
<1>5. CASE StakingCall
  <2>1. ASSUME NEW n \in Nominees, addNominee(n)
        PROVE  RemovedDone'
    BY <1>1, <2>1 DEF addNominee, RemovedDone
  <2>2. ASSUME NEW n \in Nominees, removeNominee(n)
        PROVE  RemovedDone'
    BY <1>1, <1>2, <2>2 DEF removeNominee, RemovedDone
  <2>3. ASSUME NEW n \in Nominees, checkpointNominee(n)
        PROVE  RemovedDone'
    BY <1>3, <2>3 DEF checkpointNominee
  <2>4. ASSUME NEW n \in Nominees, NEW num \in 1..MaxNumClaimingEpochs,
               claimStakingIncentives(n, num)
        PROVE  RemovedDone'
    <3>1. num \in Nat \ {0}
      BY NomineeConstants
    <3> QED BY <1>4, <2>4, <3>1 DEF claimStakingIncentives
  <2>5. CASE retain
    <3>1. MaxNumClaimingEpochs \in Nat \ {0} /\ Retainer \in Nominees
      BY DispenserAssumption
    <3> QED BY <1>4, <2>5, <3>1 DEF retain
  <2> QED BY <1>5, <2>1, <2>2, <2>3, <2>4, <2>5 DEF StakingCall
<1>6. CASE ~StakingCall
  <2>1. UNCHANGED <<mapLastClaimed, mapRemoved>>
    BY <1>6 DEF Next, vars, Tick, Checkpoint, OwnerCall, BondCall, UnitCall, dispenserVars
  <2> QED BY <1>3, <2>1
<1> QED BY <1>5, <1>6

\* An amount split in two: the two weighted parts rounded down are one less than the whole at
\* most, and the whole when nothing is rounded.
LEMMA SplitRounded ==
  ASSUME NEW i \in Nat, NEW a \in Nat, a <= i, NEW w \in Nat, NEW k \in Nat \ {0}
  PROVE  LET p == (a * w) \div k
             q == ((i - a) * w) \div k
             m == (i * w) \div k
             o == IF (a * w) % k # 0 \/ ((i - a) * w) % k # 0 THEN 1 ELSE 0
         IN  /\ p \in Nat /\ q \in Nat /\ m \in Nat /\ o \in Nat
             /\ p + q <= m /\ m <= p + q + o
             /\ (i * w) % k # 0 => o = 1
<1> DEFINE x == a * w
           y == (i - a) * w
           z == i * w
           p == x \div k
           q == y \div k
           m == z \div k
           r == x % k
           s == y % k
           u == z % k
           o == IF r # 0 \/ s # 0 THEN 1 ELSE 0
<1>1. x \in Nat /\ y \in Nat /\ z \in Nat /\ x + y = z
  OBVIOUS
<1> HIDE DEF x, y, z
<1>2. /\ p \in Nat /\ q \in Nat /\ m \in Nat /\ r \in 0..(k - 1) /\ s \in 0..(k - 1) /\ u \in 0..(k - 1)
      /\ x = k * p + r /\ y = k * q + s /\ z = k * m + u
  BY <1>1
<1> HIDE DEF p, q, m, r, s, u
<1>3. /\ k * (p + q) = k * p + k * q /\ k * (p + q + 1) = k * p + k * q + k
      /\ k * (m + 1) = k * m + k
      /\ k * p \in Nat /\ k * q \in Nat /\ k * m \in Nat
  BY <1>2
<1>4. p + q <= m
  <2>1. SUFFICES ASSUME m + 1 <= p + q
                 PROVE  FALSE
    BY <1>2
  <2>2. k * (m + 1) <= k * (p + q)
    BY <1>2, <2>1
  <2> QED BY <1>1, <1>2, <1>3, <2>2
<1>5. m <= p + q + 1
  <2>1. SUFFICES ASSUME p + q + 2 <= m
                 PROVE  FALSE
    BY <1>2
  <2>2. k * (p + q + 2) <= k * m
    BY <1>2, <2>1
  <2>3. k * (p + q + 2) = k * p + k * q + k + k
    BY <1>2
  <2> QED BY <1>1, <1>2, <1>3, <2>2, <2>3
<1>6. r = 0 /\ s = 0 => m = p + q /\ u = 0
  <2> SUFFICES ASSUME r = 0, s = 0
               PROVE  m = p + q /\ u = 0
    OBVIOUS
  <2>1. k * m + u = k * (p + q)
    BY <1>1, <1>2, <1>3
  <2>2. m <= p + q
    <3>1. k * m <= k * (p + q)
      BY <1>2, <1>3, <2>1
    <3> QED BY <1>2, <3>1, CancelFactor
  <2>3. m = p + q
    BY <1>2, <1>4, <2>2
  <2> QED BY <1>2, <1>3, <2>1, <2>3
<1> QED BY <1>2, <1>4, <1>5, <1>6 DEF x, y, z, p, q, m, r, s, u

\* A division with remainder.
LEMMA QuotientTypes ==
  ASSUME NEW x \in Nat, NEW k \in Nat \ {0}
  PROVE  /\ x \div k \in Nat
         /\ k * (x \div k) <= x
         /\ x <= k * ((x \div k) + (IF x % k # 0 THEN 1 ELSE 0))
<1> DEFINE d == x \div k
           r == x % k
<1>1. d \in Nat /\ r \in 0..(k - 1) /\ x = k * d + r
  OBVIOUS
<1> HIDE DEF d, r
<1>2. k * (d + 1) = k * d + k /\ k * d \in Nat /\ k * (d + 0) = k * d
  BY <1>1
<1> QED BY <1>1, <1>2 DEF d, r

\* The shares of a nominee, and what is rounded of them.
LEMMA SharesTyped ==
  ASSUME BondTypes, StakingTyped
  PROVE  /\ \A n \in Nominees : /\ ShareOf(n) \in [Epochs -> Nat] /\ UnevenOf(n) \in [Epochs -> Nat]
                                /\ Unclaimed(n) \in Nat /\ Roundings(n) \in Nat
         /\ UnclaimedShares \in [1..NumNominees -> Nat] /\ RoundedShares \in [1..NumNominees -> Nat]
         /\ UnclaimedShares \in [1..NumNominees -> Int] /\ RoundedShares \in [1..NumNominees -> Int]
         /\ Total(UnclaimedShares, NumNominees) \in Nat
         /\ Total(RoundedShares, NumNominees) \in Nat
<1>1. ASSUME NEW n \in Nominees
      PROVE  /\ ShareOf(n) \in [Epochs -> Nat] /\ UnevenOf(n) \in [Epochs -> Nat]
             /\ Unclaimed(n) \in Nat /\ Roundings(n) \in Nat
  <2>1. ASSUME NEW e \in Epochs
        PROVE  Share(n, e) \in Nat
    <3>1. Weighted(n, e) \in Nat /\ Scale \in Nat \ {0}
      BY ShareTypes, NomineeConstants
    <3> QED BY <3>1, QuotientLow DEF Share, Weighted
  <2>2. ShareOf(n) \in [Epochs -> Nat]
    BY <2>1 DEF ShareOf
  <2>3. UnevenOf(n) \in [Epochs -> Nat]
    BY DEF UnevenOf
  <2>4. mapLastClaimed[n] \in Int /\ epochCounter \in Int /\ 1 \in Int
    BY EpochTypes DEF StakingTyped
  <2>5. /\ SumOverEpochs(ShareOf(n), mapLastClaimed[n], epochCounter) \in Nat
        /\ SumOverEpochs(UnevenOf(n), 1, mapLastClaimed[n]) \in Nat
    BY <2>2, <2>3, <2>4, WindowTypes
  <2>6. Unclaimed(n) \in Nat
    BY <2>5 DEF Unclaimed, ShareOf
  <2>7. Roundings(n) \in Nat
    BY <2>5 DEF Roundings, UnevenOf
  <2> QED BY <2>2, <2>3, <2>6, <2>7
<1>2. UnclaimedShares \in [1..NumNominees -> Nat] /\ RoundedShares \in [1..NumNominees -> Nat]
  BY <1>1, NomineeConstants DEF UnclaimedShares, RoundedShares
<1>3. UnclaimedShares \in [1..NumNominees -> Int] /\ RoundedShares \in [1..NumNominees -> Int]
  BY <1>2
<1>4. /\ Total(UnclaimedShares, NumNominees) \in Nat
      /\ Total(RoundedShares, NumNominees) \in Nat
  BY <1>2, NomineeConstants, TotalNonNegative
<1> QED BY <1>1, <1>2, <1>3, <1>4

\* The same of any state, to be used in the next one.
SharesTypedAgain ==
    /\ \A n \in Nominees : ShareOf(n) \in [Epochs -> Nat]
    /\ UnclaimedShares \in [1..NumNominees -> Int]

LEMMA SharesTypedAlways == BondTypes /\ StakingTyped => SharesTypedAgain
BY SharesTyped DEF SharesTypedAgain

\* What no nominee gets of an epoch.
UnallocatedTyped ==
    /\ \A e \in Epochs : Unallocated(e) = stakingIncentive[e] - Allocated(e) /\ Allocated(e) \in Nat
    /\ UnallocatedParts \in [1..MaxEpochs -> Int]
    /\ Total(UnallocatedParts, MaxEpochs) \in Int

LEMMA UnallocatedAlways == BondTypes /\ StakingTyped => UnallocatedTyped
<1> SUFFICES ASSUME BondTypes, StakingTyped
             PROVE  UnallocatedTyped
  OBVIOUS
<1>1. ASSUME NEW e \in Epochs
      PROVE  /\ Unallocated(e) = stakingIncentive[e] - Allocated(e) /\ Allocated(e) \in Nat
             /\ Unallocated(e) \in Int
  <2>1. \A n \in Nominees : Share(n, e) \in Nat
    <3> SUFFICES ASSUME NEW n \in Nominees
                 PROVE  Share(n, e) \in Nat
      OBVIOUS
    <3>1. ShareOf(n)[e] = Share(n, e) /\ ShareOf(n) \in [Epochs -> Nat]
      BY SharesTyped DEF ShareOf
    <3> QED BY <3>1
  <2>2. [n \in 1..NumNominees |-> Share(n, e)] \in [1..NumNominees -> Nat]
    BY <2>1, NomineeConstants
  <2>3. Allocated(e) \in Nat
    BY <2>2, NomineeConstants, TotalNonNegative DEF Allocated
  <2>4. stakingIncentive[e] \in Nat
    <3>1. e \in 1..(MaxEpochs + 1)
      BY UnitConstants
    <3> QED BY <3>1 DEF StakingTyped
  <2>5. Unallocated(e) = stakingIncentive[e] - Allocated(e)
    BY DEF Unallocated, Allocated, TotalOver
  <2> QED BY <2>3, <2>4, <2>5
<1>2. UnallocatedParts \in [1..MaxEpochs -> Int]
  BY <1>1, UnitConstants DEF UnallocatedParts
<1>3. Total(UnallocatedParts, MaxEpochs) \in Int
  BY <1>2, UnitConstants, TotalType
<1> QED BY <1>1, <1>2, <1>3 DEF UnallocatedTyped

\* Sums over the same epochs add up.
LEMMA SumAdds ==
  ASSUME NEW f \in [Epochs -> Nat], NEW g \in [Epochs -> Nat], NEW h \in [Epochs -> Nat],
         NEW first \in Int, NEW last \in Int, \A e \in Epochs : h[e] = f[e] + g[e]
  PROVE  SumOverEpochs(h, first, last) = SumOverEpochs(f, first, last) + SumOverEpochs(g, first, last)
<1> DEFINE F == Window(f, first, last)
           G == Window(g, first, last)
           H == Window(h, first, last)
<1>1. Epochs = 1..MaxEpochs /\ MaxEpochs \in Nat
  BY UnitConstants
<1>2. /\ F \in [1..MaxEpochs -> Int] /\ G \in [1..MaxEpochs -> Int] /\ H \in [1..MaxEpochs -> Int]
      /\ SumOverEpochs(f, first, last) = Total(F, MaxEpochs)
      /\ SumOverEpochs(g, first, last) = Total(G, MaxEpochs)
      /\ SumOverEpochs(h, first, last) = Total(H, MaxEpochs)
  BY WindowTypes
<1>3. ASSUME NEW e \in 1..MaxEpochs
      PROVE  H[e] = F[e] + G[e]
  <2>1. /\ F[e] = IF e \in first..(last - 1) THEN f[e] ELSE 0
        /\ G[e] = IF e \in first..(last - 1) THEN g[e] ELSE 0
        /\ H[e] = IF e \in first..(last - 1) THEN h[e] ELSE 0
        /\ h[e] = f[e] + g[e]
    BY <1>1 DEF Window
  <2> HIDE DEF F, G, H
  <2> QED BY <2>1
<1> HIDE DEF F, G, H
<1>4. Total(H, MaxEpochs) = Total(F, MaxEpochs) + Total(G, MaxEpochs)
  BY ONLY <1>1, <1>2, <1>3, TotalSum
<1> QED BY <1>2, <1>4

\* Sums over the same epochs keep the order, and a factor.
LEMMA SumOrders ==
  ASSUME NEW f \in [Epochs -> Nat], NEW g \in [Epochs -> Nat], NEW k \in Nat,
         NEW first \in Int, NEW last \in Int, \A e \in Epochs : f[e] <= k * g[e]
  PROVE  SumOverEpochs(f, first, last) <= k * SumOverEpochs(g, first, last)
<1> DEFINE F == Window(f, first, last)
           G == Window(g, first, last)
           one == 1
<1>1. Epochs = 1..MaxEpochs /\ MaxEpochs \in Nat
  BY UnitConstants
<1>2. /\ F \in [1..MaxEpochs -> Int] /\ G \in [1..MaxEpochs -> Int]
      /\ SumOverEpochs(f, first, last) = Total(F, MaxEpochs)
      /\ SumOverEpochs(g, first, last) = Total(G, MaxEpochs)
      /\ Total(F, MaxEpochs) \in Nat /\ Total(G, MaxEpochs) \in Nat
  BY WindowTypes
<1>3. ASSUME NEW e \in 1..MaxEpochs
      PROVE  F[e] * one <= G[e] * k
  <2>1. /\ F[e] = IF e \in first..(last - 1) THEN f[e] ELSE 0
        /\ G[e] = IF e \in first..(last - 1) THEN g[e] ELSE 0
        /\ f[e] <= k * g[e] /\ f[e] \in Nat /\ g[e] \in Nat
    BY <1>1 DEF Window
  <2> HIDE DEF F, G
  <2>2. CASE e \in first..(last - 1)
    BY <2>1, <2>2
  <2>3. CASE e \notin first..(last - 1)
    BY <2>1, <2>3
  <2> QED BY <2>2, <2>3
<1>4. one \in Int /\ k \in Int
  OBVIOUS
<1> HIDE DEF F, G, one
<1>5. Total(F, MaxEpochs) * one <= Total(G, MaxEpochs) * k
  BY ONLY <1>1, <1>2, <1>3, <1>4, TotalScaledBound
<1> DEFINE a == Total(F, MaxEpochs)
           b == Total(G, MaxEpochs)
<1>6. a \in Nat /\ b \in Nat /\ a * 1 <= b * k
  BY <1>2, <1>5 DEF one
<1> HIDE DEF a, b
<1>7. a <= k * b
  BY <1>6
<1> QED BY <1>2, <1>7 DEF a, b

\* The same from below.
LEMMA SumExceeds ==
  ASSUME NEW f \in [Epochs -> Nat], NEW g \in [Epochs -> Nat], NEW k \in Nat,
         NEW first \in Int, NEW last \in Int, \A e \in Epochs : k * g[e] <= f[e]
  PROVE  k * SumOverEpochs(g, first, last) <= SumOverEpochs(f, first, last)
<1> DEFINE z == [e \in Epochs |-> 0]
<1>1. z \in [Epochs -> Nat] /\ \A e \in Epochs : z[e] = 0
  OBVIOUS
<1> HIDE DEF z
<1>2. \A e \in Epochs : k * (g[e] + z[e]) <= f[e]
  BY <1>1
<1>3. first \in Int /\ last \in Int /\ k \in Nat
  OBVIOUS
<1>4. k * (SumOverEpochs(g, first, last) + SumOverEpochs(z, first, last))
        <= SumOverEpochs(f, first, last)
  BY ONLY <1>1, <1>2, <1>3, g \in [Epochs -> Nat], f \in [Epochs -> Nat], SumScaled
<1> DEFINE a == SumOverEpochs(g, first, last)
           b == SumOverEpochs(z, first, last)
           c == SumOverEpochs(f, first, last)
<1>5. a \in Nat /\ b \in Nat /\ c \in Nat
  BY <1>1, WindowTypes
<1> HIDE DEF a, b, c
<1>6. k * (a + b) = k * a + k * b /\ k * b \in Nat /\ k * a \in Nat
  BY <1>5
<1>7. k * (a + b) <= c
  BY <1>4 DEF a, b, c
<1>8. k * a <= c
  BY <1>5, <1>6, <1>7
<1> QED BY <1>8 DEF a, c

\* A quotient lies between the numbers whose multiples enclose the dividend.
LEMMA QuotientBetween ==
  ASSUME NEW x \in Nat, NEW k \in Nat \ {0}, NEW a \in Nat, NEW o \in Nat, NEW b,
         b = a + o, k * a <= x, x <= k * b
  PROVE  a <= x \div k /\ x \div k <= a + o
<1> DEFINE d == x \div k
<1>1. a <= d
  BY QuotientHigh
<1>2. d \in Nat /\ k * d <= x
  BY QuotientLow
<1> HIDE DEF d
<1>3. k * d <= k * b /\ b \in Int
  <2>1. k * d \in Nat /\ k * b \in Nat
    BY <1>2
  <2> QED BY <1>2, <2>1
<1>4. d <= b
  BY <1>2, <1>3, CancelFactor
<1> QED BY <1>1, <1>4 DEF d

\* What an epoch pays to a nominee and what it returns are its share, but for one wei when they
\* were rounded; and a share that is rounded counts as such.
LEMMA IncentiveRounded ==
  ASSUME BondTypes, StakingTyped, NEW n \in Nominees, NEW e \in Epochs
  PROVE  /\ EpochIncentive(n, e).paid + EpochIncentive(n, e).returned <= ShareOf(n)[e]
         /\ ShareOf(n)[e] <= EpochIncentive(n, e).paid + EpochIncentive(n, e).returned
                               + UnevenOf(n)[e]
         /\ Scale * ShareOf(n)[e] <= WeightedOf(n)[e]
         /\ WeightedOf(n)[e] <= Scale * (ShareOf(n)[e] + UnevenOf(n)[e])
<1> DEFINE i == stakingIncentive[e]
           s == votes[e].sum
           w == votes[e].weight[n]
           k == Scale
           a == Available(e)
           p == (a * w) \div k
           q == ((i - a) * w) \div k
           m == (i * w) \div k
           o == IF (a * w) % k # 0 \/ ((i - a) * w) % k # 0 THEN 1 ELSE 0
           capped == MinOf({p, stakingParams[e].maxIncentive})
           normalized == (capped \div BridgeUnit[n]) * BridgeUnit[n]
           low == w < stakingParams[e].minWeight
<1>1. i \in Nat /\ s \in Nat /\ w \in Nat /\ k \in Nat \ {0}
  BY ShareTypes, NomineeConstants
<1>2. a \in Nat /\ a <= i
  <2>1. a = MinOf({i, s})
    BY DEF Available
  <2> HIDE DEF i, s, a
  <2>2. i \in Int /\ s \in Int
    BY <1>1
  <2>3. (MinOf({i, s}) = i \/ MinOf({i, s}) = s) /\ MinOf({i, s}) <= i
    BY ONLY <2>2, MinOfTwo
  <2> QED BY <1>1, <2>1, <2>3
<1>3. ShareOf(n)[e] = m /\ UnevenOf(n)[e] = o /\ WeightedOf(n)[e] = i * w
  BY DEF ShareOf, UnevenOf, Share, Uneven, WeightedOf, Weighted
<1>4. EpochIncentive(n, e) = IF low THEN [paid |-> 0, returned |-> m]
                             ELSE [paid |-> normalized, returned |-> q + (p - normalized)]
  BY DEF EpochIncentive
<1>5. /\ p \in Nat /\ q \in Nat /\ m \in Nat /\ o \in Nat
      /\ p + q <= m /\ m <= p + q + o /\ ((i * w) % k # 0 => o = 1)
  <2> HIDE DEF i, w, k, a
  <2> QED BY <1>1, <1>2, SplitRounded
<1>6. EpochIncentive(n, e).paid \in Nat
  BY IncentiveWithin
<1>7. /\ EpochIncentive(n, e).paid + EpochIncentive(n, e).returned <= m
      /\ m <= EpochIncentive(n, e).paid + EpochIncentive(n, e).returned + o
  <2>1. CASE low
    <3>1. EpochIncentive(n, e) = [paid |-> 0, returned |-> m]
      BY <1>4, <2>1
    <3> HIDE DEF m, o
    <3>2. EpochIncentive(n, e).paid = 0 /\ EpochIncentive(n, e).returned = m
      BY <3>1
    <3> QED BY <1>5, <3>2
  <2>2. CASE ~low
    <3>1. EpochIncentive(n, e) = [paid |-> normalized, returned |-> q + (p - normalized)]
      BY <1>4, <2>2
    <3> HIDE DEF m, o, p, q, normalized
    <3>2. EpochIncentive(n, e).paid = normalized
          /\ EpochIncentive(n, e).returned = q + (p - normalized)
      BY <3>1
    <3>3. normalized \in Nat
      BY <1>6, <3>2
    <3>4. normalized + (q + (p - normalized)) = p + q
      BY <1>5, <3>3
    <3> QED BY <1>5, <3>2, <3>4
  <2> QED BY <2>1, <2>2
<1>8. k * m <= i * w /\ i * w <= k * (m + o)
  <2> DEFINE z == i * w
             u == IF z % k # 0 THEN 1 ELSE 0
  <2>1. z \in Nat /\ m = z \div k
    BY <1>1
  <2> HIDE DEF z, m
  <2>2. k * (z \div k) <= z /\ z <= k * ((z \div k) + u)
    BY <1>1, <2>1, QuotientTypes
  <2>3. u \in Nat /\ u <= o
    BY <1>5 DEF z
  <2> HIDE DEF u, o
  <2>4. k * (m + u) <= k * (m + o)
    BY <1>1, <1>5, <2>3
  <2>5. k * (m + u) \in Nat /\ k * (m + o) \in Nat /\ k * m <= z /\ z <= k * (m + u)
    BY <1>1, <1>5, <2>1, <2>2, <2>3
  <2>6. z <= k * (m + o)
    BY <2>1, <2>4, <2>5
  <2> QED BY <2>5, <2>6 DEF z
<1> QED BY <1>3, <1>7, <1>8

\* What a claim pays and returns together: the shares, but for the roundings.
LEMMA PaidRounded ==
  ASSUME BondTypes, StakingTyped, NEW n \in Nominees, NEW first \in Int, NEW last \in Int
  PROVE  LET paid == SumOverEpochs([e \in Epochs |-> EpochIncentive(n, e).paid], first, last)
             returned == SumOverEpochs([e \in Epochs |-> EpochIncentive(n, e).returned], first, last)
         IN  /\ paid + returned <= SumOverEpochs(ShareOf(n), first, last)
             /\ SumOverEpochs(ShareOf(n), first, last)
                  <= paid + returned + SumOverEpochs(UnevenOf(n), first, last)
<1> DEFINE f == [e \in Epochs |-> EpochIncentive(n, e).paid]
           g == [e \in Epochs |-> EpochIncentive(n, e).returned]
           h == ShareOf(n)
           o == UnevenOf(n)
           fg == [e \in Epochs |-> f[e] + g[e]]
           fgo == [e \in Epochs |-> fg[e] + o[e]]
           one == 1
           S(x) == SumOverEpochs(x, first, last)
<1>1. f \in [Epochs -> Nat] /\ g \in [Epochs -> Nat]
  BY IncentiveWithin
<1>2. h \in [Epochs -> Nat] /\ o \in [Epochs -> Nat]
  BY SharesTyped
<1>3. \A e \in Epochs : f[e] + g[e] <= h[e] /\ h[e] <= f[e] + g[e] + o[e]
  BY IncentiveRounded
<1> HIDE DEF f, g, h, o
<1>4. fg \in [Epochs -> Nat] /\ \A e \in Epochs : fg[e] = f[e] + g[e]
  BY <1>1
<1> HIDE DEF fg
<1>5. fgo \in [Epochs -> Nat] /\ \A e \in Epochs : fgo[e] = fg[e] + o[e]
  BY <1>2, <1>4
<1> HIDE DEF fgo
<1>6. \A e \in Epochs : fg[e] <= one * h[e] /\ h[e] <= one * fgo[e]
  BY <1>1, <1>2, <1>3, <1>4, <1>5
<1>7. first \in Int /\ last \in Int /\ one \in Nat
  OBVIOUS
<1> HIDE DEF one
<1>8. S(fg) = S(f) + S(g)
  BY ONLY <1>1, <1>4, <1>7, SumAdds
<1>9. S(fgo) = S(fg) + S(o)
  <2>1. fg \in [Epochs -> Nat] /\ o \in [Epochs -> Nat] /\ fgo \in [Epochs -> Nat]
    BY <1>2, <1>4, <1>5
  <2>2. \A e \in Epochs : fgo[e] = fg[e] + o[e]
    BY <1>5
  <2> QED BY ONLY <2>1, <2>2, <1>7, SumAdds
<1>10. S(fg) <= one * S(h)
  BY ONLY <1>2, <1>4, <1>6, <1>7, SumOrders
<1>11. S(h) <= one * S(fgo)
  BY ONLY <1>2, <1>5, <1>6, <1>7, SumOrders
<1>12. S(f) \in Nat /\ S(g) \in Nat /\ S(h) \in Nat /\ S(o) \in Nat
  BY <1>1, <1>2, WindowTypes
<1> HIDE DEF S
<1>13. S(f) + S(g) <= S(h) /\ S(h) <= S(f) + S(g) + S(o)
  BY <1>8, <1>9, <1>10, <1>11, <1>12 DEF one
<1> QED BY <1>13 DEF S, f, g, h, o

\* What retain refunds and does not see together: the shares, but for the roundings.
LEMMA RetainedRounded ==
  ASSUME BondTypes, StakingTyped, NEW first \in Int, NEW last \in Int
  PROVE  LET Part(e) == stakingIncentive[e] * votes[e].weight[Retainer]
             seen == SumOverEpochs([e \in Epochs |-> IF e <= filled[Retainer] THEN Part(e) ELSE 0],
                                   first, last)
             missed == SumOverEpochs([e \in Epochs |-> IF e > filled[Retainer] THEN Part(e) ELSE 0],
                                     first, last)
         IN  /\ SumOverEpochs(ShareOf(Retainer), first, last) <= seen \div Scale + missed \div Scale
             /\ seen \div Scale + missed \div Scale
                  <= SumOverEpochs(ShareOf(Retainer), first, last)
                       + SumOverEpochs(UnevenOf(Retainer), first, last)
<1> DEFINE Part(e) == stakingIncentive[e] * votes[e].weight[Retainer]
           f == [e \in Epochs |-> IF e <= filled[Retainer] THEN Part(e) ELSE 0]
           g == [e \in Epochs |-> IF e > filled[Retainer] THEN Part(e) ELSE 0]
           x == ShareOf(Retainer)
           o == UnevenOf(Retainer)
           h == WeightedOf(Retainer)
           xf == [e \in Epochs |-> IF e <= filled[Retainer] THEN x[e] ELSE 0]
           xg == [e \in Epochs |-> IF e > filled[Retainer] THEN x[e] ELSE 0]
           of == [e \in Epochs |-> IF e <= filled[Retainer] THEN o[e] ELSE 0]
           og == [e \in Epochs |-> IF e > filled[Retainer] THEN o[e] ELSE 0]
           af == [e \in Epochs |-> xf[e] + of[e]]
           ag == [e \in Epochs |-> xg[e] + og[e]]
           S(y) == SumOverEpochs(y, first, last)
           k == Scale
<1>1. h \in [Epochs -> Nat] /\ \A e \in Epochs : h[e] = Part(e)
  BY NomineeConstants, DueTypes DEF WeightedOf, Weighted
<1>2. x \in [Epochs -> Nat] /\ o \in [Epochs -> Nat]
  BY NomineeConstants, SharesTyped
<1>3. \A e \in Epochs : k * x[e] <= h[e] /\ h[e] <= k * (x[e] + o[e])
  BY NomineeConstants, IncentiveRounded
<1>4. k \in Nat \ {0} /\ filled[Retainer] \in Int /\ \A e \in Epochs : e \in Int
  BY NomineeConstants, UnitConstants DEF StakingTyped
<1>5. /\ \A e \in Epochs : f[e] = IF e <= filled[Retainer] THEN h[e] ELSE 0
      /\ \A e \in Epochs : g[e] = IF e > filled[Retainer] THEN h[e] ELSE 0
      /\ f \in [Epochs -> Nat] /\ g \in [Epochs -> Nat]
  BY <1>1
<1> HIDE DEF f, g, h, x, o, k
<1>6. /\ xf \in [Epochs -> Nat] /\ xg \in [Epochs -> Nat]
      /\ of \in [Epochs -> Nat] /\ og \in [Epochs -> Nat]
      /\ \A e \in Epochs : /\ xf[e] = IF e <= filled[Retainer] THEN x[e] ELSE 0
                           /\ xg[e] = IF e > filled[Retainer] THEN x[e] ELSE 0
                           /\ of[e] = IF e <= filled[Retainer] THEN o[e] ELSE 0
                           /\ og[e] = IF e > filled[Retainer] THEN o[e] ELSE 0
  BY <1>2
<1> HIDE DEF xf, xg, of, og
<1>7. /\ af \in [Epochs -> Nat] /\ ag \in [Epochs -> Nat]
      /\ \A e \in Epochs : af[e] = xf[e] + of[e] /\ ag[e] = xg[e] + og[e]
  BY <1>6
<1> HIDE DEF af, ag
<1>8. \A e \in Epochs : x[e] = xf[e] + xg[e] /\ o[e] = of[e] + og[e]
  BY <1>2, <1>4, <1>6
<1>9. \A e \in Epochs : /\ k * xf[e] <= f[e] /\ f[e] <= k * af[e]
                        /\ k * xg[e] <= g[e] /\ g[e] <= k * ag[e]
  <2> SUFFICES ASSUME NEW e \in Epochs
               PROVE  /\ k * xf[e] <= f[e] /\ f[e] <= k * af[e]
                      /\ k * xg[e] <= g[e] /\ g[e] <= k * ag[e]
    OBVIOUS
  <2>1. k * 0 = 0 /\ k * (0 + 0) = 0
    BY <1>4
  <2>2. CASE e <= filled[Retainer]
    <3>1. /\ f[e] = h[e] /\ xf[e] = x[e] /\ of[e] = o[e] /\ af[e] = x[e] + o[e]
          /\ g[e] = 0 /\ xg[e] = 0 /\ og[e] = 0 /\ ag[e] = 0 + 0
      BY <1>4, <1>5, <1>6, <1>7, <2>2
    <3> QED BY <1>3, <2>1, <3>1
  <2>3. CASE e > filled[Retainer]
    <3>1. /\ g[e] = h[e] /\ xg[e] = x[e] /\ og[e] = o[e] /\ ag[e] = x[e] + o[e]
          /\ f[e] = 0 /\ xf[e] = 0 /\ of[e] = 0 /\ af[e] = 0 + 0
      BY <1>4, <1>5, <1>6, <1>7, <2>3
    <3> QED BY <1>3, <2>1, <3>1
  <2> QED BY <1>4, <2>2, <2>3
<1>10. first \in Int /\ last \in Int /\ k \in Nat
  BY <1>4
<1>11. /\ S(f) \in Nat /\ S(g) \in Nat /\ S(xf) \in Nat /\ S(xg) \in Nat /\ S(of) \in Nat
       /\ S(og) \in Nat /\ S(x) \in Nat /\ S(o) \in Nat
  BY <1>2, <1>5, <1>6, WindowTypes
<1>12. S(x) = S(xf) + S(xg)
  <2>1. x \in [Epochs -> Nat] /\ xf \in [Epochs -> Nat] /\ xg \in [Epochs -> Nat]
    BY <1>2, <1>6, <1>7
  <2>2. \A e \in Epochs : x[e] = xf[e] + xg[e]
    BY <1>8
  <2> QED BY ONLY <2>1, <2>2, <1>10, SumAdds
<1>13. S(o) = S(of) + S(og)
  <2>1. o \in [Epochs -> Nat] /\ of \in [Epochs -> Nat] /\ og \in [Epochs -> Nat]
    BY <1>2, <1>6, <1>7
  <2>2. \A e \in Epochs : o[e] = of[e] + og[e]
    BY <1>8
  <2> QED BY ONLY <2>1, <2>2, <1>10, SumAdds
<1>14. S(af) = S(xf) + S(of)
  <2>1. af \in [Epochs -> Nat] /\ xf \in [Epochs -> Nat] /\ of \in [Epochs -> Nat]
    BY <1>2, <1>6, <1>7
  <2>2. \A e \in Epochs : af[e] = xf[e] + of[e]
    BY <1>7
  <2> QED BY ONLY <2>1, <2>2, <1>10, SumAdds
<1>15. S(ag) = S(xg) + S(og)
  <2>1. ag \in [Epochs -> Nat] /\ xg \in [Epochs -> Nat] /\ og \in [Epochs -> Nat]
    BY <1>2, <1>6, <1>7
  <2>2. \A e \in Epochs : ag[e] = xg[e] + og[e]
    BY <1>7
  <2> QED BY ONLY <2>1, <2>2, <1>10, SumAdds
<1>16. S(f) <= k * S(af)
  BY ONLY <1>5, <1>7, <1>9, <1>10, SumOrders
<1>17. S(g) <= k * S(ag)
  BY ONLY <1>5, <1>7, <1>9, <1>10, SumOrders
<1>18. k * S(xf) <= S(f)
  BY ONLY <1>5, <1>6, <1>9, <1>10, SumExceeds
<1>19. k * S(xg) <= S(g)
  BY ONLY <1>5, <1>6, <1>9, <1>10, SumExceeds
<1> HIDE DEF S
<1>20. S(xf) <= S(f) \div k /\ S(f) \div k <= S(xf) + S(of)
  BY ONLY <1>4, <1>11, <1>14, <1>16, <1>18, QuotientBetween
<1>21. S(xg) <= S(g) \div k /\ S(g) \div k <= S(xg) + S(og)
  BY ONLY <1>4, <1>11, <1>15, <1>17, <1>19, QuotientBetween
<1> DEFINE c == S(f) \div k
           d == S(g) \div k
<1>22. c \in Nat /\ d \in Nat
  BY <1>4, <1>11, QuotientLow
<1>23. S(x) <= c + d /\ c + d <= S(x) + S(o)
  <2> HIDE DEF c, d
  <2>1. S(xf) <= c /\ c <= S(xf) + S(of) /\ S(xg) <= d /\ d <= S(xg) + S(og)
    BY <1>20, <1>21 DEF c, d
  <2> QED BY <1>11, <1>12, <1>13, <1>22, <2>1
<1> QED BY <1>23 DEF S, c, d, f, g, x, o, k

\* A share depends on the amount and the votes of its epoch only.
LEMMA ShareStays ==
  ASSUME NEW e, stakingIncentive'[e] = stakingIncentive[e], votes'[e] = votes[e]
  PROVE  /\ \A n \in Nominees : Share(n, e)' = Share(n, e) /\ (Uneven(n, e)' <=> Uneven(n, e))
         /\ Allocated(e)' = Allocated(e)
         /\ Unallocated(e)' = Unallocated(e)
<1>1. \A n \in Nominees : Share(n, e)' = Share(n, e)
  BY DEF Share
<1>2. Available(e)' = Available(e)
  BY DEF Available
<1>3. \A n \in Nominees : Uneven(n, e)' <=> Uneven(n, e)
  BY <1>2 DEF Uneven
<1>4. [n \in 1..NumNominees |-> Share(n, e)'] = [n \in 1..NumNominees |-> Share(n, e)]
  BY <1>1 DEF Nominees
<1>5. Allocated(e)' = Total([n \in 1..NumNominees |-> Share(n, e)'], NumNominees)
  BY DEF Allocated
<1>6. Allocated(e)' = Allocated(e)
  BY <1>4, <1>5 DEF Allocated
<1>7. Unallocated(e) = stakingIncentive[e] - Allocated(e)
  BY DEF Unallocated, Allocated, TotalOver
<1>8. Unallocated(e)' = stakingIncentive'[e] - Allocated(e)'
  BY DEF Unallocated, Allocated, TotalOver
<1> QED BY <1>1, <1>3, <1>6, <1>7, <1>8

\* Sums over settled epochs stay when those do.
LEMMA SharesStay ==
  ASSUME BondTypes, \A e \in Settled : stakingIncentive'[e] = stakingIncentive[e] /\ votes'[e] = votes[e],
         NEW n \in Nominees, NEW first \in Int, NEW last \in Int, first > 0, last <= epochCounter
  PROVE  /\ SumOverEpochs(ShareOf(n)', first, last) = SumOverEpochs(ShareOf(n), first, last)
         /\ SumOverEpochs(UnevenOf(n)', first, last) = SumOverEpochs(UnevenOf(n), first, last)
<1> DEFINE x1 == ShareOf(n)'
           x0 == ShareOf(n)
           o1 == UnevenOf(n)'
           o0 == UnevenOf(n)
<1>1. \A e \in Epochs : e \in first..(last - 1) => e \in Settled
  BY EpochTypes, UnitConstants DEF Settled
<1>2. \A e \in Epochs : e \in first..(last - 1) =>
          Share(n, e)' = Share(n, e) /\ (Uneven(n, e)' <=> Uneven(n, e))
  BY <1>1, ShareStays
<1>3. \A e \in Epochs : e \in first..(last - 1) => x1[e] = x0[e]
  BY <1>2 DEF ShareOf
<1>4. \A e \in Epochs : e \in first..(last - 1) => o1[e] = o0[e]
  BY <1>2 DEF UnevenOf
<1>5. first \in Int /\ last \in Int
  OBVIOUS
<1> HIDE DEF x1, x0, o1, o0
<1>6. SumOverEpochs(x1, first, last) = SumOverEpochs(x0, first, last)
  BY ONLY <1>3, <1>5, SumAgrees
<1>7. SumOverEpochs(o1, first, last) = SumOverEpochs(o0, first, last)
  BY ONLY <1>4, <1>5, SumAgrees
<1> QED BY <1>6, <1>7 DEF x1, x0, o1, o0

\* What is unclaimed and rounded of a nominee, in this state and the next.
LEMMA ShareSums ==
  ASSUME NEW n \in Nominees
  PROVE  /\ Unclaimed(n) = IF mapLastClaimed[n] = 0 THEN 0
                            ELSE SumOverEpochs(ShareOf(n), mapLastClaimed[n], epochCounter)
         /\ Roundings(n) = SumOverEpochs(UnevenOf(n), 1, mapLastClaimed[n])
         /\ Unclaimed(n)' = IF mapLastClaimed'[n] = 0 THEN 0
                             ELSE SumOverEpochs(ShareOf(n)', mapLastClaimed'[n], epochCounter')
         /\ Roundings(n)' = SumOverEpochs(UnevenOf(n)', 1, mapLastClaimed'[n])
BY DEF Unclaimed, Roundings, ShareOf, UnevenOf, SumOverEpochs

\* Nothing is unclaimed at first.
LEMMA ConservedInitially == Init => ConservedInv
<1> SUFFICES ASSUME Init
             PROVE  ConservedInv
  OBVIOUS
<1>0. BondTypes /\ StakingTyped
  BY BondInitially, StakingInitially DEF BondInv, StakingInv
<1>1. epochCounter = 1 /\ stakingIncentive = [e \in 1..(MaxEpochs + 1) |-> 0]
      /\ mapLastClaimed = [n \in Nominees |-> 0] /\ distributed = 0 /\ forfeited = 0
  BY DEF Init, InflationInit, DispenserInit
<1>2. Settled = {}
  BY <1>1 DEF Settled
<1>3. Total(StakingParts, MaxEpochs) = 0
  <2>1. StakingParts \in [1..MaxEpochs -> Int] /\ MaxEpochs \in Nat
    BY <1>0, StakingPartAlways, UnitConstants DEF StakingPartsTyped
  <2>2. \A e \in 1..MaxEpochs : StakingParts[e] = 0
    BY <1>2, UnitConstants DEF StakingParts
  <2> QED BY <2>1, <2>2, TotalZero
<1>4. Total(UnallocatedParts, MaxEpochs) = 0
  <2>1. UnallocatedParts \in [1..MaxEpochs -> Int] /\ MaxEpochs \in Nat
    BY <1>0, UnallocatedAlways, UnitConstants DEF UnallocatedTyped
  <2>2. \A e \in 1..MaxEpochs : UnallocatedParts[e] = 0
    BY <1>2, UnitConstants DEF UnallocatedParts
  <2> QED BY <2>1, <2>2, TotalZero
<1>5. Total(UnclaimedShares, NumNominees) = 0
  <2>1. UnclaimedShares \in [1..NumNominees -> Int] /\ NumNominees \in Nat
    BY <1>0, SharesTyped, NomineeConstants
  <2>2. \A n \in 1..NumNominees : UnclaimedShares[n] = 0
    BY <1>1, NomineeConstants DEF UnclaimedShares, Unclaimed
  <2> QED BY <2>1, <2>2, TotalZero
<1>6. stakingIncentive[epochCounter] = 0
  BY <1>1, UnitConstants
<1>7. Total(RoundedShares, NumNominees) \in Nat /\ Roundings(Retainer) \in Nat
  BY <1>0, SharesTyped, NomineeConstants
<1> QED BY <1>1, <1>3, <1>4, <1>5, <1>6, <1>7 DEF ConservedInv, Kept

\* Steps that move nothing of the staking incentives.
LEMMA ConservedQuiet ==
  ASSUME BondTypes, ConservedInv,
         UNCHANGED <<epochCounter, totalTopUpsOLAS, mapLastClaimed, votes, stakingIncentive,
                     distributed, forfeited>>,
         \A e \in 1..epochCounter : fractions'[e] = fractions[e]
  PROVE  ConservedInv'
<1>1. StakingParts' = StakingParts
  BY SameStakingParts
<1>2. ASSUME NEW n \in Nominees
      PROVE  Unclaimed(n)' = Unclaimed(n) /\ Roundings(n)' = Roundings(n)
  <2>1. ShareOf(n)' = ShareOf(n)
    BY ShareStays DEF ShareOf
  <2>2. UnevenOf(n)' = UnevenOf(n)
    BY ShareStays DEF UnevenOf
  <2> QED BY <2>1, <2>2, ShareSums
<1>3. UnclaimedShares' = UnclaimedShares /\ RoundedShares' = RoundedShares
  BY <1>2 DEF UnclaimedShares, RoundedShares
<1>4. UnallocatedParts' = UnallocatedParts
  <2>1. \A e \in Epochs : Unallocated(e)' = Unallocated(e)
    BY ShareStays
  <2>2. Settled' = Settled
    BY DEF Settled
  <2> QED BY <2>1, <2>2 DEF UnallocatedParts
<1>5. Roundings(Retainer)' = Roundings(Retainer)
  BY <1>2, NomineeConstants
<1> QED BY <1>1, <1>3, <1>4, <1>5 DEF ConservedInv, Kept

\* A nominee takes over the epochs up to last, or is added in the current one: what is sent,
\* refunded or not seen comes out of its unclaimed shares, but for the roundings.
LEMMA ConservedMoves ==
  ASSUME BondTypes, StakingTyped, StakingTyped', ConservedInv,
         UNCHANGED <<epochCounter, totalTopUpsOLAS, fractions, votes>>,
         NEW n \in Nominees, NEW last \in Nat, mapLastClaimed[n] <= last, last <= epochCounter, last > 0,
         mapLastClaimed' = [mapLastClaimed EXCEPT ![n] = last],
         NEW c \in Nat, NEW d \in Nat,
         stakingIncentive' = [stakingIncentive EXCEPT ![epochCounter] = @ + c],
         distributed' + forfeited' = distributed + forfeited + d,
         NEW taken \in Nat, NEW o \in Nat,
         Unclaimed(n) = taken + SumOverEpochs(ShareOf(n), last, epochCounter),
         SumOverEpochs(UnevenOf(n), 1, last) = Roundings(n) + o,
         taken <= c + d + o, c + d <= taken + (IF n = Retainer THEN o ELSE 0)
  PROVE  ConservedInv'
<1> PICK e : e = epochCounter
  OBVIOUS
<1> DEFINE rest == SumOverEpochs(ShareOf(n), last, e)
           rounded == Roundings(n) + o
<1>1. e \in Nat /\ e > 0 /\ e \in Epochs /\ e \in 1..(MaxEpochs + 1) /\ Epochs = 1..MaxEpochs
      /\ Settled = 1..(e - 1) /\ MaxEpochs \in Nat
  BY EpochTypes, UnitConstants DEF Settled
<1>2. StakingParts' = StakingParts
  BY SameStakingParts
<1>3. stakingIncentive'[e] = stakingIncentive[e] + c
      /\ \A k \in Settled : stakingIncentive'[k] = stakingIncentive[k] /\ votes'[k] = votes[k]
  <2>1. stakingIncentive \in [1..(MaxEpochs + 1) -> Nat]
    BY DEF StakingTyped
  <2>2. \A k \in Settled : k # e /\ k \in 1..(MaxEpochs + 1)
    BY <1>1, EpochTypes
  <2> QED BY <1>1, <2>1, <2>2
<1>4. UnallocatedParts' = UnallocatedParts
  <2>1. \A k \in Settled : Unallocated(k)' = Unallocated(k)
    BY <1>3, ShareStays
  <2>2. Settled' = Settled
    BY DEF Settled
  <2> QED BY <2>1, <2>2 DEF UnallocatedParts
<1>5. ASSUME NEW m \in Nominees
      PROVE  /\ Unclaimed(m)' = IF m = n THEN rest ELSE Unclaimed(m)
             /\ Roundings(m)' = IF m = n THEN rounded ELSE Roundings(m)
  <2> DEFINE l == mapLastClaimed[m]
  <2>1. mapLastClaimed'[m] = IF m = n THEN last ELSE l
    BY DEF StakingTyped
  <2>2. l \in Nat /\ l <= e
    BY <1>1 DEF StakingTyped
  <2>3. CASE m = n
    <3>1. Unclaimed(m)' = SumOverEpochs(ShareOf(m)', last, e)
          /\ Roundings(m)' = SumOverEpochs(UnevenOf(m)', 1, last)
      BY <2>1, <2>3, ShareSums
    <3>2. 1 \in Int /\ last \in Int /\ e \in Int /\ 1 > 0 /\ e <= epochCounter
      BY <1>1
    <3>3. SumOverEpochs(ShareOf(m)', last, e) = rest
      BY <1>3, <2>3, <3>2, SharesStay
    <3>4. SumOverEpochs(UnevenOf(m)', 1, last) = SumOverEpochs(UnevenOf(m), 1, last)
      BY <1>3, <3>2, SharesStay
    <3> QED BY <2>3, <3>1, <3>3, <3>4
  <2>4. CASE m # n
    <3>1. mapLastClaimed'[m] = l
      BY <2>1, <2>4
    <3>2. 1 \in Int /\ l \in Int /\ e \in Int /\ 1 > 0 /\ e <= epochCounter /\ l <= epochCounter
      BY <1>1, <2>2
    <3>3. Roundings(m)' = Roundings(m)
      <4>1. SumOverEpochs(UnevenOf(m)', 1, l) = SumOverEpochs(UnevenOf(m), 1, l)
        BY <1>3, <3>2, SharesStay
      <4> QED BY <3>1, <4>1, ShareSums
    <3>4. Unclaimed(m)' = Unclaimed(m)
      <4>1. CASE l = 0
        BY <3>1, <4>1, ShareSums
      <4>2. CASE l # 0
        <5>1. SumOverEpochs(ShareOf(m)', l, e) = SumOverEpochs(ShareOf(m), l, e)
          <6>1. l > 0
            BY <2>2, <4>2
          <6> QED BY <1>3, <3>2, <6>1, SharesStay
        <5> QED BY <3>1, <4>2, <5>1, ShareSums
      <4> QED BY <4>1, <4>2
    <3> QED BY <2>4, <3>3, <3>4
  <2> QED BY <2>3, <2>4
<1>6. rest \in Nat /\ Roundings(n) \in Nat /\ rounded \in Nat
  <2>1. ShareOf(n) \in [Epochs -> Nat] /\ Roundings(n) \in Nat
    BY SharesTyped
  <2>2. last \in Int /\ e \in Int
    BY <1>1
  <2> QED BY <2>1, <2>2, WindowTypes
<1>7. Unclaimed(n) = taken + rest
  OBVIOUS
<1> HIDE DEF rest, rounded
<1>8. /\ UnclaimedShares' = [UnclaimedShares EXCEPT ![n] = rest]
      /\ RoundedShares' = [RoundedShares EXCEPT ![n] = rounded]
  BY <1>5 DEF UnclaimedShares, RoundedShares
<1>9. /\ UnclaimedShares \in [1..NumNominees -> Int] /\ RoundedShares \in [1..NumNominees -> Int]
      /\ UnclaimedShares[n] = taken + rest /\ RoundedShares[n] = Roundings(n)
      /\ Total(UnclaimedShares, NumNominees) \in Nat /\ Total(RoundedShares, NumNominees) \in Nat
      /\ n \in 1..NumNominees /\ NumNominees \in Nat /\ rest \in Int /\ rounded \in Int
  <2>1. /\ UnclaimedShares \in [1..NumNominees -> Int] /\ RoundedShares \in [1..NumNominees -> Int]
        /\ Total(UnclaimedShares, NumNominees) \in Nat /\ Total(RoundedShares, NumNominees) \in Nat
    BY SharesTyped
  <2>2. UnclaimedShares[n] = taken + rest /\ RoundedShares[n] = Roundings(n)
    BY <1>7 DEF UnclaimedShares, RoundedShares
  <2>3. n \in 1..NumNominees /\ NumNominees \in Nat
    BY NomineeConstants
  <2> HIDE DEF UnclaimedShares, RoundedShares
  <2> QED BY <1>6, <2>1, <2>2, <2>3
<1>10. Total(UnclaimedShares, NumNominees)' = Total(UnclaimedShares, NumNominees) - taken
  <2>1. Total([UnclaimedShares EXCEPT ![n] = rest], NumNominees)
          = Total(UnclaimedShares, NumNominees) - UnclaimedShares[n] + rest
    BY ONLY <1>9, TotalExcept
  <2>2. Total(UnclaimedShares, NumNominees)' = Total([UnclaimedShares EXCEPT ![n] = rest], NumNominees)
    BY <1>8
  <2> HIDE DEF UnclaimedShares
  <2> QED BY <1>6, <1>9, <2>1, <2>2
<1>11. Total(RoundedShares, NumNominees)' = Total(RoundedShares, NumNominees) + o
  <2>1. Total([RoundedShares EXCEPT ![n] = rounded], NumNominees)
          = Total(RoundedShares, NumNominees) - RoundedShares[n] + rounded
    BY ONLY <1>9, TotalExcept
  <2>2. Total(RoundedShares, NumNominees)' = Total([RoundedShares EXCEPT ![n] = rounded], NumNominees)
    BY <1>8
  <2> HIDE DEF RoundedShares
  <2> QED BY <1>6, <1>9, <2>1, <2>2 DEF rounded
<1>12. Roundings(Retainer)' = Roundings(Retainer) + (IF n = Retainer THEN o ELSE 0)
       /\ Roundings(Retainer) \in Nat
  <2>1. Roundings(Retainer)' = IF Retainer = n THEN rounded ELSE Roundings(Retainer)
    BY <1>5, NomineeConstants
  <2>2. Roundings(Retainer) \in Nat
    BY SharesTyped, NomineeConstants
  <2> QED BY <2>1, <2>2 DEF rounded
<1> DEFINE p == distributed + forfeited
           q == distributed' + forfeited'
           i == stakingIncentive[e]
           t == Total(UnclaimedShares, NumNominees)
           a == Total(UnallocatedParts, MaxEpochs)
           r == Total(RoundedShares, NumNominees)
           g == Total(StakingParts, MaxEpochs)
           v == Roundings(Retainer)
           x == IF n = Retainer THEN o ELSE 0
<1>13. p \in Nat /\ i \in Nat /\ a \in Int /\ t \in Nat /\ r \in Nat /\ g \in Nat /\ x \in Nat
  <2>1. p \in Nat
    BY DEF StakingTyped
  <2>2. i \in Nat
    BY <1>1 DEF StakingTyped
  <2>3. a \in Int
    BY UnallocatedAlways DEF UnallocatedTyped
  <2>4. g \in Nat
    BY StakingPartAlways DEF StakingPartsTyped
  <2>5. x \in Nat
    OBVIOUS
  <2> HIDE DEF p, i, a, g, x
  <2> QED BY <1>9, <2>1, <2>2, <2>3, <2>4, <2>5
<1>14. g <= p + i + t + a + r /\ p + i + t + a <= g + v
  BY DEF ConservedInv, Kept
<1>15. ConservedInv' <=> /\ g <= q + (i + c) + (t - taken) + a + (r + o)
                         /\ q + (i + c) + (t - taken) + a <= g + (v + x)
  BY <1>2, <1>3, <1>4, <1>10, <1>11, <1>12 DEF ConservedInv, Kept
<1>16. q = p + d /\ taken <= c + d + o /\ c + d <= taken + x
  OBVIOUS
<1> HIDE DEF p, q, i, t, a, r, g, v, x
<1>17. v \in Nat
  BY <1>12 DEF v
<1> QED BY <1>13, <1>14, <1>15, <1>16, <1>17

\* A settlement: what the epoch got is unclaimed, or voted for no nominee.
LEMMA ConservedSettles ==
  ASSUME BondTypes, BondTypes', StakingTyped, StakingTyped', ConservedInv, epochCounter < MaxEpochs,
         SettleEpoch, CountVotes, UNCHANGED <<mapLastClaimed, distributed, forfeited>>
  PROVE  ConservedInv'
<1> PICK e : e = epochCounter
  OBVIOUS
<1> DEFINE s == stakingIncentive[e]
           X == stakingIncentive'[e]
           given == [n \in 1..NumNominees |-> Share(n, e)']
           A == Allocated(e)'
<1>1. e \in Nat /\ e > 0 /\ e \in Epochs /\ e \in Int /\ e + 1 \in Int /\ e + 1 \in Epochs
      /\ Epochs = 1..MaxEpochs /\ MaxEpochs \in Nat /\ Settled = 1..(e - 1)
  BY EpochTypes, UnitConstants DEF Settled
<1>2. PICK v \in VoteOutcomes, part \in Nat :
         /\ \A n \in Nominees : v.weight[n] > 0 => mapLastClaimed[n] > 0
         /\ votes'[e] = v /\ \A k \in Epochs : k # e => votes'[k] = votes[k]
         /\ epochCounter' = e + 1 /\ s \in Nat
         /\ X = s + part /\ stakingIncentive'[e + 1] = 0
         /\ \A k \in Epochs : k # e => stakingIncentive'[k] = stakingIncentive[k]
         /\ Total(StakingParts, MaxEpochs)' = Total(StakingParts, MaxEpochs) + part
  BY EpochSettled
<1>3. \A k \in Settled : stakingIncentive'[k] = stakingIncentive[k] /\ votes'[k] = votes[k]
  <2>1. \A k \in Settled : k \in Epochs /\ k # e
    BY <1>1
  <2> QED BY <1>2, <2>1
<1>4. /\ \A n \in Nominees : ShareOf(n)' \in [Epochs -> Nat] /\ ShareOf(n)'[e] = Share(n, e)'
      /\ UnclaimedShares' \in [1..NumNominees -> Int]
  <2>1. SharesTypedAgain'
    BY SharesTypedAlways, PTL
  <2>2. \A n \in Nominees : ShareOf(n)'[e] = Share(n, e)'
    BY <1>1 DEF ShareOf
  <2> QED BY <2>1, <2>2 DEF SharesTypedAgain
<1>5. given \in [1..NumNominees -> Int] /\ A = Total(given, NumNominees)
      /\ \A n \in Nominees : given[n] = Share(n, e)' /\ Share(n, e)' \in Nat
  <2>1. \A n \in Nominees : Share(n, e)' \in Nat
    <3> SUFFICES ASSUME NEW n \in Nominees
                 PROVE  Share(n, e)' \in Nat
      OBVIOUS
    <3> DEFINE x1 == ShareOf(n)'
    <3>1. x1 \in [Epochs -> Nat] /\ x1[e] = Share(n, e)'
      BY <1>4
    <3> HIDE DEF x1
    <3> QED BY <1>1, <3>1
  <2>2. A = Total(given, NumNominees)
    BY DEF Allocated
  <2> QED BY <2>1, <2>2, NomineeConstants
<1>6. ASSUME NEW n \in Nominees
      PROVE  /\ Unclaimed(n)' = Unclaimed(n) + Share(n, e)'
             /\ Roundings(n)' = Roundings(n)
  <2> DEFINE l == mapLastClaimed[n]
             x1 == ShareOf(n)'
             h == Share(n, e)'
  <2>1. l \in Nat /\ l <= e /\ mapLastClaimed'[n] = l
    BY <1>1 DEF StakingTyped
  <2>2. x1 \in [Epochs -> Nat] /\ x1[e] = h /\ h \in Nat
    BY <1>4, <1>5
  <2>3. Unclaimed(n) \in Nat
    BY SharesTyped
  <2>4. 1 \in Int /\ l \in Int /\ 1 > 0 /\ l <= epochCounter /\ e <= epochCounter
    BY <1>1, <2>1
  <2>5. Roundings(n)' = Roundings(n)
    <3>1. SumOverEpochs(UnevenOf(n)', 1, l) = SumOverEpochs(UnevenOf(n), 1, l)
      BY <1>3, <2>4, SharesStay
    <3> QED BY <2>1, <3>1, ShareSums
  <2>6. CASE l = 0
    <3>1. v.weight[n] = 0
      <4>1. v.weight[n] \in Nat
        BY NomineeConstants
      <4> QED BY <1>2, <2>6, <4>1
    <3>2. h = 0
      <4>1. h = (X * v.weight[n]) \div Scale
        BY <1>2 DEF Share
      <4>2. X \in Nat /\ Scale \in Nat \ {0}
        BY <1>2, NomineeConstants
      <4> HIDE DEF X, h
      <4>3. X * 0 = 0 /\ 0 \div Scale = 0
        BY <4>2
      <4> QED BY <3>1, <4>1, <4>3
    <3>3. Unclaimed(n)' = 0 /\ Unclaimed(n) = 0
      BY <2>1, <2>6, ShareSums
    <3> HIDE DEF h
    <3>4. Unclaimed(n)' = Unclaimed(n) + h
      BY <3>2, <3>3
    <3> QED BY <2>5, <3>4 DEF h
  <2>7. CASE l # 0
    <3>1. l > 0
      BY <2>1, <2>7
    <3>2. SumOverEpochs(x1, l, e) = SumOverEpochs(ShareOf(n), l, e)
      BY <1>1, <1>3, <2>4, <3>1, SharesStay
    <3>3. Unclaimed(n)' = SumOverEpochs(x1, l, e + 1)
      <4>1. mapLastClaimed'[n] # 0 /\ mapLastClaimed'[n] = l
        BY <2>1, <2>7
      <4>2. epochCounter' = e + 1
        BY <1>2
      <4> QED BY <4>1, <4>2, ShareSums
    <3>4. Unclaimed(n) = SumOverEpochs(ShareOf(n), l, e)
      BY <2>7, ShareSums
    <3> HIDE DEF x1, h, l
    <3>5. SumOverEpochs(x1, l, e + 1) = SumOverEpochs(x1, l, e) + SumOverEpochs(x1, e, e + 1)
      <4>1. e <= e + 1
        BY <1>1
      <4> QED BY <1>1, <2>1, <2>2, <2>4, <4>1, SumSplits
    <3>6. SumOverEpochs(x1, e, e + 1) = x1[e]
      BY <1>1, <2>2, SumEnds
    <3>7. Unclaimed(n)' = Unclaimed(n) + h
      BY <2>2, <3>2, <3>3, <3>4, <3>5, <3>6
    <3> QED BY <2>5, <3>7 DEF h
  <2> QED BY <2>6, <2>7
<1>7. Total(UnclaimedShares, NumNominees)' = Total(UnclaimedShares, NumNominees) + A
  <2> DEFINE U0 == UnclaimedShares
             U1 == UnclaimedShares'
  <2>1. U0 \in [1..NumNominees -> Int] /\ U1 \in [1..NumNominees -> Int] /\ NumNominees \in Nat
    BY <1>4, SharesTyped, NomineeConstants
  <2>2. \A n \in 1..NumNominees : U1[n] = U0[n] + given[n]
    <3> SUFFICES ASSUME NEW n \in 1..NumNominees
                 PROVE  U1[n] = U0[n] + given[n]
      OBVIOUS
    <3>1. n \in Nominees
      BY NomineeConstants
    <3>2. U1[n] = Unclaimed(n)' /\ U0[n] = Unclaimed(n)
      BY <3>1 DEF UnclaimedShares
    <3> QED BY <1>5, <1>6, <3>1, <3>2
  <2> HIDE DEF U0, U1, given
  <2>3. Total(U1, NumNominees) = Total(U0, NumNominees) + Total(given, NumNominees)
    BY ONLY <1>5, <2>1, <2>2, TotalSum
  <2> QED BY <1>5, <2>3 DEF U0, U1
<1>8. RoundedShares' = RoundedShares /\ Roundings(Retainer)' = Roundings(Retainer)
  BY <1>6, NomineeConstants DEF RoundedShares
<1>9. Total(UnallocatedParts, MaxEpochs)' = Total(UnallocatedParts, MaxEpochs) + (X - A)
  <2> DEFINE P0 == UnallocatedParts
             P1 == UnallocatedParts'
             w == X - A
  <2>1. P0 \in [1..MaxEpochs -> Int] /\ P0[e] = 0
    BY <1>1, UnallocatedAlways DEF UnallocatedParts, UnallocatedTyped
  <2>2. UnallocatedTyped'
    BY UnallocatedAlways, PTL
  <2>3. P1 \in [1..MaxEpochs -> Int] /\ w \in Int
    <3>1. UnallocatedParts' \in [1..MaxEpochs -> Int] /\ A \in Nat
      BY <1>1, <2>2 DEF UnallocatedTyped
    <3> HIDE DEF A
    <3> QED BY <1>2, <3>1
  <2>4. P1 = [P0 EXCEPT ![e] = w]
    <3>1. P1[e] = w
      <4>1. e \in Settled'
        BY <1>1, <1>2 DEF Settled
      <4>2. Unallocated(e)' = w
        BY <1>1, <2>2 DEF UnallocatedTyped
      <4> QED BY <1>1, <4>1, <4>2 DEF UnallocatedParts
    <3>2. \A k \in 1..MaxEpochs : k # e => P1[k] = P0[k]
      <4> SUFFICES ASSUME NEW k \in 1..MaxEpochs, k # e
                   PROVE  P1[k] = P0[k]
        OBVIOUS
      <4>1. k \in Settled <=> k \in Settled'
        BY <1>1, <1>2 DEF Settled
      <4>2. k \in Settled => Unallocated(k)' = Unallocated(k)
        BY <1>3, ShareStays
      <4> QED BY <1>1, <4>1, <4>2 DEF UnallocatedParts
    <3> HIDE DEF P0, P1, w
    <3> QED BY <1>1, <2>1, <2>3, <3>1, <3>2
  <2> HIDE DEF P0, P1, w
  <2>5. e \in 1..MaxEpochs /\ MaxEpochs \in Nat
    BY <1>1
  <2>6. Total([P0 EXCEPT ![e] = w], MaxEpochs) = Total(P0, MaxEpochs) - P0[e] + w
    BY ONLY <2>1, <2>3, <2>5, TotalExcept
  <2>7. Total(P0, MaxEpochs) \in Int
    BY <2>1, <2>5, TotalType
  <2>8. Total(P1, MaxEpochs) = Total(P0, MaxEpochs) + w
    BY <2>1, <2>3, <2>4, <2>6, <2>7
  <2> QED BY <2>8 DEF P0, P1, w
<1> DEFINE p == distributed + forfeited
           t == Total(UnclaimedShares, NumNominees)
           a == Total(UnallocatedParts, MaxEpochs)
           r == Total(RoundedShares, NumNominees)
           g == Total(StakingParts, MaxEpochs)
           y == Roundings(Retainer)
<1>10. p \in Nat /\ t \in Nat /\ a \in Int /\ r \in Nat /\ g \in Nat /\ y \in Nat /\ A \in Int
  <2>1. p \in Nat
    BY DEF StakingTyped
  <2>2. t \in Nat /\ r \in Nat
    BY SharesTyped
  <2>3. y \in Nat
    BY SharesTyped, NomineeConstants
  <2>4. a \in Int
    BY UnallocatedAlways DEF UnallocatedTyped
  <2>5. g \in Nat
    BY StakingPartAlways DEF StakingPartsTyped
  <2>6. A \in Int
    <3> HIDE DEF given, A
    <3> QED BY <1>5, NomineeConstants, TotalType
  <2> HIDE DEF p, t, a, r, g, y, A
  <2> QED BY <2>1, <2>2, <2>3, <2>4, <2>5, <2>6
<1>11. g <= p + s + t + a + r /\ p + s + t + a <= g + y
  BY DEF ConservedInv, Kept
<1>12. ConservedInv' <=> /\ g + part <= p + 0 + (t + A) + (a + (X - A)) + r
                         /\ p + 0 + (t + A) + (a + (X - A)) <= (g + part) + y
  <2>1. Kept' = p + 0 + (t + A) + (a + (X - A))
    BY <1>2, <1>7, <1>9 DEF Kept
  <2>2. /\ Total(StakingParts, MaxEpochs)' = g + part
        /\ Total(RoundedShares, NumNominees)' = r /\ Roundings(Retainer)' = y
    BY <1>2, <1>8
  <2> HIDE DEF p, t, a, r, g, y, A, X
  <2> QED BY <2>1, <2>2 DEF ConservedInv
<1>13. X = s + part /\ s \in Nat
  BY <1>2
<1> HIDE DEF p, s, t, a, r, g, y, A, X
<1> QED BY <1>10, <1>11, <1>12, <1>13

\* A nominee is added with nothing unclaimed.
LEMMA ConservedAdded ==
  ASSUME BondTypes, StakingTyped, StakingTyped', ConservedInv, NEW n \in Nominees, addNominee(n)
  PROVE  ConservedInv'
<1> PICK e : e = epochCounter
  OBVIOUS
<1> DEFINE o == SumOverEpochs(UnevenOf(n), 1, e)
           x == IF n = Retainer THEN o ELSE 0
<1>1. e \in Nat /\ e > 0 /\ e \in Epochs /\ 1 \in Int /\ e \in Int /\ 0 \in Int
  BY EpochTypes
<1>2. /\ mapLastClaimed[n] = 0 /\ mapLastClaimed' = [mapLastClaimed EXCEPT ![n] = e]
      /\ UNCHANGED <<stakingIncentive, epochCounter, totalTopUpsOLAS, fractions, votes, distributed,
                     forfeited>>
  BY DEF addNominee, inflationVars, settleVars, paramVars
<1>3. ShareOf(n) \in [Epochs -> Nat] /\ UnevenOf(n) \in [Epochs -> Nat]
  BY SharesTyped
<1>4. o \in Nat
  BY <1>1, <1>3, WindowTypes
<1>5. Roundings(n) = 0
  <2> DEFINE w == Window(UnevenOf(n), 1, 0)
  <2>1. w \in [1..MaxEpochs -> Int] /\ SumOverEpochs(UnevenOf(n), 1, 0) = Total(w, MaxEpochs)
    BY <1>1, <1>3, WindowTypes
  <2>2. \A k \in 1..MaxEpochs : w[k] = 0
    BY UnitConstants DEF Window
  <2> HIDE DEF w
  <2>3. Total(w, MaxEpochs) = 0
    BY <2>1, <2>2, UnitConstants, TotalZero
  <2> QED BY <1>2, <2>1, <2>3, ShareSums
<1>6. SumOverEpochs(ShareOf(n), e, e) = 0
  BY <1>1, <1>3, SumEnds
<1>7. Unclaimed(n) = 0 + SumOverEpochs(ShareOf(n), e, epochCounter)
  BY <1>2, <1>6, ShareSums
<1>8. o = Roundings(n) + o
  <2> HIDE DEF o
  <2> QED BY <1>4, <1>5
<1>9. stakingIncentive' = [stakingIncentive EXCEPT ![epochCounter] = @ + 0]
  <2>1. stakingIncentive[epochCounter] \in Nat
    <3>1. epochCounter \in 1..(MaxEpochs + 1)
      BY EpochTypes
    <3> QED BY <3>1 DEF StakingTyped
  <2>2. stakingIncentive[epochCounter] + 0 = stakingIncentive[epochCounter]
    BY <2>1
  <2> QED BY <1>2, <2>2 DEF StakingTyped
<1>10. distributed' + forfeited' = distributed + forfeited + 0
  <2>1. distributed \in Nat /\ forfeited \in Nat
    BY DEF StakingTyped
  <2> QED BY <1>2, <2>1
<1>11. /\ mapLastClaimed[n] <= e /\ e <= epochCounter /\ 0 <= 0 + 0 + o /\ 0 + 0 <= 0 + x
       /\ 0 \in Nat
  <2> HIDE DEF o
  <2> QED BY <1>1, <1>2, <1>4
<1> HIDE DEF o
<1>12. SumOverEpochs(UnevenOf(n), 1, e) = Roundings(n) + o
  BY <1>8 DEF o
<1> QED BY <1>1, <1>2, <1>4, <1>7, <1>9, <1>10, <1>11, <1>12, ConservedMoves

\* A claim.
LEMMA ConservedClaimed ==
  ASSUME BondTypes, StakingTyped, StakingTyped', ConservedInv, NEW n \in Nominees,
         NEW num \in Nat \ {0}, claimStakingIncentives(n, num)
  PROVE  ConservedInv'
<1> PICK e : e = epochCounter
  OBVIOUS
<1> DEFINE first == mapLastClaimed[n]
           last == LastClaimed(n, num)
           paid == SumOverEpochs([k \in Epochs |-> EpochIncentive(n, k).paid], first, last)
           returned == SumOverEpochs([k \in Epochs |-> EpochIncentive(n, k).returned], first, last)
           taken == SumOverEpochs(ShareOf(n), first, last)
           o == SumOverEpochs(UnevenOf(n), first, last)
<1>1. e \in Nat /\ e > 0 /\ e \in Epochs /\ 1 \in Int /\ e \in Int
  BY EpochTypes
<1>2. /\ CanClaim(n)
      /\ mapLastClaimed' = [mapLastClaimed EXCEPT ![n] = last]
      /\ stakingIncentive' = [stakingIncentive EXCEPT ![epochCounter] = @ + returned]
      /\ distributed' = distributed + paid
      /\ UNCHANGED <<epochCounter, totalTopUpsOLAS, fractions, votes, forfeited>>
  BY DEF claimStakingIncentives, refundFromStaking, settleVars, paramVars
<1>3. first \in Nat /\ first > 0 /\ last \in Nat /\ first <= last /\ last <= e /\ last > 0
      /\ first \in Int /\ last \in Int /\ 1 <= first
  <2>1. first \in Nat /\ first > 0 /\ last \in Nat /\ first <= last /\ last <= e
    BY <1>2, LastClaimedFacts
  <2> HIDE DEF first, last
  <2> QED BY <2>1
<1>4. /\ paid \in Nat /\ returned \in Nat
      /\ paid + returned <= taken /\ taken <= paid + returned + o
  <2> HIDE DEF first, last
  <2> QED BY <1>3, PaidWithin, PaidRounded
<1>5. ShareOf(n) \in [Epochs -> Nat] /\ UnevenOf(n) \in [Epochs -> Nat]
  BY SharesTyped
<1> HIDE DEF last, paid, returned
<1>6. taken \in Nat /\ o \in Nat
  BY <1>3, <1>5, WindowTypes
<1>7. Unclaimed(n) = taken + SumOverEpochs(ShareOf(n), last, epochCounter)
  <2>1. Unclaimed(n) = SumOverEpochs(ShareOf(n), first, e)
    BY <1>3, ShareSums
  <2>2. SumOverEpochs(ShareOf(n), first, e) = taken + SumOverEpochs(ShareOf(n), last, e)
    <3> HIDE DEF first
    <3> QED BY <1>1, <1>3, <1>5, SumSplits
  <2> QED BY <2>1, <2>2
<1>8. SumOverEpochs(UnevenOf(n), 1, last) = Roundings(n) + o
  <2>1. Roundings(n) = SumOverEpochs(UnevenOf(n), 1, first)
    BY ShareSums
  <2>2. SumOverEpochs(UnevenOf(n), 1, last) = SumOverEpochs(UnevenOf(n), 1, first) + o
    <3> HIDE DEF first
    <3> QED BY <1>1, <1>3, <1>5, SumSplits
  <2> QED BY <2>1, <2>2
<1> HIDE DEF taken, o
<1>9. /\ taken <= returned + paid + o
      /\ returned + paid <= taken + (IF n = Retainer THEN o ELSE 0)
  BY <1>4, <1>6
<1>10. distributed' + forfeited' = distributed + forfeited + paid
  <2>1. distributed \in Nat /\ forfeited \in Nat
    BY DEF StakingTyped
  <2> QED BY <1>2, <1>4, <2>1
<1>11. mapLastClaimed[n] <= last /\ last <= epochCounter
  BY <1>3
<1> HIDE DEF first
<1> QED BY <1>2, <1>3, <1>4, <1>6, <1>7, <1>8, <1>9, <1>10, <1>11, ConservedMoves

\* A retention.
LEMMA ConservedRetained ==
  ASSUME BondTypes, StakingTyped, StakingTyped', ConservedInv, retain
  PROVE  ConservedInv'
<1> PICK e : e = epochCounter
  OBVIOUS
<1> PICK n : n = Retainer
  OBVIOUS
<1> DEFINE first == mapLastClaimed[n]
           last == LastClaimed(n, MaxNumClaimingEpochs)
           Part(k) == stakingIncentive[k] * votes[k].weight[n]
           seen == SumOverEpochs([k \in Epochs |-> IF k <= filled[n] THEN Part(k) ELSE 0], first, last)
           missed == SumOverEpochs([k \in Epochs |-> IF k > filled[n] THEN Part(k) ELSE 0], first, last)
           c == seen \div Scale
           d == missed \div Scale
           taken == SumOverEpochs(ShareOf(n), first, last)
           o == SumOverEpochs(UnevenOf(n), first, last)
<1>1. e \in Nat /\ e > 0 /\ e \in Epochs /\ 1 \in Int /\ e \in Int /\ n \in Nominees
  BY EpochTypes, NomineeConstants
<1>2. /\ CanClaim(n)
      /\ mapLastClaimed' = [mapLastClaimed EXCEPT ![n] = last]
      /\ stakingIncentive' = [stakingIncentive EXCEPT ![epochCounter] = @ + c]
      /\ forfeited' = forfeited + d
      /\ UNCHANGED <<epochCounter, totalTopUpsOLAS, fractions, votes, distributed>>
  BY DEF retain, refundFromStaking, settleVars, paramVars
<1>3. first \in Nat /\ first > 0 /\ last \in Nat /\ first <= last /\ last <= e /\ last > 0
      /\ first \in Int /\ last \in Int /\ 1 <= first
  <2>1. first \in Nat /\ first > 0 /\ last \in Nat /\ first <= last /\ last <= e
    BY <1>1, <1>2, LastClaimedFacts, NomineeConstants
  <2> HIDE DEF first, last
  <2> QED BY <2>1
<1>4. /\ c \in Nat /\ d \in Nat
      /\ taken <= c + d /\ c + d <= taken + o
  <2> HIDE DEF first, last
  <2> QED BY <1>3, RetainedWithin, RetainedRounded
<1>5. ShareOf(n) \in [Epochs -> Nat] /\ UnevenOf(n) \in [Epochs -> Nat]
  BY <1>1, SharesTyped
<1> HIDE DEF last, c, d, seen, missed
<1>6. taken \in Nat /\ o \in Nat
  BY <1>3, <1>5, WindowTypes
<1>7. Unclaimed(n) = taken + SumOverEpochs(ShareOf(n), last, epochCounter)
  <2>1. Unclaimed(n) = SumOverEpochs(ShareOf(n), first, e)
    BY <1>1, <1>3, ShareSums
  <2>2. SumOverEpochs(ShareOf(n), first, e) = taken + SumOverEpochs(ShareOf(n), last, e)
    <3> HIDE DEF first
    <3> QED BY <1>1, <1>3, <1>5, SumSplits
  <2> QED BY <2>1, <2>2
<1>8. SumOverEpochs(UnevenOf(n), 1, last) = Roundings(n) + o
  <2>1. Roundings(n) = SumOverEpochs(UnevenOf(n), 1, first)
    BY <1>1, ShareSums
  <2>2. SumOverEpochs(UnevenOf(n), 1, last) = SumOverEpochs(UnevenOf(n), 1, first) + o
    <3> HIDE DEF first
    <3> QED BY <1>1, <1>3, <1>5, SumSplits
  <2> QED BY <2>1, <2>2
<1> HIDE DEF taken, o
<1>9. taken <= c + d + o /\ c + d <= taken + (IF n = Retainer THEN o ELSE 0)
  BY <1>4, <1>6
<1>10. distributed' + forfeited' = distributed + forfeited + d
  <2>1. distributed \in Nat /\ forfeited \in Nat
    BY DEF StakingTyped
  <2> QED BY <1>2, <1>4, <2>1
<1>11. mapLastClaimed[n] <= last /\ last <= epochCounter
  BY <1>3
<1> HIDE DEF first
<1> QED BY <1>1, <1>2, <1>3, <1>4, <1>6, <1>7, <1>8, <1>9, <1>10, <1>11, ConservedMoves

\* Every step conserves the staking incentives.
LEMMA ConservedNext ==
  BondInv /\ BondInv' /\ StakingInv /\ StakingInv' /\ ConservedInv /\ [Next]_vars => ConservedInv'
<1> SUFFICES ASSUME BondInv, BondInv', StakingInv, StakingInv', ConservedInv, [Next]_vars
             PROVE  ConservedInv'
  OBVIOUS
<1>1. BondTypes /\ BondTypes' /\ StakingTyped /\ StakingTyped'
  BY DEF BondInv, StakingInv
<1>2. CASE Tick \/ BondCall \/ UnitCall \/ UNCHANGED vars
  <2>1. UNCHANGED <<epochCounter, totalTopUpsOLAS, fractions, stakingIncentive, mapLastClaimed,
                    votes, distributed, forfeited>>
    <3>1. CASE Tick
      BY <3>1 DEF Tick, inflationVars, settleVars, paramVars, dispenserVars
    <3>2. CASE BondCall
      BY <3>2 DEF BondCall, create, close, deposit, redeem, inflationRest, inflationVars,
                  settleVars, paramVars, dispenserVars
    <3>3. CASE UnitCall
      BY <3>3 DEF UnitCall, donate, claimOwnerIncentives, inflationVars, settleVars, paramVars,
                  dispenserVars
    <3>4. CASE UNCHANGED vars
      BY <3>4 DEF vars, inflationVars, settleVars, paramVars, dispenserVars
    <3> QED BY <1>2, <3>1, <3>2, <3>3, <3>4
  <2> QED BY <1>1, <2>1, ConservedQuiet
<1>3. CASE OwnerCall
  <2>1. UNCHANGED <<epochCounter, totalTopUpsOLAS, stakingIncentive, mapLastClaimed, votes,
                    distributed, forfeited>>
    BY <1>3 DEF OwnerCall, changeTokenomicsParameters, changeIncentiveFractions,
                changeStakingParams, settleVars, dispenserVars
  <2> QED BY <1>1, <1>3, <2>1, OwnerFractions, ConservedQuiet
<1>4. CASE Checkpoint
  <2>1. /\ epochCounter < MaxEpochs /\ SettleEpoch /\ CountVotes
        /\ UNCHANGED <<mapLastClaimed, distributed, forfeited>>
    BY <1>4 DEF Checkpoint
  <2> QED BY <1>1, <2>1, ConservedSettles
<1>5. CASE StakingCall
  <2>1. CASE \E n \in Nominees : addNominee(n)
    BY <1>1, <2>1, ConservedAdded
  <2>2. CASE \E n \in Nominees : removeNominee(n) \/ checkpointNominee(n)
    <3>1. UNCHANGED <<epochCounter, totalTopUpsOLAS, fractions, stakingIncentive, mapLastClaimed,
                      votes, distributed, forfeited>>
      BY <2>2 DEF removeNominee, checkpointNominee, inflationVars, settleVars, paramVars
    <3> QED BY <1>1, <3>1, ConservedQuiet
  <2>3. CASE \E n \in Nominees, num \in 1..MaxNumClaimingEpochs : claimStakingIncentives(n, num)
    <3>1. \A num \in 1..MaxNumClaimingEpochs : num \in Nat \ {0}
      BY NomineeConstants
    <3> QED BY <1>1, <2>3, <3>1, ConservedClaimed
  <2>4. CASE retain
    BY <1>1, <2>4, ConservedRetained
  <2> QED BY <1>5, <2>1, <2>2, <2>3, <2>4 DEF StakingCall
<1> QED BY <1>2, <1>3, <1>4, <1>5 DEF Next

\* For all weights, those above 100% together included, and all limits, bridges, removals, claims
\* and retentions: every wei of the staking part of the settled epochs is sent, refunded, unclaimed,
\* voted for nobody (less than nothing where the weights exceed 100%) or not seen by retain, the two
\* sides differ by one at most for each epoch and nominee whose shares are rounded, and no nominee
\* is done with an epoch after that of its removal (Dispenser.sol:381, :1154, Tokenomics.sol:833).
THEOREM StakingAlwaysConserved == Spec => []StakingConserved
<1>1. BondInv /\ StakingInv /\ ConservedInv /\ [Next]_vars => BondInv' /\ StakingInv' /\ ConservedInv'
  BY BondNext, StakingNext, ConservedNext
<1>2. Spec => []ConservedInv
  BY <1>1, BondInitially, StakingInitially, ConservedInitially, PTL DEF Spec
<1>3. Spec => []RemovedDone
  BY BondAlways, StakingAlways, RemovedInitially, RemovedNext, PTL DEF Spec
<1> QED BY <1>2, <1>3, ConservedHolds, PTL

-----------------------------------------------------------------------------
(* The supply: what the schedule leaves for the bonds of an epoch             *)

\* Three percentages of an amount, rounded down, are no more than it.
LEMMA ThreeParts ==
  ASSUME NEW x \in Nat, NEW b \in Nat, NEW u \in Nat, NEW s \in Nat, b + u + s <= 100
  PROVE  /\ (x * b) \div 100 \in Nat /\ (x * u) \div 100 \in Nat /\ (x * s) \div 100 \in Nat
         /\ (x * b) \div 100 + (x * u) \div 100 + (x * s) \div 100 <= x
<1> DEFINE B == x * b
           U == x * u
           S == x * s
           h == 100
<1>1. B \in Nat /\ U \in Nat /\ S \in Nat
  OBVIOUS
<1>2. B + U + S <= h * x
  <2>1. B + U + S = (b + u + s) * x
    OBVIOUS
  <2> DEFINE c == b + u + s
  <2>2. c \in Nat /\ c <= h /\ h \in Nat
    OBVIOUS
  <2> HIDE DEF B, U, S, c, h
  <2>3. c * x <= h * x
    BY <2>2, ProductMono
  <2> QED BY <2>1, <2>3 DEF c
<1> HIDE DEF B, U, S
<1> DEFINE p == B \div 100
           q == U \div 100
           r == S \div 100
<1>3. p \in Nat /\ q \in Nat /\ r \in Nat /\ 100 * p <= B /\ 100 * q <= U /\ 100 * r <= S
  BY <1>1, QuotientLow
<1> HIDE DEF p, q, r
<1>4. p + q + r <= x
  BY <1>1, <1>2, <1>3 DEF h
<1> QED BY <1>3, <1>4 DEF p, q, r, B, U, S

\* The schedule only grows.
LEMMA ScheduleGrows ==
  ASSUME NEW x \in Nat, NEW z \in Nat, x <= z, z <= MaxTime \div Year + CapYears + 2
  PROVE  /\ InflationUntilYear(x) \in Int /\ InflationUntilYear(z) \in Int
         /\ InflationUntilYear(x) <= InflationUntilYear(z)
<1> DEFINE M == MaxTime \div Year + CapYears + 1
           S == {d \in Nat : x + d <= M + 1 =>
                   InflationUntilYear(x + d) \in Nat /\ InflationUntilYear(x) <= InflationUntilYear(x + d)}
<1>1. M \in Nat /\ x <= M + 1 /\ z <= M + 1
  <2>1. MaxTime \div Year \in Nat /\ CapYears \in Nat
    BY ScheduleAssumption, QuotientType
  <2> QED BY <2>1
<1>2. \A y \in Nat : y <= M =>
        /\ InflationUntilYear(y) \in Nat /\ InflationForYear[y] \in Nat
        /\ InflationUntilYear(y + 1) = InflationUntilYear(y) + InflationForYear[y]
  BY ScheduleAdds
<1> HIDE DEF M
<1>3. \A y \in Nat : y <= M + 1 => InflationUntilYear(y) \in Nat
  <2>1. InflationUntilYear(M) \in Nat /\ InflationForYear[M] \in Nat
        /\ InflationUntilYear(M + 1) = InflationUntilYear(M) + InflationForYear[M]
    BY <1>1, <1>2
  <2>2. InflationUntilYear(M + 1) \in Nat
    BY <2>1
  <2>3. \A y \in Nat : y <= M + 1 => y <= M \/ y = M + 1
    BY <1>1
  <2> QED BY <1>2, <2>2, <2>3
<1>4. 0 \in S
  <2>1. x + 0 = x /\ InflationUntilYear(x) \in Nat
    BY <1>1, <1>3
  <2> QED BY <2>1
<1>5. ASSUME NEW d \in Nat, d \in S
      PROVE  d + 1 \in S
  <2> SUFFICES ASSUME x + (d + 1) <= M + 1
               PROVE  /\ InflationUntilYear(x + (d + 1)) \in Nat
                      /\ InflationUntilYear(x) <= InflationUntilYear(x + (d + 1))
    OBVIOUS
  <2>1. x + d \in Nat /\ x + d <= M /\ x + d <= M + 1 /\ x + (d + 1) = (x + d) + 1
    BY <1>1
  <2>2. /\ InflationUntilYear(x + d) \in Nat /\ InflationForYear[x + d] \in Nat
        /\ InflationUntilYear(x + (d + 1)) = InflationUntilYear(x + d) + InflationForYear[x + d]
    BY <1>2, <2>1
  <2>3. InflationUntilYear(x) <= InflationUntilYear(x + d) /\ InflationUntilYear(x) \in Nat
    BY <1>1, <1>3, <1>5, <2>1
  <2> QED BY <2>2, <2>3
<1>6. Nat \subseteq S
  <2> HIDE DEF S
  <2> QED BY <1>4, <1>5, SetInduction
<1>7. z - x \in Nat /\ x + (z - x) = z
  OBVIOUS
<1>8. InflationUntilYear(x) <= InflationUntilYear(z)
  BY <1>1, <1>6, <1>7
<1> QED BY <1>1, <1>3, <1>8

\* What the settled epochs hand out and what the current one yields if it is settled as soon as
\* possible follow the schedule.
LEMMA PlannedWithin ==
  ASSUME BondInv, ScheduleInv
  PROVE  LET end == LastEnd + epochLen
             inflation == InflationBetween(LastEnd, end, inflationPerSecond, currentYear)
         IN  /\ inflation \in Nat /\ YearOf(end) \in Nat /\ YearOf(end) <= MaxTime \div Year + 1
             /\ Total(totalTopUpsOLAS, MaxEpochs) + inflation <= InflationUntilYear(YearOf(end) + 1)
<1> DEFINE a == LastEnd
           b == LastEnd + epochLen
           y == currentYear
           z == YearOf(b)
           p == inflationPerSecond
           s == YearStart
           T == Total(totalTopUpsOLAS, MaxEpochs)
           E == (y + 1) * Year
           I == InflationForYear[y]
           U == InflationUntilYear(y)
           inflation == InflationBetween(a, b, p, y)
<1>1. /\ a \in Nat /\ a <= now /\ now \in Nat /\ Year \in Nat \ {0}
      /\ y \in Nat /\ y * Year <= a /\ a < E
      /\ y <= MaxTime \div Year /\ MaxTime \div Year \in Nat /\ CapYears \in Nat
      /\ s \in Nat /\ T \in Nat /\ p \in Nat
  BY YearBound, LastEndFacts
<1>2. epochLen \in Nat /\ epochLen < Year /\ b \in Nat /\ a <= b /\ b - a = epochLen
  BY <1>1, EpochConstants DEF BondInv, BondTypes
<1>3. s <= a /\ p * (E - s) <= I /\ T <= U + (a - s) * p
  BY DEF ScheduleInv
<1>4. U \in Nat /\ I \in Nat /\ InflationUntilYear(y + 1) = U + I
  BY <1>1, ScheduleAdds
<1>5. z \in Nat /\ z * Year <= b /\ b < z * Year + Year
  BY <1>2, YearFacts
<1>6. y = YearOf(a)
  BY DEF BondInv, EpochPlace
<1>7. E = y * Year + Year /\ E \in Nat /\ E + Year = (y + 2) * Year /\ y * Year \in Nat
  BY <1>1
<1>8. IF b < E THEN z = y ELSE z = y + 1
  <2>1. CASE b < E
    <3>1. y * Year <= b /\ b < y * Year + Year
      BY <1>1, <1>2, <1>7, <2>1
    <3>2. z = y
      BY <1>1, <1>2, <3>1, YearUnique
    <3> QED BY <2>1, <3>2
  <2>2. CASE ~(b < E)
    <3>1. y + 1 \in Nat /\ (y + 1) * Year <= b /\ b < (y + 1) * Year + Year
      BY <1>1, <1>2, <1>7, <2>2
    <3>2. z = y + 1
      BY <1>2, <3>1, YearUnique
    <3> QED BY <2>2, <3>2
  <2> QED BY <2>1, <2>2
<1>9. T + (E - a) * p <= U + I /\ (E - a) * p \in Nat
  <2>1. a <= E /\ E - a \in Nat
    BY <1>1, <1>7
  <2>2. T + (E - a) * p <= U + I
    <3> HIDE DEF s, a, p, E, I, U, T
    <3> QED BY <1>1, <1>3, <1>4, <1>7, <2>1, YearEnds
  <2>3. (E - a) * p \in Nat
    <3> HIDE DEF s, a, p, E
    <3> QED BY <1>1, <2>1
  <2> QED BY <2>2, <2>3
<1>10. CASE b < E
  <2>1. z = y
    BY <1>8, <1>10
  <2>2. inflation = (b - a) * p
    <3>1. ~(YearOf(b) > y)
      BY <1>1, <2>1
    <3> HIDE DEF a, b, p, y
    <3> QED BY <3>1 DEF InflationBetween
  <2>3. b - a \in Nat /\ E - a \in Nat /\ b - a <= E - a
    BY <1>1, <1>2, <1>7, <1>10
  <2> DEFINE v == b - a
             w == E - a
  <2>4. v * p \in Nat /\ v * p <= w * p
    <3> HIDE DEF v, w, p
    <3> QED BY <1>1, <2>3, ProductMono DEF v, w
  <2> DEFINE A == (b - a) * p
             B == (E - a) * p
  <2>5. A \in Nat /\ A <= B /\ B \in Nat /\ T + B <= U + I /\ inflation = A
    BY <1>9, <2>2, <2>4
  <2>6. T + A <= InflationUntilYear(z + 1)
    <3>1. InflationUntilYear(z + 1) = U + I
      BY <1>4, <2>1
    <3> HIDE DEF A, B, T, U, I, z, inflation
    <3> QED BY <1>1, <1>4, <2>5, <3>1
  <2>7. z <= MaxTime \div Year + 1
    BY <1>1, <2>1
  <2> QED BY <1>5, <2>5, <2>6, <2>7
<1>11. CASE ~(b < E)
  <2> DEFINE J == InflationForYear[y + 1]
             r == J \div Year
             A == (E - a) * p
             B == (b - E) * r
  <2>1. z = y + 1 /\ z > y
    BY <1>1, <1>8, <1>11
  <2>2. J \in Nat /\ InflationUntilYear((y + 1) + 1) = InflationUntilYear(y + 1) + J
    <3>1. y + 1 \in Nat /\ y + 1 <= MaxTime \div Year + CapYears + 1
      BY <1>1
    <3> QED BY <3>1, ScheduleAdds
  <2>3. r \in Nat /\ Year * r <= J
    <3> HIDE DEF J
    <3> QED BY <1>1, <2>2, QuotientLow
  <2>4. inflation = A + B
    <3>1. inflation = (z * Year - a) * p + (b - z * Year) * (InflationForYear[z] \div Year)
      BY <1>1, <1>5, <2>1, InflationAcross
    <3> QED BY <2>1, <3>1
  <2>5. B \in Nat /\ B <= J
    <3> DEFINE v == b - E
    <3>1. v \in Nat /\ v <= Year
      BY <1>1, <1>2, <1>7, <1>11
    <3>2. v * r \in Nat /\ v * r <= Year * r /\ Year * r \in Nat
      <4> HIDE DEF v, r
      <4> QED BY <1>1, <2>3, <3>1, ProductMono
    <3> HIDE DEF v, r, J
    <3> QED BY <2>2, <2>3, <3>2 DEF v
  <2>6. A \in Nat /\ T + A <= U + I
    BY <1>9
  <2>7. InflationUntilYear(z + 1) = (U + I) + J
    BY <1>4, <2>1, <2>2
  <2>8. inflation \in Nat /\ T + inflation <= (U + I) + J
    <3> HIDE DEF A, B, J, U, I, T, inflation
    <3> QED BY <1>1, <1>4, <2>2, <2>4, <2>5, <2>6
  <2>9. z <= MaxTime \div Year + 1
    BY <1>1, <2>1
  <2> HIDE DEF inflation, z, T, U, I, J
  <2> QED BY <1>5, <2>7, <2>8, <2>9 DEF inflation, z, T
<1> QED BY <1>10, <1>11

\* What the settled epochs yield for bonds, top-ups and staking is within their inflation, where
\* their weights keep to 100%.
LEMMA PartsOfInflation ==
  ASSUME BondInv, UnitInv, StakingInv, Overallocated = 0
  PROVE  /\ Total(Yields, MaxEpochs) \in Nat
         /\ Total(Yields, MaxEpochs) + toppedUp + distributed <= Total(totalTopUpsOLAS, MaxEpochs)
<1> DEFINE Y == Yields
           U == TopUpParts
           S == StakingParts
           T == totalTopUpsOLAS
           YU == [e \in 1..MaxEpochs |-> Y[e] + U[e]]
           A == [e \in 1..MaxEpochs |-> YU[e] + S[e]]
<1>1. BondTypes /\ StakingTyped /\ UnitTyped
  BY DEF BondInv, UnitInv, StakingInv
<1>2. Epochs = 1..MaxEpochs /\ MaxEpochs \in Nat
  BY UnitConstants
<1>3. ASSUME NEW e \in 1..MaxEpochs
      PROVE  /\ Y[e] \in Nat /\ U[e] \in Nat /\ S[e] \in Nat /\ T[e] \in Nat
             /\ Y[e] + U[e] + S[e] <= T[e]
  <2> DEFINE f == fractions[e]
             b == f.bond
             u == f.topUp["component"] + f.topUp["agent"]
             s == f.staking
  <2>1. e \in Epochs /\ e \in 1..(MaxEpochs + 1)
    BY <1>2
  <2>2. f \in {FirstFractions} \cup NewFractions /\ T[e] \in Nat
    BY <1>1, <2>1 DEF BondTypes
  <2>3. b \in Nat /\ u \in Nat /\ s \in Nat /\ b + u + s <= 100
    <3> HIDE DEF f
    <3>1. /\ f.bond \in Nat /\ f.staking \in Nat
          /\ f.topUp["component"] \in Nat /\ f.topUp["agent"] \in Nat
          /\ f.bond + f.topUp["component"] + f.topUp["agent"] + f.staking <= 100
      BY <2>2, FractionTypes DEF UnitTypes
    <3> QED BY <3>1
  <2>4. /\ Y[e] = IF e < epochCounter THEN (T[e] * b) \div 100 ELSE 0
        /\ U[e] = IF e \in Settled THEN (T[e] * u) \div 100 ELSE 0
        /\ S[e] = IF e \in Settled THEN (T[e] * s) \div 100 ELSE 0
    BY <2>1 DEF Yields, BondOf, TopUpParts, TopUpPart, StakingParts, StakingOf
  <2>5. e \in Settled <=> e < epochCounter
    BY <1>1, EpochTypes DEF Settled
  <2> DEFINE p == (T[e] * b) \div 100
             q == (T[e] * u) \div 100
             r == (T[e] * s) \div 100
             t == T[e]
             y == Y[e]
             v == U[e]
             w == S[e]
  <2>6. p \in Nat /\ q \in Nat /\ r \in Nat /\ p + q + r <= t
    <3> HIDE DEF b, u, s, t
    <3> QED BY <2>2, <2>3, ThreeParts DEF t
  <2>7. \/ y = p /\ v = q /\ w = r
        \/ y = 0 /\ v = 0 /\ w = 0
    BY <2>4, <2>5
  <2>8. t \in Nat
    BY <2>2
  <2> HIDE DEF p, q, r, t, y, v, w
  <2>9. y \in Nat /\ v \in Nat /\ w \in Nat /\ y + v + w <= t
    BY <2>6, <2>7, <2>8
  <2> QED BY <2>8, <2>9 DEF y, v, w, t
<1>4. /\ Y \in [1..MaxEpochs -> Int] /\ U \in [1..MaxEpochs -> Int] /\ S \in [1..MaxEpochs -> Int]
      /\ T \in [1..MaxEpochs -> Int]
  <2>1. /\ Y = [e \in 1..MaxEpochs |-> Y[e]] /\ U = [e \in 1..MaxEpochs |-> U[e]]
        /\ S = [e \in 1..MaxEpochs |-> S[e]] /\ T = [e \in 1..MaxEpochs |-> T[e]]
    BY <1>1, <1>2 DEF Yields, TopUpParts, StakingParts, BondTypes
  <2> HIDE DEF Y, U, S, T
  <2> QED BY <1>3, <2>1
<1> HIDE DEF Y, U, S, T
<1>5. /\ YU \in [1..MaxEpochs -> Int] /\ \A e \in 1..MaxEpochs : YU[e] = Y[e] + U[e]
  BY <1>3
<1> HIDE DEF YU
<1>6. /\ A \in [1..MaxEpochs -> Int] /\ \A e \in 1..MaxEpochs : A[e] = YU[e] + S[e]
      /\ \A e \in 1..MaxEpochs : A[e] <= T[e]
  BY <1>3, <1>5
<1> HIDE DEF A
<1>7. Total(YU, MaxEpochs) = Total(Y, MaxEpochs) + Total(U, MaxEpochs)
  BY ONLY <1>2, <1>4, <1>5, TotalSum
<1>8. Total(A, MaxEpochs) = Total(YU, MaxEpochs) + Total(S, MaxEpochs)
  BY ONLY <1>2, <1>4, <1>5, <1>6, TotalSum
<1>9. Total(A, MaxEpochs) <= Total(T, MaxEpochs)
  BY ONLY <1>2, <1>4, <1>6, TotalMonotone
<1> DEFINE ty == Total(Y, MaxEpochs)
           tu == Total(U, MaxEpochs)
           ts == Total(S, MaxEpochs)
           tt == Total(T, MaxEpochs)
<1>10. ty + tu + ts <= tt /\ tu \in Int /\ ts \in Int /\ tt \in Int /\ ty \in Int
  BY <1>2, <1>4, <1>7, <1>8, <1>9, TotalType
<1>11. ty \in Nat
  <2>1. Y \in [1..MaxEpochs -> Nat]
    BY <1>3, <1>4
  <2> QED BY <1>2, <2>1, TotalNonNegative
<1>12. toppedUp <= tu /\ toppedUp \in Nat
  <2>1. FinalTopUps \in [1..NumUnits -> Nat] /\ NumUnits \in Nat
    BY <1>1, FinalTopUpType, UnitConstants
  <2>2. Total(FinalTopUps, NumUnits) \in Nat
    BY <2>1, TotalNonNegative
  <2>3. toppedUp + Total(FinalTopUps, NumUnits) <= tu /\ toppedUp \in Nat
    BY DEF UnitInv, UnitTyped, TopUpBudget, U
  <2> HIDE DEF tu
  <2> QED BY <1>10, <2>2, <2>3
<1>13. distributed <= ts /\ distributed \in Nat
  <2>1. distributed + forfeited + stakingIncentive[epochCounter] <= ts
    <3>1. TotalOver(LAMBDA e : IF e \in Settled THEN StakingOf(e) ELSE 0, MaxEpochs) = ts
      BY DEF TotalOver, StakingParts, Epochs, S
    <3>2. distributed + forfeited + stakingIncentive[epochCounter] <= ts + 0
      BY <3>1, StakingHolds DEF StakingCovered
    <3> HIDE DEF ts
    <3> QED BY <1>10, <3>2
  <2>2. epochCounter \in 1..(MaxEpochs + 1)
    BY <1>1, EpochTypes
  <2>3. distributed \in Nat /\ forfeited \in Nat /\ stakingIncentive[epochCounter] \in Nat
    BY <1>1, <2>2 DEF StakingTyped
  <2> HIDE DEF ts
  <2> QED BY <1>10, <2>1, <2>3
<1>14. ty + toppedUp + distributed <= tt
  <2> HIDE DEF ty, tu, ts, tt
  <2> QED BY <1>10, <1>11, <1>12, <1>13
<1> QED BY <1>11, <1>14 DEF ty, tt, Y, T

\* As long as no epoch has been credited with the inflation of a year whose cap is not in force,
\* the first epoch was to end in the first year and the weights of no settled epoch exceed 100%,
\* everything on sale fits under the cap, whatever was minted for the other programmes.
LEMMA BondsFit ==
  ASSUME BondInv, UnitInv, ScheduleInv, StakingInv, SupplyInv, Room,
         NEW amount \in Nat, amount <= OnSale
  PROVE  Minted(amount) = amount
<1> DEFINE end == LastEnd + epochLen
           z == YearOf(end)
           inflation == InflationBetween(LastEnd, end, inflationPerSecond, currentYear)
           n == YearOf(now)
           T == Total(totalTopUpsOLAS, MaxEpochs)
           Y == Total(Yields, MaxEpochs)
           P == InflationUntilYear(z + 1)
           C == InflationUntilYear(CapYears)
           L == InflationUntilYear(IF n < CapYears THEN CapYears ELSE n + 1)
<1>1. /\ BondTypes /\ BondBudget /\ MaxBondIsYield
      /\ FirstInYear /\ Overallocated = 0 /\ YearOf(LastEnd + epochLen) < CapYears
  BY DEF BondInv, Room
<1>2. /\ n \in Nat /\ n <= MaxTime \div Year /\ MaxTime \div Year \in Nat /\ CapYears \in Nat \ {0}
      /\ T \in Nat
  BY YearBound, LastEndFacts
<1>3. inflation \in Nat /\ z \in Nat /\ z < CapYears /\ T + inflation <= P
  BY <1>1, PlannedWithin
<1>4. P \in Int /\ C \in Int /\ L \in Int /\ P <= C /\ C <= L
  <2>1. z + 1 \in Nat /\ z + 1 <= CapYears /\ CapYears <= MaxTime \div Year + CapYears + 2
    BY <1>2, <1>3
  <2>2. P \in Int /\ C \in Int /\ P <= C
    BY <1>2, <2>1, ScheduleGrows
  <2> DEFINE m == IF n < CapYears THEN CapYears ELSE n + 1
  <2>3. m \in Nat /\ CapYears <= m /\ m <= MaxTime \div Year + CapYears + 2
    BY <1>2
  <2> HIDE DEF m
  <2>4. InflationUntilYear(m) \in Int /\ C <= InflationUntilYear(m)
    BY <1>2, <2>3, ScheduleGrows
  <2> QED BY <2>2, <2>4 DEF m
<1>5. maxBond \in Nat /\ maxBond <= inflation
  <2>1. maxBond = (inflation * fractions[epochCounter].bond) \div 100 /\ maxBond \in Nat
    BY <1>1 DEF MaxBondIsYield, BondOf, BondTypes
  <2>2. fractions[epochCounter] \in {FirstFractions} \cup NewFractions
    <3>1. epochCounter \in 1..(MaxEpochs + 1)
      BY <1>1, EpochTypes
    <3> QED BY <1>1, <3>1 DEF BondTypes
  <2> DEFINE b == fractions[epochCounter].bond
  <2>3. b \in Nat /\ b <= 100
    <3> DEFINE f == fractions[epochCounter]
    <3> HIDE DEF f
    <3>1. /\ f.bond \in Nat /\ f.staking \in Nat
          /\ f.topUp["component"] \in Nat /\ f.topUp["agent"] \in Nat
          /\ f.bond + f.topUp["component"] + f.topUp["agent"] + f.staking <= 100
      BY <2>2, FractionTypes DEF UnitTypes, f
    <3>2. f.bond <= 100
      BY <3>1
    <3> QED BY <3>1, <3>2 DEF f
  <2>4. b + 0 + 0 <= 100 /\ 0 \in Nat
    BY <2>3
  <2> HIDE DEF inflation, b
  <2>5. (inflation * b) \div 100 <= inflation
    <3>1. /\ (inflation * b) \div 100 \in Nat /\ (inflation * 0) \div 100 \in Nat
          /\ (inflation * b) \div 100 + (inflation * 0) \div 100 + (inflation * 0) \div 100 <= inflation
      BY <1>3, <2>3, <2>4, ThreeParts
    <3> DEFINE k == (inflation * b) \div 100
               l == (inflation * 0) \div 100
    <3> HIDE DEF k, l
    <3> QED BY <1>3, <3>1 DEF k, l
  <2> QED BY <2>1, <2>5 DEF b
<1>6. Y \in Nat /\ Y + toppedUp + distributed <= T
  BY <1>1, PartsOfInflation
<1>7. effectiveBond + OnSale + Outstanding + redeemed = maxBond + Y
  <2>1. effectiveBond + OnSale + Outstanding + redeemed = maxBond + Y + 0
    BY <1>1 DEF BondBudget, Yields
  <2>2. maxBond + Y \in Nat
    BY <1>5, <1>6
  <2> HIDE DEF Y
  <2> QED BY <2>1, <2>2
<1>8. /\ effectiveBond \in Nat /\ OnSale \in Nat /\ Outstanding \in Nat /\ redeemed \in Nat
      /\ toppedUp \in Nat /\ distributed \in Nat
  BY <1>1, SumsExcept DEF BondTypes, UnitInv, UnitTyped, StakingInv, StakingTyped
<1>9. /\ depositoryOLAS \in Nat /\ depositoryOLAS <= Outstanding
      /\ totalSupply = InitialSupply + depositoryOLAS + redeemed + toppedUp + distributed
      /\ InitialSupply \in Nat
  BY ScheduleAssumption DEF SupplyInv
<1>10. SupplyCap(now) = InitialSupply + L
  BY DEF SupplyCap
<1>11. amount <= SupplyCap(now) - totalSupply
  <2> HIDE DEF inflation, T, Y, P, C, L, z, n, end
  <2>1. depositoryOLAS + redeemed + amount <= maxBond + Y
    BY <1>5, <1>6, <1>7, <1>8, <1>9
  <2>2. maxBond + Y + toppedUp + distributed <= L
    BY <1>2, <1>3, <1>4, <1>5, <1>6, <1>8
  <2>3. totalSupply + amount <= InitialSupply + L
    BY <1>4, <1>5, <1>6, <1>8, <1>9, <2>1, <2>2
  <2>4. totalSupply \in Int
    BY <1>8, <1>9
  <2> QED BY <1>4, <1>9, <1>10, <2>3, <2>4
<1> QED BY <1>11 DEF Minted, inflationControl

-----------------------------------------------------------------------------
(* The supply: every step                                                    *)

\* The amounts that make up the supply.
LEMMA SupplyTypes ==
  ASSUME BondInv, UnitInv, StakingInv
  PROVE  /\ redeemed \in Nat /\ toppedUp \in Nat /\ distributed \in Nat /\ Outstanding \in Nat
         /\ InitialSupply \in Nat
BY SumsExcept, ScheduleAssumption
   DEF BondInv, BondTypes, UnitInv, UnitTyped, StakingInv, StakingTyped

\* The premises of BondsBacked, where they hold, held before.
LEMMA RoomSame ==
  ASSUME BondTypes, UNCHANGED <<epochCounter, endTime, epochLen, votes>>,
         \A e \in Epochs : e # epochCounter => stakingIncentive'[e] = stakingIncentive[e]
  PROVE  Room' = Room
<1>1. Overs' = Overs
  BY SameOvers
<1>2. /\ Overallocated = Total(Overs, MaxEpochs) \div Scale
      /\ Overallocated' = Total(Overs', MaxEpochs) \div Scale
  BY DEF Overallocated, TotalOver, Overs, Epochs, Total, RunningTotal
<1>3. Overallocated' = Overallocated
  BY <1>1, <1>2
<1>4. YearOf(LastEnd + epochLen)' = YearOf(LastEnd + epochLen) /\ FirstInYear' = FirstInYear
  BY DEF LastEnd, YearOf, FirstInYear
<1> QED BY <1>3, <1>4 DEF Room

\* The votes of a settlement take nothing from what the earlier ones allocate beyond 100%.
LEMMA OversGrow ==
  ASSUME BondTypes, BondTypes', StakingTyped, StakingTyped', epochCounter < MaxEpochs,
         SettleEpoch, CountVotes
  PROVE  Overallocated' = 0 => Overallocated = 0
<1> PICK e : e = epochCounter
  OBVIOUS
<1>1. /\ e \in Nat /\ e > 0 /\ Epochs = 1..MaxEpochs /\ MaxEpochs \in Nat
      /\ e \in Epochs /\ Scale \in Nat \ {0}
  BY EpochTypes, UnitConstants, NomineeConstants, DispenserAssumption
<1>2. /\ epochCounter' = e + 1
      /\ \A k \in Epochs : k # e => votes'[k] = votes[k] /\ stakingIncentive'[k] = stakingIncentive[k]
  BY EpochSettled
<1> DEFINE O0 == Overs
           O1 == Overs'
<1>3. /\ O0 \in [1..MaxEpochs -> Nat] /\ O1 \in [1..MaxEpochs -> Nat]
  BY OversTypes, OversTypesNext
<1>4. ASSUME NEW k \in 1..MaxEpochs
      PROVE  O0[k] <= O1[k]
  <2>1. CASE k = e
    <3>1. e \notin Settled
      BY <1>1 DEF Settled
    <3>2. O0[k] = 0
      BY <1>1, <2>1, <3>1 DEF Overs
    <3> HIDE DEF O0, O1
    <3> QED BY <1>3, <3>2
  <2>2. CASE k # e
    <3>1. k \in Settled <=> k \in Settled'
      BY <1>1, <1>2, <2>2 DEF Settled
    <3>2. Excess(k)' = Excess(k) /\ stakingIncentive'[k] = stakingIncentive[k]
      BY <1>1, <1>2, <2>2 DEF Excess
    <3>3. O1[k] = IF k \in Settled' THEN stakingIncentive'[k] * Excess(k)' ELSE 0
      BY <1>1 DEF Overs
    <3>4. O0[k] = IF k \in Settled THEN stakingIncentive[k] * Excess(k) ELSE 0
      BY <1>1 DEF Overs
    <3>5. O0[k] = O1[k]
      BY <3>1, <3>2, <3>3, <3>4
    <3> HIDE DEF O0, O1
    <3> QED BY <1>3, <3>5
  <2> QED BY <2>1, <2>2
<1> DEFINE a == Total(O0, MaxEpochs)
           b == Total(O1, MaxEpochs)
<1>5. a \in Nat /\ b \in Nat /\ a <= b
  <2> HIDE DEF O0, O1
  <2>1. a \in Nat /\ b \in Nat
    BY <1>1, <1>3, TotalNonNegative
  <2>2. O0 \in [1..MaxEpochs -> Int] /\ O1 \in [1..MaxEpochs -> Int]
    BY <1>3
  <2>3. a <= b
    BY ONLY <1>1, <1>4, <2>2, TotalMonotone
  <2> QED BY <2>1, <2>3
<1>6. /\ Overallocated = a \div Scale /\ Overallocated' = b \div Scale
  BY DEF Overallocated, TotalOver, Overs, Epochs, Total, RunningTotal
<1>7. a \div Scale <= 0 + b \div Scale /\ a \div Scale \in Nat
  <2> HIDE DEF a, b
  <2> DEFINE q == a \div Scale
  <2>1. q \in Nat /\ Scale * q <= a
    BY <1>1, <1>5
  <2>2. Scale * q \in Nat /\ Scale * 0 = 0
    BY <1>1, <2>1
  <2>3. Scale * q <= Scale * 0 + b
    BY <1>5, <2>1, <2>2
  <2> HIDE DEF q
  <2>4. q <= 0 + b \div Scale
    BY <1>1, <1>5, <2>1, <2>3, QuotientOver
  <2> QED BY <2>1, <2>4 DEF q
<1> QED BY <1>6, <1>7

LEMMA SupplyInitially == Init => SupplyInv
<1> SUFFICES ASSUME Init
             PROVE  SupplyInv
  OBVIOUS
<1>1. /\ totalSupply = InitialSupply /\ depositoryOLAS = 0 /\ redeemed = 0 /\ toppedUp = 0
      /\ distributed = 0 /\ payout = [b \in Bonds |-> 0]
  BY DEF Init, BondingInit, IncentivesInit, DispenserInit
<1>2. Outstanding = 0
  <2>1. payout \in [1..MaxBonds -> Int] /\ \A i \in 1..MaxBonds : payout[i] = 0
    BY <1>1 DEF Bonds
  <2> QED BY <2>1, EpochConstants, TotalZero DEF Outstanding
<1> QED BY <1>1, <1>2, ScheduleAssumption DEF SupplyInv, BondsBacked

\* Steps that mint nothing and pay no bond keep the invariant, as the premises held before.
LEMMA SupplyQuiet ==
  ASSUME SupplyInv,
         UNCHANGED <<totalSupply, depositoryOLAS, redeemed, toppedUp, distributed, payout>>,
         Room' => Room
  PROVE  SupplyInv'
<1>1. Outstanding' = Outstanding
  BY DEF Outstanding
<1>2. /\ depositoryOLAS \in Nat /\ totalSupply \in Nat
      /\ totalSupply = InitialSupply + depositoryOLAS + redeemed + toppedUp + distributed
      /\ depositoryOLAS <= Outstanding /\ BondsBacked
  BY DEF SupplyInv
<1>3. BondsBacked'
  BY <1>1, <1>2 DEF BondsBacked, Room
<1> QED BY <1>1, <1>2, <1>3 DEF SupplyInv

\* Mints for the other programmes, too.
LEMMA SupplyMinted ==
  ASSUME BondInv, UnitInv, StakingInv, SupplyInv, NEW t \in Nat, NEW d \in Nat,
         totalSupply' = totalSupply + t + d, toppedUp' = toppedUp + t,
         distributed' = distributed + d,
         UNCHANGED <<depositoryOLAS, redeemed, payout>>, Room' = Room
  PROVE  SupplyInv'
<1>1. Outstanding' = Outstanding
  BY DEF Outstanding
<1>2. /\ depositoryOLAS \in Nat /\ totalSupply \in Nat
      /\ totalSupply = InitialSupply + depositoryOLAS + redeemed + toppedUp + distributed
      /\ depositoryOLAS <= Outstanding /\ BondsBacked
  BY DEF SupplyInv
<1>3. BondsBacked'
  BY <1>1, <1>2 DEF BondsBacked, Room
<1>4. totalSupply' = InitialSupply + depositoryOLAS' + redeemed' + toppedUp' + distributed'
      /\ totalSupply' \in Nat
  BY <1>2, SupplyTypes
<1> QED BY <1>1, <1>2, <1>3, <1>4 DEF SupplyInv

\* The epoch that a settlement begins ends no earlier than the settled one could.
LEMMA SupplySettles ==
  ASSUME BondInv, BondInv', StakingInv, StakingInv', SupplyInv, epochCounter < MaxEpochs,
         SettleEpoch, CountVotes,
         UNCHANGED <<totalSupply, depositoryOLAS, redeemed, toppedUp, distributed, payout, now>>
  PROVE  SupplyInv'
<1> PICK e : e = epochCounter
  OBVIOUS
<1>1. LastEnd \in Nat /\ now \in Nat /\ epochLen \in Nat /\ epochLen' \in Nat /\ CapYears \in Nat
  <2>1. LastEnd \in Nat /\ now \in Nat /\ CapYears \in Nat
    BY LastEndFacts, YearBound
  <2>2. epochLen \in MinEpochLen..MaxEpochLen
    BY DEF BondInv, BondTypes
  <2>3. epochLen' \in MinEpochLen..MaxEpochLen
    BY DEF BondInv, BondTypes
  <2> QED BY <2>1, <2>2, <2>3, EpochConstants
<1>2. now - LastEnd \in epochLen..MaxEpochLen
  BY DEF SettleEpoch, SettleTime
<1>3. LastEnd' = now
  <2>1. endTime \in [0..MaxEpochs -> Nat] /\ epochCounter \in 1..MaxEpochs /\ MaxEpochs \in Nat
    BY EpochConstants DEF BondInv, BondTypes
  <2>2. endTime' = [endTime EXCEPT ![e] = now] /\ epochCounter' = e + 1
    BY DEF SettleEpoch
  <2>3. LastEnd' = endTime'[(e + 1) - 1]
    BY <2>2 DEF LastEnd
  <2>4. (e + 1) - 1 = e /\ e \in 0..MaxEpochs
    BY <2>1
  <2> QED BY <2>1, <2>2, <2>3, <2>4
<1>4. LastEnd + epochLen \in Nat /\ now + epochLen' \in Nat /\ LastEnd + epochLen <= now + epochLen'
  <2> DEFINE a == LastEnd
             l == epochLen
             k == epochLen'
  <2>1. a \in Nat /\ l \in Nat /\ k \in Nat /\ now \in Nat /\ l <= now - a
    BY <1>1, <1>2, EpochConstants
  <2> HIDE DEF a, l, k
  <2>2. a + l \in Nat /\ now + k \in Nat /\ a + l <= now + k
    BY <2>1
  <2> QED BY <2>2 DEF a, l, k
<1>5. /\ YearOf(LastEnd + epochLen) <= YearOf(now + epochLen')
      /\ YearOf(LastEnd + epochLen) \in Nat /\ YearOf(now + epochLen') \in Nat
  BY <1>4, YearMono, YearFacts
<1>6. YearOf(LastEnd + epochLen)' = YearOf(now + epochLen')
  BY <1>3 DEF YearOf
<1>7. YearOf(LastEnd + epochLen)' < CapYears => YearOf(LastEnd + epochLen) < CapYears
  BY <1>1, <1>5, <1>6
<1>8. FirstInYear' => FirstInYear
  <2>1. endTime' = [endTime EXCEPT ![e] = now] /\ e # 0 /\ endTime \in [0..MaxEpochs -> Nat]
    <3>1. endTime' = [endTime EXCEPT ![e] = now]
      BY DEF SettleEpoch
    <3>2. endTime \in [0..MaxEpochs -> Nat] /\ epochCounter \in 1..MaxEpochs
      BY DEF BondInv, BondTypes
    <3> QED BY <3>1, <3>2, EpochConstants
  <2>2. endTime'[0] = endTime[0]
    BY <2>1
  <2> QED BY <2>2 DEF FirstInYear
<1>9. Overallocated' = 0 => Overallocated = 0
  BY OversGrow DEF BondInv, StakingInv
<1>10. Room' => Room
  BY <1>7, <1>8, <1>9 DEF Room
<1> QED BY <1>10, SupplyQuiet

\* A deposit mints what it owes while the cap is known to cover it, and no more than that ever.
LEMMA SupplyDeposits ==
  ASSUME BondInv, UnitInv, ScheduleInv, StakingInv, SupplyInv,
         UNCHANGED <<toppedUp, distributed, votes>>,
         NEW q \in Products, NEW amount \in Payouts, deposit(q, amount)
  PROVE  SupplyInv'
<1>1. BondTypes /\ Unused
  BY DEF BondInv
<1>2. amount \in Nat /\ supply[q] \in Nat /\ amount <= supply[q]
  BY <1>1, BondingAssumption DEF BondTypes, deposit
<1>3. bondCounter \in Nat /\ bondCounter + 1 \in Bonds /\ payout[bondCounter + 1] = 0
  BY <1>1, EpochConstants DEF BondTypes, Unused, Bonds, deposit
<1>4. /\ payout' = [payout EXCEPT ![bondCounter + 1] = amount]
      /\ totalSupply' = totalSupply + Minted(amount)
      /\ depositoryOLAS' = depositoryOLAS + Minted(amount)
      /\ UNCHANGED <<redeemed, epochCounter, endTime, epochLen, stakingIncentive>>
  BY DEF deposit, inflationRest, settleVars, paramVars
<1>5. Outstanding' = Outstanding + amount
  <2>1. Outstanding' = Total(payout', MaxBonds)
    BY DEF Outstanding, Total, RunningTotal
  <2>2. Total([payout EXCEPT ![bondCounter + 1] = amount], MaxBonds) = Outstanding - 0 + amount
        /\ Outstanding \in Nat
    BY <1>1, <1>2, <1>3, SumsExcept
  <2> QED BY <1>2, <1>4, <2>1, <2>2
<1>6. /\ depositoryOLAS \in Nat /\ totalSupply \in Nat /\ Outstanding \in Nat
      /\ totalSupply = InitialSupply + depositoryOLAS + redeemed + toppedUp + distributed
      /\ depositoryOLAS <= Outstanding /\ BondsBacked
  BY SupplyTypes DEF SupplyInv
<1> DEFINE m == Minted(amount)
<1>7. m \in Nat /\ m <= amount
  BY <1>2 DEF Minted
<1>8. amount <= OnSale
  <2>1. supply \in [1..MaxProducts -> Nat] /\ MaxProducts \in Nat /\ q \in 1..MaxProducts
    BY <1>1, EpochConstants DEF BondTypes, Products
  <2>2. supply[q] <= OnSale /\ OnSale \in Nat
    BY <2>1, TotalNonNegative DEF OnSale
  <2> QED BY <1>2, <2>2
<1>9. Room => m = amount
  BY <1>2, <1>8, BondsFit
<1> HIDE DEF m
<1>10. BondsBacked'
  <2>1. Room' = Room
    BY <1>1, <1>4, RoomSame
  <2>2. depositoryOLAS' = depositoryOLAS + m
    BY <1>4 DEF m
  <2>3. Room => depositoryOLAS' >= Outstanding'
    BY <1>2, <1>5, <1>6, <1>9, <2>2 DEF BondsBacked, Room
  <2> QED BY <2>1, <2>3 DEF BondsBacked, Room
<1>11. totalSupply' = InitialSupply + depositoryOLAS' + redeemed' + toppedUp' + distributed'
       /\ totalSupply' \in Nat /\ depositoryOLAS' \in Nat /\ depositoryOLAS' <= Outstanding'
  <2>1. totalSupply' = totalSupply + m /\ depositoryOLAS' = depositoryOLAS + m
    BY <1>4 DEF m
  <2> QED BY <1>2, <1>4, <1>5, <1>6, <1>7, <2>1, SupplyTypes
<1> QED BY <1>10, <1>11 DEF SupplyInv

\* A redemption takes from the balance what it takes from the bonds.
LEMMA SupplyRedeems ==
  ASSUME BondInv, UnitInv, StakingInv, SupplyInv, UNCHANGED <<toppedUp, distributed, votes>>,
         NEW S \in SUBSET Bonds, redeem(S)
  PROVE  SupplyInv'
<1> DEFINE taken == [b \in 1..MaxBonds |-> IF b \in S THEN payout[b] ELSE 0]
           kept == [b \in 1..MaxBonds |-> IF b \in S THEN 0 ELSE payout[b]]
           amount == Total(taken, MaxBonds)
<1>1. payout \in [1..MaxBonds -> Nat] /\ MaxBonds \in Nat
  BY EpochConstants DEF BondInv, BondTypes, Bonds
<1>2. /\ amount <= depositoryOLAS /\ payout' = kept /\ redeemed' = redeemed + amount
      /\ depositoryOLAS' = depositoryOLAS - amount
      /\ UNCHANGED <<totalSupply, inflationVars>>
  <2>1. TotalOver(LAMBDA b : IF b \in S THEN payout[b] ELSE 0, MaxBonds) = amount
    BY DEF TotalOver
  <2> HIDE DEF amount
  <2> QED BY <2>1 DEF redeem, Bonds
<1>3. amount \in Nat /\ Outstanding = Total(kept, MaxBonds) + amount /\ Total(kept, MaxBonds) \in Nat
  <2>1. taken \in [1..MaxBonds -> Nat] /\ kept \in [1..MaxBonds -> Nat]
    BY <1>1
  <2>2. \A i \in 1..MaxBonds : payout[i] = kept[i] + taken[i]
    BY <1>1
  <2>3. amount \in Nat /\ Total(kept, MaxBonds) \in Nat
    BY <1>1, <2>1, TotalNonNegative
  <2>4. /\ taken \in [1..MaxBonds -> Int] /\ kept \in [1..MaxBonds -> Int]
        /\ payout \in [1..MaxBonds -> Int]
    BY <1>1, <2>1
  <2>5. Total(payout, MaxBonds) = Total(kept, MaxBonds) + Total(taken, MaxBonds)
    <3> HIDE DEF taken, kept
    <3> QED BY ONLY <1>1, <2>2, <2>4, TotalSum
  <2> QED BY <2>3, <2>5 DEF Outstanding
<1>4. Outstanding' = Total(kept, MaxBonds)
  <2>1. Outstanding' = Total(payout', MaxBonds)
    BY DEF Outstanding, Total, RunningTotal
  <2> HIDE DEF kept
  <2> QED BY <1>2, <2>1
<1>5. /\ depositoryOLAS \in Nat /\ totalSupply \in Nat
      /\ totalSupply = InitialSupply + depositoryOLAS + redeemed + toppedUp + distributed
      /\ depositoryOLAS <= Outstanding /\ BondsBacked
  BY DEF SupplyInv
<1> DEFINE k == Total(kept, MaxBonds)
<1> HIDE DEF amount, kept, k
<1>6. UNCHANGED <<epochCounter, endTime, epochLen, stakingIncentive>>
  BY <1>2 DEF inflationVars, settleVars, paramVars
<1>7. BondsBacked'
  <2>1. Room' = Room
    <3>1. BondTypes
      BY DEF BondInv
    <3> QED BY <1>6, <3>1, RoomSame
  <2>2. Room => depositoryOLAS' >= Outstanding'
    BY <1>2, <1>3, <1>4, <1>5 DEF BondsBacked, Room, k
  <2> QED BY <2>1, <2>2 DEF BondsBacked, Room
<1>8. /\ totalSupply' = InitialSupply + depositoryOLAS' + redeemed' + toppedUp' + distributed'
      /\ totalSupply' \in Nat /\ depositoryOLAS' \in Nat /\ depositoryOLAS' <= Outstanding'
  BY <1>2, <1>3, <1>4, <1>5, SupplyTypes DEF k
<1> QED BY <1>7, <1>8 DEF SupplyInv

\* Every step keeps the invariant of the supply.
LEMMA SupplyNext ==
  ASSUME BondInv, BondInv', UnitInv, ScheduleInv, StakingInv, StakingInv', SupplyInv, [Next]_vars
  PROVE  SupplyInv'
<1>1. BondTypes /\ StakingTyped
  BY DEF BondInv, StakingInv
<1>2. CASE Tick \/ OwnerCall \/ UNCHANGED vars
  <2>1. /\ UNCHANGED <<totalSupply, depositoryOLAS, redeemed, toppedUp, distributed, payout>>
        /\ UNCHANGED <<epochCounter, endTime, epochLen, votes, stakingIncentive>>
    <3>1. CASE Tick
      BY <3>1 DEF Tick, inflationVars, settleVars, paramVars, bondingVars, dispenserVars,
                  incentiveVars
    <3>2. CASE OwnerCall
      BY <3>2 DEF OwnerCall, changeTokenomicsParameters, changeIncentiveFractions,
                  changeStakingParams, settleVars, bondingVars, dispenserVars, incentiveVars
    <3>3. CASE UNCHANGED vars
      BY <3>3 DEF vars, inflationVars, settleVars, paramVars, bondingVars, dispenserVars,
                  incentiveVars
    <3> QED BY <1>2, <3>1, <3>2, <3>3
  <2>2. Room' = Room
    BY <1>1, <2>1, RoomSame
  <2> QED BY <2>1, <2>2, SupplyQuiet
<1>3. CASE Checkpoint
  <2>1. /\ epochCounter < MaxEpochs /\ SettleEpoch /\ CountVotes
        /\ UNCHANGED <<totalSupply, depositoryOLAS, redeemed, toppedUp, distributed, payout, now>>
    BY <1>3 DEF Checkpoint, rebalanceTreasury, bondingVars
  <2> QED BY <2>1, SupplySettles
<1>4. CASE BondCall
  <2>1. UNCHANGED <<toppedUp, distributed, votes>>
    BY <1>4 DEF BondCall, dispenserVars, incentiveVars
  <2>2. CASE \/ \E s \in Supplies : create(s)
             \/ \E p \in Products : close(p)
    <3>1. /\ UNCHANGED <<totalSupply, depositoryOLAS, redeemed, payout>>
          /\ UNCHANGED <<epochCounter, endTime, epochLen, stakingIncentive>>
      BY <2>2 DEF create, close, inflationRest, settleVars, paramVars
    <3>2. Room' = Room
      BY <1>1, <2>1, <3>1, RoomSame
    <3> QED BY <2>1, <3>1, <3>2, SupplyQuiet
  <2>3. CASE \E p \in Products, amount \in Payouts : deposit(p, amount)
    BY <2>1, <2>3, SupplyDeposits
  <2>4. CASE \E S \in SUBSET Bonds : redeem(S)
    BY <2>1, <2>4, SupplyRedeems
  <2> QED BY <1>4, <2>2, <2>3, <2>4 DEF BondCall
<1>5. CASE UnitCall
  <2>1. UNCHANGED <<depositoryOLAS, redeemed, payout, distributed, epochCounter, endTime, epochLen,
                    votes, stakingIncentive>>
    BY <1>5 DEF UnitCall, donate, claimOwnerIncentives, bondingVars, dispenserVars, inflationVars,
                settleVars, paramVars
  <2>2. \E t \in Nat : totalSupply' = totalSupply + t /\ toppedUp' = toppedUp + t
    <3>1. CASE \E s \in Services, amount \in Donations, eligible \in BOOLEAN :
                 donate(s, amount, eligible)
      <4>1. UNCHANGED <<totalSupply, toppedUp>>
        BY <3>1 DEF donate
      <4>2. totalSupply \in Nat /\ toppedUp \in Nat
        BY DEF SupplyInv, UnitInv, UnitTyped
      <4>3. 0 \in Nat /\ totalSupply' = totalSupply + 0 /\ toppedUp' = toppedUp + 0
        BY <4>1, <4>2
      <4> QED BY <4>3
    <3>2. ASSUME NEW S \in SUBSET Units, claimOwnerIncentives(S)
          PROVE  \E t \in Nat : totalSupply' = totalSupply + t /\ toppedUp' = toppedUp + t
      <4> DEFINE f == [u \in 1..NumUnits |-> IF u \in S THEN FinalTopUp(u) ELSE 0]
                 t == Total(f, NumUnits)
      <4>1. totalSupply' = totalSupply + t /\ toppedUp' = toppedUp + t
        <5>1. TotalOver(LAMBDA u : IF u \in S THEN FinalTopUp(u) ELSE 0, NumUnits) = t
          BY DEF TotalOver
        <5> HIDE DEF t
        <5> QED BY <3>2, <5>1 DEF claimOwnerIncentives
      <4>2. f \in [1..NumUnits -> Nat]
        BY <1>1, FinalTopUpType, UnitConstants
      <4>3. t \in Nat
        BY <4>2, UnitConstants, TotalNonNegative
      <4> HIDE DEF t
      <4> QED BY <4>1, <4>3
    <3> QED BY <1>5, <3>1, <3>2 DEF UnitCall
  <2>3. PICK t \in Nat : totalSupply' = totalSupply + t /\ toppedUp' = toppedUp + t
    BY <2>2
  <2>4. totalSupply' = totalSupply + t + 0 /\ distributed' = distributed + 0 /\ 0 \in Nat
    <3>1. totalSupply \in Nat /\ distributed \in Nat
      BY SupplyTypes DEF SupplyInv
    <3> QED BY <2>1, <2>3, <3>1
  <2>5. Room' = Room
    BY <1>1, <2>1, RoomSame
  <2> QED BY <2>1, <2>3, <2>4, <2>5, SupplyMinted
<1>6. CASE StakingCall
  <2>1. UNCHANGED <<depositoryOLAS, redeemed, payout, toppedUp, epochCounter, endTime, epochLen,
                    votes>>
    BY <1>6 DEF StakingCall, addNominee, removeNominee, checkpointNominee, claimStakingIncentives,
                retain, bondingVars, incentiveVars, inflationVars, settleVars, paramVars
  <2>2. \E d \in Nat : totalSupply' = totalSupply + d /\ distributed' = distributed + d
    <3>1. CASE \/ \E n \in Nominees : addNominee(n) \/ removeNominee(n) \/ checkpointNominee(n)
               \/ retain
      <4>1. UNCHANGED <<totalSupply, distributed>>
        BY <3>1 DEF addNominee, removeNominee, checkpointNominee, retain
      <4>2. totalSupply \in Nat /\ distributed \in Nat
        BY SupplyTypes DEF SupplyInv
      <4>3. 0 \in Nat /\ totalSupply' = totalSupply + 0 /\ distributed' = distributed + 0
        BY <4>1, <4>2
      <4> QED BY <4>3
    <3>2. ASSUME NEW n \in Nominees, NEW num \in 1..MaxNumClaimingEpochs,
                 claimStakingIncentives(n, num)
          PROVE  \E d \in Nat : totalSupply' = totalSupply + d /\ distributed' = distributed + d
      <4> DEFINE first == mapLastClaimed[n]
                 last == LastClaimed(n, num)
                 paid == SumOverEpochs([e \in Epochs |-> EpochIncentive(n, e).paid], first, last)
      <4>1. CanClaim(n) /\ totalSupply' = totalSupply + paid /\ distributed' = distributed + paid
        BY <3>2 DEF claimStakingIncentives
      <4>2. num \in Nat \ {0}
        BY NomineeConstants
      <4>3. first \in Int /\ last \in Int
        BY <1>1, <4>1, <4>2, LastClaimedFacts
      <4>4. paid \in Nat
        <5> HIDE DEF first, last
        <5> QED BY <1>1, <4>3, PaidWithin
      <4> HIDE DEF paid
      <4> QED BY <4>1, <4>4
    <3> QED BY <1>6, <3>1, <3>2 DEF StakingCall
  <2>3. PICK d \in Nat : totalSupply' = totalSupply + d /\ distributed' = distributed + d
    BY <2>2
  <2>4. totalSupply' = totalSupply + 0 + d /\ toppedUp' = toppedUp + 0 /\ 0 \in Nat
    <3>1. totalSupply \in Nat /\ toppedUp \in Nat
      BY SupplyTypes DEF SupplyInv
    <3> QED BY <2>1, <2>3, <3>1
  <2>5. \A e \in Epochs : e # epochCounter => stakingIncentive'[e] = stakingIncentive[e]
    <3>1. \/ stakingIncentive' = stakingIncentive
          \/ \E a : stakingIncentive' = [stakingIncentive EXCEPT ![epochCounter] = a]
      BY <1>6 DEF StakingCall, addNominee, removeNominee, checkpointNominee, claimStakingIncentives,
                  retain, refundFromStaking, inflationVars, settleVars
    <3>2. stakingIncentive \in [1..(MaxEpochs + 1) -> Nat]
      BY <1>1 DEF StakingTyped
    <3> QED BY <3>1, <3>2, UnitConstants
  <2>6. Room' = Room
    BY <1>1, <2>1, <2>5, RoomSame
  <2> QED BY <2>1, <2>3, <2>4, <2>6, SupplyMinted
<1> QED BY <1>2, <1>3, <1>4, <1>5, <1>6 DEF Next

LEMMA SupplyAlways == Spec => []SupplyInv
<1>1. BondInv /\ BondInv' /\ UnitInv /\ ScheduleInv /\ StakingInv /\ StakingInv' /\ SupplyInv
        /\ [Next]_vars => SupplyInv'
  BY SupplyNext
<1> QED BY <1>1, BondAlways, UnitAlways, ScheduleAlways, StakingAlways, SupplyInitially,
           PTL DEF Spec

\* For all schedules, fractions, donations, votes and calls: as long as no epoch has been credited
\* with the inflation of a year whose cap is not yet in force, the first epoch was to end in the
\* first year and the weights of no settled epoch exceed 100% together, every deposit mints its
\* OLAS, and the depository holds what all the bonds are owed (Treasury.sol:239).
THEOREM BondsAlwaysBacked == Spec => []BondsBacked
<1>1. SupplyInv => BondsBacked
  BY DEF SupplyInv
<1> QED BY <1>1, SupplyAlways, PTL

-----------------------------------------------------------------------------
(* Types                                                                     *)

\* What no other invariant mentions.
RestTyped ==
    /\ endTime \in [0..MaxEpochs -> 0..MaxTime]
    /\ updated \subseteq {"parameters", "fractions", "staking"}
    /\ maturity \in [Bonds -> Nat]
    /\ lastDonation \in -1..MaxTime
    /\ left \in [Kinds -> Nat]

LEMMA RestInitially == Init => RestTyped
<1> SUFFICES ASSUME Init
             PROVE  RestTyped
  OBVIOUS
<1>1. endTime = [e \in 0..MaxEpochs |-> IF e = 0 THEN now ELSE 0] /\ updated = {}
      /\ maturity = [b \in Bonds |-> 0] /\ lastDonation = -1 /\ left \in Budgets
  BY DEF Init, InflationInit, BondingInit, IncentivesInit
<1>2. now \in 0..MaxTime /\ 0 \in 0..MaxTime /\ -1 \in -1..MaxTime
  BY EpochConstants, EpochAssumption DEF Init
<1> QED BY <1>1, <1>2, BudgetAssumption DEF RestTyped

LEMMA RestNext == BondInv /\ RestTyped /\ [Next]_vars => RestTyped'
<1> SUFFICES ASSUME BondInv, RestTyped, [Next]_vars
             PROVE  RestTyped'
  OBVIOUS
<1>1. now \in 0..MaxTime /\ now \in -1..MaxTime /\ now + Vesting \in Nat /\ epochCounter \in 0..MaxEpochs
  BY EpochConstants, BondingAssumption DEF BondInv, BondTypes
<1>2. endTime' \in [0..MaxEpochs -> 0..MaxTime]
  <2>1. endTime' = endTime \/ endTime' = [endTime EXCEPT ![epochCounter] = now]
    <3>1. CASE Checkpoint
      BY <3>1 DEF Checkpoint, SettleEpoch
    <3>2. CASE Tick \/ UNCHANGED vars
      BY <3>2 DEF Tick, vars, inflationVars, settleVars
    <3>3. CASE OwnerCall
      BY <3>3 DEF OwnerCall, changeTokenomicsParameters, changeIncentiveFractions,
                  changeStakingParams, settleVars
    <3>4. CASE BondCall
      BY <3>4 DEF BondCall, create, close, deposit, redeem, inflationRest, inflationVars, settleVars
    <3>5. CASE UnitCall
      BY <3>5 DEF UnitCall, donate, claimOwnerIncentives, inflationVars, settleVars
    <3>6. CASE StakingCall
      BY <3>6 DEF StakingCall, addNominee, removeNominee, checkpointNominee, claimStakingIncentives,
                  retain, inflationVars, settleVars
    <3> QED BY <3>1, <3>2, <3>3, <3>4, <3>5, <3>6 DEF Next
  <2> QED BY <1>1, <2>1 DEF RestTyped
<1>3. updated' \subseteq {"parameters", "fractions", "staking"}
  <2>1. \/ updated' \in {updated, {}}
        \/ \E p \in {"parameters", "fractions", "staking"} : updated' = updated \cup {p}
    <3>1. CASE Checkpoint
      BY <3>1 DEF Checkpoint, SettleEpoch
    <3>2. CASE Tick \/ UNCHANGED vars
      BY <3>2 DEF Tick, vars, inflationVars, paramVars
    <3>3. CASE OwnerCall
      BY <3>3 DEF OwnerCall, changeTokenomicsParameters, changeIncentiveFractions,
                  changeStakingParams
    <3>4. CASE BondCall
      BY <3>4 DEF BondCall, create, close, deposit, redeem, inflationRest, inflationVars, paramVars
    <3>5. CASE UnitCall
      BY <3>5 DEF UnitCall, donate, claimOwnerIncentives, inflationVars, paramVars
    <3>6. CASE StakingCall
      BY <3>6 DEF StakingCall, addNominee, removeNominee, checkpointNominee, claimStakingIncentives,
                  retain, inflationVars, paramVars
    <3> QED BY <3>1, <3>2, <3>3, <3>4, <3>5, <3>6 DEF Next
  <2> QED BY <2>1 DEF RestTyped
<1>4. maturity' \in [Bonds -> Nat]
  <2>1. maturity \in [Bonds -> Nat]
    BY DEF RestTyped
  <2>2. CASE BondCall
    <3>1. \/ maturity' = maturity
          \/ maturity' = [maturity EXCEPT ![bondCounter + 1] = now + Vesting]
          \/ \E S \in SUBSET Bonds : maturity' = [b \in Bonds |-> IF b \in S THEN 0 ELSE maturity[b]]
      BY <2>2 DEF BondCall, create, close, deposit, redeem, bondingVars
    <3> QED BY <1>1, <2>1, <3>1
  <2>3. CASE ~BondCall
    <3>1. maturity' = maturity
      BY <2>3 DEF Next, vars, Tick, Checkpoint, OwnerCall, UnitCall, StakingCall, bondingVars
    <3> QED BY <2>1, <3>1
  <2> QED BY <2>2, <2>3
<1>5. lastDonation' \in -1..MaxTime
  <2>1. lastDonation' \in {lastDonation, now}
    <3>1. CASE UnitCall
      BY <3>1 DEF UnitCall, donate, claimOwnerIncentives
    <3>2. CASE Checkpoint
      BY <3>2 DEF Checkpoint, rebalanceTreasury
    <3>3. CASE ~UnitCall /\ ~Checkpoint
      BY <3>3 DEF Next, vars, Tick, OwnerCall, BondCall, StakingCall, incentiveVars
    <3> QED BY <3>1, <3>2, <3>3
  <2> QED BY <1>1, <2>1 DEF RestTyped
<1>6. left' \in [Kinds -> Nat]
  <2>1. left \in [Kinds -> Nat]
    BY DEF RestTyped
  <2>2. left' = left \/ \E k \in Kinds : left[k] > 0 /\ left' = [left EXCEPT ![k] = @ - 1]
    BY DEF Next, vars, Tick, Checkpoint, OwnerCall, BondCall, UnitCall, StakingCall, Call, Kinds
  <2>3. \A k \in Kinds : left[k] > 0 => left[k] - 1 \in Nat
    BY <2>1
  <2> QED BY <2>1, <2>2, <2>3
<1> QED BY <1>2, <1>3, <1>4, <1>5, <1>6 DEF RestTyped

LEMMA RestAlways == Spec => []RestTyped
BY BondAlways, RestInitially, RestNext, PTL DEF Spec

\* Every variable of the economy keeps its type: no balance, budget, pending incentive or credit
\* is ever negative.
THEOREM EconomyTypeCorrect == Spec => []TypeOK
<1>1. BondInv /\ UnitInv /\ StakingInv /\ SupplyInv /\ RestTyped => TypeOK
  <2> SUFFICES ASSUME BondInv, UnitInv, StakingInv, SupplyInv, RestTyped
               PROVE  TypeOK
    OBVIOUS
  <2>1. BondTypes
    BY DEF BondInv
  <2>2. UnitTyped
    BY DEF UnitInv
  <2>3. StakingTyped
    BY DEF StakingInv
  <2>4. currentYear \in Years
    <3>1. /\ currentYear \in Nat /\ YearOf(now) \in Nat /\ MaxTime \div Year \in Nat
          /\ currentYear <= YearOf(now) /\ YearOf(now) <= MaxTime \div Year
      BY YearBound
    <3> DEFINE m == MaxTime \div Year
               y == YearOf(now)
    <3>2. currentYear \in 0..(m + 1)
      <4> HIDE DEF m, y
      <4> QED BY <3>1 DEF m, y
    <3> QED BY <3>2 DEF Years
  <2>5. /\ now \in 0..MaxTime /\ totalSupply \in Nat /\ left \in [Kinds -> Nat]
        /\ epochCounter \in 1..MaxEpochs /\ endTime \in [0..MaxEpochs -> 0..MaxTime]
        /\ epochLen \in MinEpochLen..MaxEpochLen
        /\ nextEpochLen \in {0} \cup MinEpochLen..MaxEpochLen
        /\ inflationPerSecond \in Nat
        /\ updated \subseteq {"parameters", "fractions", "staking"}
    BY <2>1 DEF BondTypes, SupplyInv, RestTyped
  <2>6. /\ fractions \in [1..(MaxEpochs + 1) -> {FirstFractions} \cup NewFractions]
        /\ stakingParams \in [1..(MaxEpochs + 1) -> {FirstStakingParams} \cup NewStakingParams]
        /\ totalTopUpsOLAS \in [Epochs -> Nat]
        /\ maxBond \in Nat /\ effectiveBond \in Nat
        /\ stakingIncentive \in [1..(MaxEpochs + 1) -> Nat]
    BY <2>1, <2>3 DEF BondTypes, StakingTyped
  <2>7. /\ supply \in [Products -> Nat] /\ productCounter \in 0..MaxProducts
        /\ payout \in [Bonds -> Nat] /\ maturity \in [Bonds -> Nat] /\ bondCounter \in 0..MaxBonds
        /\ depositoryOLAS \in Nat /\ redeemed \in Nat
    BY <2>1 DEF BondTypes, SupplyInv, RestTyped
  <2>8. /\ mapLastClaimed \in [Nominees -> 0..MaxEpochs] /\ mapRemoved \in [Nominees -> 0..MaxEpochs]
        /\ votes \in [Epochs -> VoteOutcomes \cup {NoVotes}]
        /\ filled \in [Nominees -> 0..MaxEpochs]
        /\ distributed \in Nat /\ forfeited \in Nat
    BY <2>3 DEF StakingTyped
  <2>9. /\ \A f \in {pendingReward, pendingTopUp, reward, topUp} : f \in [Units -> Nat]
        /\ lastEpoch \in [Units -> 0..MaxEpochs] /\ totalDonations \in [Epochs -> Nat]
        /\ sumUnitTopUps \in [Epochs -> [UnitTypes -> Nat]]
        /\ lastDonation \in -1..MaxTime
        /\ ETHFromServices \in Nat /\ ETHOwned \in Nat /\ toppedUp \in Nat
    BY <2>2 DEF UnitTyped, RestTyped
  <2> QED BY <2>4, <2>5, <2>6, <2>7, <2>8, <2>9 DEF TypeOK
<1> QED BY <1>1, BondAlways, UnitAlways, StakingAlways, SupplyAlways, RestAlways, PTL

===============================================================================
