-------------------------- MODULE StakingBridgeProofs --------------------------
(***************************************************************************)
(* Proofs about StakingBridge: types, the backing of every incentive and of *)
(* every withheld amount by OLAS, and the refinement of StakingDelivery, for *)
(* every number of targets, batches and syncs and every bridge unit.        *)
(***************************************************************************)
EXTENDS StakingBridge, TotalsTheorems

\* Batches and syncs that were not sent, and nonces that were not used, have no
\* amounts; each used nonce stands for a batch that was delivered.
NumNonEmpty(amounts) ==
    Total([b \in Batches |-> IF amounts[b] # NoAmounts THEN 1 ELSE 0], MaxBatches)
Fresh ==
    /\ \A b \in Batches : b > batches => data[b] = NoAmounts /\ olas[b] = 0
    /\ \A s \in Syncs : s > numSyncs => syncs[s] = 0
    /\ \A n \in Batches : n > stakingBatchNonce => queue[n] = NoAmounts
    /\ stakingBatchNonce + NumNonEmpty(data) <= batches

\* An amount that the bridge carries without a rest.
Whole(amount) == Normalize(amount) = amount

\* With limits in units of the bridge everything that is withheld or on its way
\* to be is in units too, so that no transfer and no restored amount is rounded.
WholeUnits ==
    LimitsInUnits =>
        /\ Whole(withheldL1)
        /\ Whole(withheldAmount)
        /\ \A s \in Syncs : Whole(syncs[s])
        /\ \A b \in Batches, t \in Targets : Whole(data[b][t])

\* The inductive invariant.
Inv == TypeOK /\ Fresh /\ Backed /\ WholeUnits

-----------------------------------------------------------------------------
(* Sums                                                                     *)

\* The amounts of one batch change by what its sum changes.
LEMMA GrandTotalExcept ==
  ASSUME NEW a \in [Batches -> [Targets -> Nat]], NEW b \in Batches,
         NEW new \in [Targets -> Nat]
  PROVE  /\ GrandTotal(a) \in Nat
         /\ GrandTotal([a EXCEPT ![b] = new])
              = GrandTotal(a) - Total(a[b], NumTargets) + Total(new, NumTargets)
<1> USE BridgeAssumption
<1> DEFINE f == [i \in Batches |-> Total(a[i], NumTargets)]
           g == [i \in Batches |-> Total([a EXCEPT ![b] = new][i], NumTargets)]
<1>0. /\ NumTargets \in Nat /\ MaxBatches \in Nat
      /\ Batches = 1..MaxBatches /\ Targets = 1..NumTargets
  BY DEF Batches, Targets
<1>1. \A i \in Batches : Total(a[i], NumTargets) \in Nat
  <2> SUFFICES ASSUME NEW i \in Batches
               PROVE  Total(a[i], NumTargets) \in Nat
    OBVIOUS
  <2>1. a[i] \in [1..NumTargets -> Nat]
    BY <1>0
  <2>2. QED
    BY <2>1, <1>0, TotalNonNegative
<1>2. Total(new, NumTargets) \in Nat
  BY <1>0, TotalNonNegative
<1>3. f \in [1..MaxBatches -> Nat] /\ f \in [1..MaxBatches -> Int]
  BY <1>0, <1>1
<1>4. g = [f EXCEPT ![b] = Total(new, NumTargets)]
  <2>1. \A i \in Batches : g[i] = [f EXCEPT ![b] = Total(new, NumTargets)][i]
    OBVIOUS
  <2>2. QED
    BY <2>1
<1>5. f[b] = Total(a[b], NumTargets)
  OBVIOUS
<1> HIDE DEF f, g
<1>6. Total(f, MaxBatches) \in Nat
  BY <1>0, <1>3, TotalNonNegative
<1>7. Total(g, MaxBatches) = Total(f, MaxBatches) - f[b] + Total(new, NumTargets)
  <2>1. b \in 1..MaxBatches /\ Total(new, NumTargets) \in Int
    BY <1>0, <1>2
  <2>2. QED
    BY <2>1, <1>0, <1>3, <1>4, TotalExcept
<1>8. GrandTotal(a) = Total(f, MaxBatches)
  BY DEF GrandTotal, f
<1>9. GrandTotal([a EXCEPT ![b] = new]) = Total(g, MaxBatches)
  BY DEF GrandTotal, g
<1>10. QED
  BY <1>5, <1>6, <1>7, <1>8, <1>9

\* A batch without amounts adds nothing.
LEMMA NoAmountsTotal ==
  /\ NoAmounts \in [Targets -> Nat]
  /\ Total(NoAmounts, NumTargets) = 0
<1> USE BridgeAssumption
<1>1. /\ NumTargets \in Nat
      /\ NoAmounts \in [1..NumTargets -> Int]
      /\ \A i \in 1..NumTargets : NoAmounts[i] = 0
  BY DEF NoAmounts, Targets
<1>2. Total(NoAmounts, NumTargets) = 0
  BY <1>1, TotalZero
<1>3. QED
  BY <1>2 DEF NoAmounts

\* Normalization rounds down.
LEMMA NormalizeBounds ==
  ASSUME NEW amount \in Nat
  PROVE  /\ Normalize(amount) \in Nat
         /\ Normalize(amount) <= amount
<1>1. BridgeUnit \in Nat /\ BridgeUnit > 0
  BY BridgeAssumption
<1> DEFINE q == amount \div BridgeUnit
           r == amount % BridgeUnit
<1>2. q \in Nat /\ r \in Nat /\ amount = BridgeUnit * q + r
  BY <1>1
<1>3. Normalize(amount) = q * BridgeUnit
  BY DEF Normalize
<1> HIDE DEF q, r
<1>4. q * BridgeUnit = BridgeUnit * q /\ q * BridgeUnit \in Nat
  BY <1>1, <1>2
<1>5. QED
  BY <1>1, <1>2, <1>3, <1>4

\* The bridge carries the multiples of its unit whole.
LEMMA WholeIsMultiple ==
  ASSUME NEW amount \in Nat
  PROVE  Whole(amount) <=> \E k \in Int : amount = k * BridgeUnit
<1>1. BridgeUnit \in Nat /\ BridgeUnit > 0
  BY BridgeAssumption
<1> DEFINE q == amount \div BridgeUnit
           r == amount % BridgeUnit
<1>2. q \in Int /\ r \in 0..(BridgeUnit - 1) /\ amount = BridgeUnit * q + r
  BY <1>1
<1>3. Normalize(amount) = q * BridgeUnit
  BY DEF Normalize
<1> HIDE DEF q, r
<1>4. ASSUME NEW k \in Int, amount = k * BridgeUnit
      PROVE  amount = q * BridgeUnit
  <2>1. ASSUME NEW d \in Int, d = k - q
        PROVE  BridgeUnit * d = r
    BY <1>1, <1>2, <1>4, <2>1
  <2>2. ASSUME NEW d \in Int, d = k - q
        PROVE  d = 0
    <3>1. BridgeUnit * d = r
      BY <2>1, <2>2
    <3>2. ~ (d >= 1)
      BY ONLY <1>1, <1>2, <3>1, d \in Int
    <3>3. ~ (d <= 0 - 1)
      BY ONLY <1>1, <1>2, <3>1, d \in Int
    <3>4. QED
      BY <3>2, <3>3
  <2>3. k - q = 0
    BY <1>2, <2>2
  <2>4. k = q
    BY <1>2, <2>3
  <2>5. QED
    BY <1>4, <2>4
<1>5. QED
  BY <1>2, <1>3, <1>4 DEF Whole

\* Normalization returns such an amount, and zero is one.
LEMMA NormalizeIsWhole ==
  /\ \A amount \in Nat : Whole(Normalize(amount))
  /\ Whole(0)
<1>1. BridgeUnit \in Nat /\ BridgeUnit > 0
  BY BridgeAssumption
<1>2. ASSUME NEW amount \in Nat
      PROVE  Whole(Normalize(amount))
  <2> DEFINE q == amount \div BridgeUnit
  <2>1. q \in Int /\ Normalize(amount) = q * BridgeUnit
    BY <1>1 DEF Normalize
  <2>2. Normalize(amount) \in Nat
    BY NormalizeBounds
  <2> HIDE DEF q
  <2>3. QED
    BY <2>1, <2>2, WholeIsMultiple
<1>3. Whole(0)
  <2>1. 0 = 0 * BridgeUnit
    BY <1>1
  <2>2. QED
    BY <2>1, WholeIsMultiple
<1>4. QED
  BY <1>2, <1>3

\* Sums, differences and the lesser of two such amounts are such amounts.
LEMMA WholeClosed ==
  ASSUME NEW x \in Nat, NEW y \in Nat, Whole(x), Whole(y)
  PROVE  /\ Whole(x + y)
         /\ y <= x => Whole(x - y)
         /\ Whole(Least(x, y))
<1>1. BridgeUnit \in Nat /\ BridgeUnit > 0
  BY BridgeAssumption
<1>2. PICK k \in Int : x = k * BridgeUnit
  BY WholeIsMultiple
<1>3. PICK m \in Int : y = m * BridgeUnit
  BY WholeIsMultiple
<1>4. x + y = (k + m) * BridgeUnit /\ x - y = (k - m) * BridgeUnit
  BY <1>1, <1>2, <1>3
<1>5. Whole(x + y)
  <2>1. x + y \in Nat /\ k + m \in Int
    OBVIOUS
  <2>2. QED
    BY <1>4, <2>1, WholeIsMultiple
<1>6. ASSUME y <= x
      PROVE  Whole(x - y)
  <2>1. x - y \in Nat /\ k - m \in Int
    BY <1>6
  <2>2. QED
    BY <1>4, <2>1, WholeIsMultiple
<1>7. Whole(Least(x, y))
  BY DEF Least
<1>8. QED
  BY <1>5, <1>6, <1>7

\* A sum of such amounts over the targets is such an amount.
LEMMA WholeTotal ==
  ASSUME NEW amounts \in [Targets -> Nat], \A t \in Targets : Whole(amounts[t])
  PROVE  Whole(Total(amounts, NumTargets))
<1>0. /\ NumTargets \in Nat /\ Targets = 1..NumTargets
      /\ BridgeUnit \in Nat /\ BridgeUnit \in Int /\ BridgeUnit > 0
  BY BridgeAssumption DEF Targets
<1> DEFINE f == [t \in Targets |-> amounts[t] \div BridgeUnit]
<1>1. f \in [1..NumTargets -> Int]
  BY <1>0
<1>2. \A t \in Targets : f[t] * BridgeUnit = amounts[t]
  BY DEF Whole, Normalize
<1> HIDE DEF f
<1>3. [t \in 1..NumTargets |-> f[t] * BridgeUnit] = amounts
  BY <1>0, <1>2
<1>4. Total([t \in 1..NumTargets |-> f[t] * BridgeUnit], NumTargets)
        = Total(f, NumTargets) * BridgeUnit
  BY <1>0, <1>1, TotalScaled
<1>5. Total(f, NumTargets) \in Int
  BY <1>0, <1>1, TotalType
<1>6. Total(amounts, NumTargets) \in Nat
  <2>1. amounts \in [1..NumTargets -> Nat]
    BY <1>0
  <2>2. QED
    BY <1>0, <2>1, TotalNonNegative
<1>7. QED
  BY <1>3, <1>4, <1>5, <1>6, WholeIsMultiple

\* The limits are constant, so what is true of them stays true.
LEMMA LimitsStay == LimitsInUnits' = LimitsInUnits
BY DEF LimitsInUnits, Normalize

-----------------------------------------------------------------------------
(* The loop of _processData                                                 *)

IsBalanceSteps(left, accepted, N) ==
    left = [k \in 0..N |->
              IF k = 0 THEN balance
              ELSE IF ~paused /\ accepted[k] <= left[k - 1] THEN left[k - 1] - accepted[k]
              ELSE left[k - 1]]

\* A function that satisfies the recursion of BalanceSteps exists.
LEMMA BalanceStepsExists ==
  ASSUME NEW accepted \in [Targets -> Nat], balance \in Nat
  PROVE  \E left \in [0..NumTargets -> Nat] : IsBalanceSteps(left, accepted, NumTargets)
<1>0. NumTargets \in Nat /\ Targets = 1..NumTargets
  BY BridgeAssumption DEF Targets
<1> DEFINE P(m) == \E left \in [0..m -> Nat] : IsBalanceSteps(left, accepted, m)
           S    == {m \in Nat : m <= NumTargets => P(m)}
<1>1. 0 \in S
  <2> DEFINE l0 == [k \in 0..0 |-> balance]
  <2>1. /\ l0 \in [0..0 -> Nat]
        /\ l0 = [k \in 0..0 |->
                   IF k = 0 THEN balance
                   ELSE IF ~paused /\ accepted[k] <= l0[k - 1] THEN l0[k - 1] - accepted[k]
                   ELSE l0[k - 1]]
    OBVIOUS
  <2>2. QED
    BY <2>1 DEF IsBalanceSteps
<1>2. ASSUME NEW m \in Nat, m \in S
      PROVE  m + 1 \in S
  <2> SUFFICES ASSUME m + 1 <= NumTargets
               PROVE  P(m + 1)
    OBVIOUS
  <2>0. P(m)
    <3>1. m <= NumTargets => P(m)
      BY <1>2
    <3> HIDE DEF P
    <3>2. QED
      BY <3>1, <1>0
  <2>1. PICK left \in [0..m -> Nat] : IsBalanceSteps(left, accepted, m)
    BY <2>0
  <2> DEFINE a == accepted[m + 1]
             last == IF ~paused /\ a <= left[m] THEN left[m] - a ELSE left[m]
             new == [k \in 0..(m + 1) |-> IF k = m + 1 THEN last ELSE left[k]]
  <2>2. a \in Nat /\ left[m] \in Nat
    BY <1>0
  <2>3. last \in Nat
    BY <2>2
  <2>4. new \in [0..(m + 1) -> Nat]
    BY <2>3
  <2>5. ASSUME NEW k \in 0..(m + 1)
        PROVE  new[k] = IF k = 0 THEN balance
                        ELSE IF ~paused /\ accepted[k] <= new[k - 1] THEN new[k - 1] - accepted[k]
                        ELSE new[k - 1]
    <3>1. CASE k = m + 1
      <4>1. k # 0 /\ k - 1 = m /\ new[k] = last /\ new[k - 1] = left[m] /\ accepted[k] = a
        BY <3>1
      <4>2. QED
        BY <4>1
    <3>2. CASE k # m + 1
      <4>1. k \in 0..m /\ new[k] = left[k]
        BY <3>2
      <4>2. left[k] = IF k = 0 THEN balance
                      ELSE IF ~paused /\ accepted[k] <= left[k - 1] THEN left[k - 1] - accepted[k]
                      ELSE left[k - 1]
        BY <2>1, <4>1 DEF IsBalanceSteps
      <4>3. k # 0 => new[k - 1] = left[k - 1]
        BY <4>1
      <4> HIDE DEF new
      <4>4. QED
        BY <4>1, <4>2, <4>3
    <3>3. QED
      BY <3>1, <3>2
  <2> HIDE DEF new
  <2>6. new = [k \in 0..(m + 1) |-> new[k]]
    BY <2>4
  <2>7. new = [k \in 0..(m + 1) |->
                 IF k = 0 THEN balance
                 ELSE IF ~paused /\ accepted[k] <= new[k - 1] THEN new[k - 1] - accepted[k]
                 ELSE new[k - 1]]
    BY <2>5, <2>6, Zenon
  <2>8. QED
    BY <2>4, <2>7 DEF IsBalanceSteps
<1>3. Nat \subseteq S
  <2> HIDE DEF S
  <2>1. QED
    BY <1>1, <1>2, SetInduction
<1>4. QED
  BY <1>0, <1>3

\* BalanceSteps is the function its recursive definition describes.
LEMMA BalanceStepsRecursion ==
  ASSUME NEW accepted \in [Targets -> Nat], balance \in Nat
  PROVE  /\ BalanceSteps(accepted) \in [0..NumTargets -> Int]
         /\ BalanceSteps(accepted)[0] = balance
         /\ \A k \in 1..NumTargets :
              BalanceSteps(accepted)[k] = BalanceSteps(accepted)[k - 1] - Paid(accepted)[k]
         /\ \A k \in 0..NumTargets : BalanceSteps(accepted)[k] \in Nat
<1>0. NumTargets \in Nat /\ Targets = 1..NumTargets
  BY BridgeAssumption DEF Targets
<1> DEFINE left == BalanceSteps(accepted)
<1>1. PICK l \in [0..NumTargets -> Nat] : IsBalanceSteps(l, accepted, NumTargets)
  BY BalanceStepsExists
<1>2. IsBalanceSteps(left, accepted, NumTargets)
  BY <1>1, Zenon DEF BalanceSteps, IsBalanceSteps
<1>3. left = [k \in 0..NumTargets |->
                IF k = 0 THEN balance
                ELSE IF ~paused /\ accepted[k] <= left[k - 1] THEN left[k - 1] - accepted[k]
                ELSE left[k - 1]]
  BY <1>2, Zenon DEF IsBalanceSteps
<1>4. Paid(accepted) =
        [t \in Targets |-> IF ~paused /\ accepted[t] <= left[t - 1] THEN accepted[t] ELSE 0]
  BY DEF Paid
<1> HIDE DEF left
<1>5. \A k \in 0..NumTargets :
        left[k] = IF k = 0 THEN balance
                  ELSE IF ~paused /\ accepted[k] <= left[k - 1] THEN left[k - 1] - accepted[k]
                  ELSE left[k - 1]
  BY <1>3
<1>6. left[0] = balance
  BY <1>0, <1>5
<1> DEFINE S == {m \in Nat : m <= NumTargets => left[m] \in Nat}
<1>7. Nat \subseteq S
  <2>1. 0 \in S
    BY <1>6
  <2>2. ASSUME NEW m \in Nat, m \in S
        PROVE  m + 1 \in S
    <3> SUFFICES ASSUME m + 1 <= NumTargets
                 PROVE  left[m + 1] \in Nat
      OBVIOUS
    <3>1. /\ m + 1 \in 0..NumTargets /\ m + 1 # 0 /\ (m + 1) - 1 = m
          /\ left[m] \in Nat
          /\ accepted[m + 1] \in Nat
      BY <1>0, <2>2
    <3>2. left[m + 1] = IF ~paused /\ accepted[m + 1] <= left[m]
                        THEN left[m] - accepted[m + 1] ELSE left[m]
      BY <1>5, <3>1
    <3>3. QED
      BY <3>1, <3>2
  <2> HIDE DEF S
  <2>3. QED
    BY <2>1, <2>2, SetInduction
<1>8. \A k \in 0..NumTargets : left[k] \in Nat
  BY <1>7, <1>0
<1>9. ASSUME NEW k \in 1..NumTargets
      PROVE  left[k] = left[k - 1] - Paid(accepted)[k]
  <2>1. k \in 0..NumTargets /\ k # 0 /\ k - 1 \in 0..NumTargets /\ k \in Targets
    BY <1>0
  <2>2. left[k - 1] \in Nat /\ accepted[k] \in Nat
    BY <1>8, <2>1
  <2>3. left[k] = IF ~paused /\ accepted[k] <= left[k - 1] THEN left[k - 1] - accepted[k]
                  ELSE left[k - 1]
    BY <1>5, <2>1
  <2>4. Paid(accepted)[k] = IF ~paused /\ accepted[k] <= left[k - 1] THEN accepted[k] ELSE 0
    BY <1>4, <2>1
  <2>5. QED
    BY <2>2, <2>3, <2>4
<1>10. left = [k \in 0..NumTargets |-> left[k]]
  BY <1>3, Zenon
<1>11. left \in [0..NumTargets -> Int]
  BY <1>8, <1>10
<1>12. QED
  BY <1>6, <1>8, <1>9, <1>11 DEF left

\* The loop pays no target more than it accepts, and all of them together no
\* more than there is; while it is paused it pays none.
LEMMA BalanceLoop ==
  ASSUME NEW accepted \in [Targets -> Nat], balance \in Nat
  PROVE  /\ Paid(accepted) \in [Targets -> Nat]
         /\ \A t \in Targets : Paid(accepted)[t] <= accepted[t]
         /\ Total(Paid(accepted), NumTargets) \in 0..balance
         /\ paused => Paid(accepted) = NoAmounts
<1>0. NumTargets \in Nat /\ Targets = 1..NumTargets
  BY BridgeAssumption DEF Targets
<1>1. /\ Paid(accepted) \in [Targets -> Nat]
      /\ \A t \in Targets : Paid(accepted)[t] <= accepted[t]
      /\ paused => Paid(accepted) = NoAmounts
  BY DEF Paid, NoAmounts
<1> DEFINE left == BalanceSteps(accepted)
           paid == Paid(accepted)
           sum  == RunningTotal(paid, NumTargets)
<1>2. /\ left[0] = balance
      /\ \A k \in 1..NumTargets : left[k] = left[k - 1] - paid[k]
      /\ \A k \in 0..NumTargets : left[k] \in Nat
  BY BalanceStepsRecursion
<1>3. paid \in [1..NumTargets -> Int] /\ paid \in [1..NumTargets -> Nat]
  BY <1>0, <1>1
<1>4. /\ sum[0] = 0
      /\ \A k \in 1..NumTargets : sum[k] = sum[k - 1] + paid[k]
      /\ sum \in [0..NumTargets -> Int]
  BY <1>0, <1>3, RunningTotalRecursion
<1>5. Total(paid, NumTargets) = sum[NumTargets] /\ Total(paid, NumTargets) \in Nat
  BY <1>0, <1>3, TotalNonNegative DEF Total
<1> HIDE DEF left, paid, sum
<1> DEFINE S == {m \in Nat : m <= NumTargets => sum[m] = balance - left[m]}
<1>6. Nat \subseteq S
  <2>1. 0 \in S
    BY <1>2, <1>4
  <2>2. ASSUME NEW m \in Nat, m \in S
        PROVE  m + 1 \in S
    <3> SUFFICES ASSUME m + 1 <= NumTargets
                 PROVE  sum[m + 1] = balance - left[m + 1]
      OBVIOUS
    <3>1. m + 1 \in 1..NumTargets /\ (m + 1) - 1 = m /\ m \in 0..NumTargets
      BY <1>0
    <3>2. /\ sum[m + 1] = sum[m] + paid[m + 1]
          /\ left[m + 1] = left[m] - paid[m + 1]
          /\ sum[m] = balance - left[m]
          /\ left[m] \in Nat /\ paid[m + 1] \in Nat
      BY <1>2, <1>3, <1>4, <2>2, <3>1
    <3>3. QED
      BY <3>2
  <2> HIDE DEF S
  <2>3. QED
    BY <2>1, <2>2, SetInduction
<1>7. sum[NumTargets] = balance - left[NumTargets] /\ left[NumTargets] \in Nat
  BY <1>0, <1>2, <1>6
<1>8. Total(paid, NumTargets) \in 0..balance
  BY <1>5, <1>7
<1>9. QED
  BY <1>1, <1>8 DEF paid

\* What arrives in a batch is paid, queued or withheld.
LEMMA BatchSplits ==
  ASSUME NEW amounts \in [Targets -> Nat], NEW limits \in [Targets -> Nat], balance \in Nat
  PROVE  LET accepted == Accepted(amounts, limits)
         IN  /\ accepted \in [Targets -> Nat]
             /\ Queued(accepted) \in [Targets -> Nat]
             /\ WithheldTotal(amounts, limits) \in Nat
             /\ Total(amounts, NumTargets) =
                    Total(Paid(accepted), NumTargets) + Total(Queued(accepted), NumTargets)
                    + WithheldTotal(amounts, limits)
<1>0. NumTargets \in Nat /\ Targets = 1..NumTargets
  BY BridgeAssumption DEF Targets
<1> DEFINE accepted == Accepted(amounts, limits)
           paid == Paid(accepted)
           queued == Queued(accepted)
           withheld == [t \in Targets |-> amounts[t] - accepted[t]]
<1>1. /\ accepted \in [Targets -> Nat]
      /\ \A t \in Targets : accepted[t] <= amounts[t]
  BY DEF Accepted, Least
<1>2. /\ paid \in [Targets -> Nat]
      /\ \A t \in Targets : paid[t] <= accepted[t]
  <2> HIDE DEF accepted
  <2>1. QED
    BY <1>1, BalanceLoop
<1>3. WithheldTotal(amounts, limits) = Total(withheld, NumTargets)
  BY DEF WithheldTotal
<1>4. queued = [t \in Targets |-> accepted[t] - paid[t]]
  BY DEF Queued
<1> HIDE DEF accepted, paid, queued
<1>5. /\ queued \in [Targets -> Nat]
      /\ withheld \in [Targets -> Nat]
      /\ \A t \in Targets : accepted[t] = paid[t] + queued[t]
      /\ \A t \in Targets : amounts[t] = accepted[t] + withheld[t]
  BY <1>1, <1>2, <1>4
<1> HIDE DEF withheld
<1>6. /\ accepted \in [1..NumTargets -> Int] /\ paid \in [1..NumTargets -> Int]
      /\ queued \in [1..NumTargets -> Int] /\ withheld \in [1..NumTargets -> Int]
      /\ amounts \in [1..NumTargets -> Int]
      /\ withheld \in [1..NumTargets -> Nat]
  <2>1. [Targets -> Nat] = [1..NumTargets -> Nat]
    BY <1>0
  <2>2. \A f \in [1..NumTargets -> Nat] : f \in [1..NumTargets -> Int]
    OBVIOUS
  <2>3. /\ accepted \in [Targets -> Nat] /\ paid \in [Targets -> Nat] /\ queued \in [Targets -> Nat]
        /\ withheld \in [Targets -> Nat] /\ amounts \in [Targets -> Nat]
    BY <1>1, <1>2, <1>5
  <2>4. QED
    BY <2>1, <2>2, <2>3, Zenon
<1>7. Total(accepted, NumTargets) = Total(paid, NumTargets) + Total(queued, NumTargets)
  <2>1. NumTargets \in Nat
    BY <1>0
  <2>2. \A i \in 1..NumTargets : accepted[i] = paid[i] + queued[i]
    BY <1>0, <1>5
  <2>3. QED
    BY <1>6, <2>1, <2>2, TotalSum
<1>8. Total(amounts, NumTargets) = Total(accepted, NumTargets) + Total(withheld, NumTargets)
  <2>1. NumTargets \in Nat
    BY <1>0
  <2>2. \A i \in 1..NumTargets : amounts[i] = accepted[i] + withheld[i]
    BY <1>0, <1>5
  <2>3. QED
    BY <1>6, <2>1, <2>2, TotalSum
<1>9. Total(withheld, NumTargets) \in Nat
  BY <1>0, <1>6, TotalNonNegative
<1>10. Total(paid, NumTargets) \in Int /\ Total(queued, NumTargets) \in Int
  BY <1>0, <1>6, TotalType
<1>11. QED
  BY <1>1, <1>3, <1>5, <1>7, <1>8, <1>9, <1>10 DEF accepted, paid, queued

\* The batches that have amounts change by the one that is replaced.
LEMMA NumNonEmptyExcept ==
  ASSUME NEW a \in [Batches -> [Targets -> Nat]], NEW b \in Batches,
         NEW new \in [Targets -> Nat]
  PROVE  /\ NumNonEmpty(a) \in Nat
         /\ NumNonEmpty([a EXCEPT ![b] = new])
              = NumNonEmpty(a) - (IF a[b] # NoAmounts THEN 1 ELSE 0)
                  + (IF new # NoAmounts THEN 1 ELSE 0)
<1> DEFINE f == [i \in Batches |-> IF a[i] # NoAmounts THEN 1 ELSE 0]
           g == [i \in Batches |-> IF [a EXCEPT ![b] = new][i] # NoAmounts THEN 1 ELSE 0]
           v == IF new # NoAmounts THEN 1 ELSE 0
<1>1. MaxBatches \in Nat /\ Batches = 1..MaxBatches
  BY BridgeAssumption DEF Batches
<1>2. f \in [1..MaxBatches -> Nat] /\ f \in [1..MaxBatches -> Int] /\ v \in Int
  BY <1>1
<1>3. g = [f EXCEPT ![b] = v]
  <2>1. \A i \in Batches : g[i] = [f EXCEPT ![b] = v][i]
    OBVIOUS
  <2>2. QED
    BY <2>1
<1>4. f[b] = IF a[b] # NoAmounts THEN 1 ELSE 0
  OBVIOUS
<1>5. NumNonEmpty(a) = Total(f, MaxBatches)
  BY DEF NumNonEmpty
<1>6. NumNonEmpty([a EXCEPT ![b] = new]) = Total(g, MaxBatches)
  BY DEF NumNonEmpty
<1> HIDE DEF f, g
<1>7. Total(f, MaxBatches) \in Nat
  BY <1>1, <1>2, TotalNonNegative
<1>8. Total(g, MaxBatches) = Total(f, MaxBatches) - f[b] + v
  <2> HIDE DEF v
  <2>1. b \in 1..MaxBatches
    BY <1>1
  <2>2. QED
    BY <1>1, <1>2, <1>3, <2>1, TotalExcept
<1>9. QED
  BY <1>4, <1>5, <1>6, <1>7, <1>8

-----------------------------------------------------------------------------
(* A step preserves the invariant                                           *)

\* A new deposit processor and target dispenser satisfy the invariant.
THEOREM InitInv == Init => Inv
<1> SUFFICES ASSUME Init
             PROVE  Inv
  OBVIOUS
<1>0. /\ NumTargets \in Nat /\ MaxBatches \in Nat /\ MaxSyncs \in Nat /\ MaxWithheld \in Nat
      /\ Batches = 1..MaxBatches /\ Syncs = 1..MaxSyncs
  BY BridgeAssumption DEF Batches, Syncs
<1>1. TypeOK
  <2>1. /\ data \in [Batches -> [Targets -> Nat]]
        /\ queue \in [Batches -> [Targets -> Nat]]
        /\ deposited \in [Targets -> Nat]
    BY NoAmountsTotal DEF Init
  <2>2. /\ olas \in [Batches -> Nat]
        /\ syncs \in [Syncs -> Nat]
        /\ lost \in SUBSET ({"data", "olas", "sync"} \X (Batches \cup Syncs))
    BY DEF Init
  <2>3. /\ withheldL1 \in 0..MaxWithheld
        /\ batches \in 0..MaxBatches
        /\ numSyncs \in 0..MaxSyncs
        /\ stakingBatchNonce \in 0..batches
    BY <1>0 DEF Init
  <2>4. QED
    BY <2>1, <2>2, <2>3 DEF Init, TypeOK
<1>2. NumNonEmpty(data) = 0
  <2> DEFINE f == [b \in Batches |-> IF data[b] # NoAmounts THEN 1 ELSE 0]
  <2>1. f \in [1..MaxBatches -> Int] /\ \A b \in 1..MaxBatches : f[b] = 0
    BY <1>0 DEF Init
  <2> HIDE DEF f
  <2>2. Total(f, MaxBatches) = 0
    BY <1>0, <2>1, TotalZero
  <2>3. QED
    BY <2>2 DEF NumNonEmpty, f
<1>3. Fresh
  BY <1>0, <1>2 DEF Init, Fresh
<1>4. GrandTotal([b \in Batches |-> NoAmounts]) = 0
  <2> DEFINE f == [b \in Batches |-> Total([i \in Batches |-> NoAmounts][b], NumTargets)]
  <2>1. f \in [1..MaxBatches -> Int] /\ \A b \in 1..MaxBatches : f[b] = 0
    BY <1>0, NoAmountsTotal
  <2> HIDE DEF f
  <2>2. Total(f, MaxBatches) = 0
    BY <1>0, <2>1, TotalZero
  <2>3. QED
    BY <2>2 DEF GrandTotal, f
<1>5. Total(olas, MaxBatches) = 0 /\ Total(syncs, MaxSyncs) = 0
  <2>1. /\ olas \in [1..MaxBatches -> Int] /\ \A b \in 1..MaxBatches : olas[b] = 0
        /\ syncs \in [1..MaxSyncs -> Int] /\ \A s \in 1..MaxSyncs : syncs[s] = 0
    BY <1>0 DEF Init
  <2>2. QED
    BY <1>0, <2>1, TotalZero
<1>6. Backed
  BY <1>4, <1>5 DEF Init, Backed, HeldOLAS, ClaimedOLAS, Withheld
<1>7. WholeUnits
  BY NormalizeIsWhole DEF Init, WholeUnits, NoAmounts
<1>8. QED
  BY <1>1, <1>3, <1>6, <1>7 DEF Inv

\* The sets that the constants stand for.
LEMMA BridgeSets ==
  /\ NumTargets \in Nat /\ MaxBatches \in Nat /\ MaxSyncs \in Nat /\ MaxWithheld \in Nat
  /\ Batches = 1..MaxBatches /\ Targets = 1..NumTargets /\ Syncs = 1..MaxSyncs
BY BridgeAssumption DEF Batches, Targets, Syncs

\* The amounts and sums of the invariant are natural numbers.
Sums ==
    /\ GrandTotal(data) \in Nat /\ GrandTotal(queue) \in Nat
    /\ Total(olas, MaxBatches) \in Nat /\ Total(syncs, MaxSyncs) \in Nat
    /\ NumNonEmpty(data) \in Nat
    /\ withheldL1 \in Nat /\ batches \in Nat /\ numSyncs \in Nat /\ stakingBatchNonce \in Nat
    /\ balance \in Nat /\ movedOLAS \in Nat /\ processorOLAS \in Nat /\ withheldAmount \in Nat

\* The invariant bounds the sums that it compares from below.
LEMMA InvSums == Inv => Sums
<1> SUFFICES ASSUME Inv
             PROVE  Sums
  OBVIOUS
<1>1. /\ data \in [Batches -> [Targets -> Nat]] /\ queue \in [Batches -> [Targets -> Nat]]
      /\ olas \in [1..MaxBatches -> Nat] /\ syncs \in [1..MaxSyncs -> Nat]
  BY BridgeSets DEF Inv, TypeOK
<1>2. Total(olas, MaxBatches) \in Nat /\ Total(syncs, MaxSyncs) \in Nat
  BY BridgeSets, <1>1, TotalNonNegative
<1>3. \A a \in [Batches -> [Targets -> Nat]] : GrandTotal(a) \in Nat /\ NumNonEmpty(a) \in Nat
  <2> SUFFICES ASSUME NEW a \in [Batches -> [Targets -> Nat]]
               PROVE  GrandTotal(a) \in Nat /\ NumNonEmpty(a) \in Nat
    OBVIOUS
  <2>1. CASE \E b \in Batches : TRUE
    BY <2>1, NoAmountsTotal, GrandTotalExcept, NumNonEmptyExcept
  <2>2. CASE MaxBatches = 0
    <3> DEFINE f == [b \in Batches |-> Total(a[b], NumTargets)]
               g == [b \in Batches |-> IF a[b] # NoAmounts THEN 1 ELSE 0]
    <3>1. f \in [1..MaxBatches -> Nat] /\ g \in [1..MaxBatches -> Nat]
      BY BridgeSets, <2>2
    <3> HIDE DEF f, g
    <3>2. Total(f, MaxBatches) \in Nat /\ Total(g, MaxBatches) \in Nat
      BY BridgeSets, <3>1, TotalNonNegative
    <3>3. QED
      BY <3>2 DEF GrandTotal, NumNonEmpty, f, g
  <2>3. QED
    BY BridgeSets, <2>1, <2>2
<1>4. /\ withheldL1 \in Nat /\ batches \in Nat /\ numSyncs \in Nat /\ stakingBatchNonce \in Nat
      /\ balance \in Nat /\ movedOLAS \in Nat /\ processorOLAS \in Nat /\ withheldAmount \in Nat
  BY BridgeSets DEF Inv, TypeOK
<1>5. QED
  BY <1>1, <1>2, <1>3, <1>4 DEF Sums

\* The queue of the nonce that a batch takes is free, and within the bound.
LEMMA QueueKeyFree ==
  ASSUME Inv, NEW b \in Batches, Undelivered(b)
  PROVE  /\ QueueKey \in Batches
         /\ queue[QueueKey] = NoAmounts
         /\ QueueKey = stakingBatchNonce + 1
         /\ QueueKey <= batches
         /\ NumNonEmpty([data EXCEPT ![b] = NoAmounts]) = NumNonEmpty(data) - 1
<1>0. Sums
  BY InvSums
<1>1. /\ data \in [Batches -> [Targets -> Nat]] /\ NoAmounts \in [Targets -> Nat]
      /\ [data EXCEPT ![b] = NoAmounts] \in [Batches -> [Targets -> Nat]]
  BY NoAmountsTotal DEF Inv, TypeOK
<1>2. NumNonEmpty([data EXCEPT ![b] = NoAmounts]) = NumNonEmpty(data) - 1
  <2>1. NumNonEmpty([data EXCEPT ![b] = NoAmounts])
          = NumNonEmpty(data) - (IF data[b] # NoAmounts THEN 1 ELSE 0)
              + (IF NoAmounts # NoAmounts THEN 1 ELSE 0)
    BY <1>1, NumNonEmptyExcept
  <2>2. data[b] # NoAmounts
    BY DEF Undelivered
  <2>3. QED
    BY <1>0, <2>1, <2>2 DEF Sums
<1>3. NumNonEmpty([data EXCEPT ![b] = NoAmounts]) \in Nat
  BY <1>1, NumNonEmptyExcept
<1>4. stakingBatchNonce + 1 <= batches
  <2>1. stakingBatchNonce + NumNonEmpty(data) <= batches
    BY DEF Inv, Fresh
  <2>2. QED
    BY <1>0, <1>2, <1>3, <2>1 DEF Sums
<1>5. batches <= MaxBatches
  BY BridgeSets, <1>0 DEF Inv, TypeOK, Sums
<1>6. stakingBatchNonce + 1 \in Batches
  BY BridgeSets, <1>0, <1>4, <1>5 DEF Sums
<1>7. queue[stakingBatchNonce + 1] = NoAmounts
  <2>1. stakingBatchNonce + 1 > stakingBatchNonce
    BY <1>0 DEF Sums
  <2>2. QED
    BY <1>6, <2>1 DEF Inv, Fresh
<1>8. QED
  BY <1>2, <1>4, <1>6, <1>7 DEF QueueKey

\* With limits in units, what a batch in units has withheld is in units.
LEMMA WithheldIsWhole ==
  ASSUME NEW amounts \in [Targets -> Nat], NEW limits \in [Targets -> Nat],
         \A t \in Targets : Whole(amounts[t]) /\ Whole(limits[t])
  PROVE  Whole(WithheldTotal(amounts, limits))
<1> DEFINE withheld == [t \in Targets |-> amounts[t] - Accepted(amounts, limits)[t]]
<1>1. ASSUME NEW t \in Targets
      PROVE  withheld[t] \in Nat /\ Whole(withheld[t])
  <2>1. amounts[t] \in Nat /\ limits[t] \in Nat
    OBVIOUS
  <2>2. Accepted(amounts, limits)[t] = Least(amounts[t], limits[t])
    BY DEF Accepted
  <2>3. /\ Least(amounts[t], limits[t]) \in Nat
        /\ Least(amounts[t], limits[t]) <= amounts[t]
    BY <2>1 DEF Least
  <2>4. Whole(Least(amounts[t], limits[t]))
    BY <2>1, WholeClosed
  <2>5. Whole(amounts[t] - Least(amounts[t], limits[t]))
    BY <2>1, <2>3, <2>4, WholeClosed
  <2>6. QED
    BY <2>1, <2>2, <2>3, <2>5
<1>2. withheld \in [Targets -> Nat] /\ \A t \in Targets : Whole(withheld[t])
  BY <1>1
<1>3. WithheldTotal(amounts, limits) = Total(withheld, NumTargets)
  BY DEF WithheldTotal
<1> HIDE DEF withheld
<1>4. QED
  BY <1>2, <1>3, WholeTotal

\* Delivered data preserves the invariant, whoever delivers it.
LEMMA ProcessedInv ==
  ASSUME Inv, NEW b \in Batches, NEW limits \in [Targets -> Limits],
         Undelivered(b), _processData(data[b], limits),
         data' = [data EXCEPT ![b] = NoAmounts],
         lost' \subseteq lost,
         UNCHANGED <<l1Vars, olas, syncs, numSyncs, ownerVars>>
  PROVE  Inv'
<1> DEFINE accepted == Accepted(data[b], limits)
           paid     == Paid(accepted)
           queued   == Queued(accepted)
           held     == WithheldTotal(data[b], limits)
<1>0. Sums
  BY InvSums
<1>1. /\ data[b] \in [Targets -> Nat] /\ limits \in [Targets -> Nat] /\ balance \in Nat
      /\ NoAmounts \in [Targets -> Nat]
  BY BridgeAssumption, NoAmountsTotal DEF Inv, TypeOK
<1>2. /\ accepted \in [Targets -> Nat] /\ queued \in [Targets -> Nat] /\ held \in Nat
      /\ Total(data[b], NumTargets) =
             Total(paid, NumTargets) + Total(queued, NumTargets) + held
  BY <1>1, BatchSplits
<1>3. /\ balance' = balance - Total(paid, NumTargets)
      /\ deposited' = [t \in Targets |-> deposited[t] + paid[t]]
      /\ queue' = [queue EXCEPT ![QueueKey] = queued]
      /\ withheldAmount' = withheldAmount + held
      /\ stakingBatchNonce' = stakingBatchNonce + 1
  BY DEF _processData
<1> HIDE DEF accepted
<1>4. paid \in [Targets -> Nat] /\ Total(paid, NumTargets) \in 0..balance
  BY <1>1, <1>2, BalanceLoop
<1> HIDE DEF paid, queued, held
<1>5. /\ QueueKey \in Batches /\ queue[QueueKey] = NoAmounts
      /\ QueueKey = stakingBatchNonce + 1 /\ QueueKey <= batches
      /\ NumNonEmpty(data') = NumNonEmpty(data) - 1
  BY QueueKeyFree
<1>6. Total(queued, NumTargets) \in Nat
  <2>1. queued \in [1..NumTargets -> Nat]
    BY <1>2, BridgeSets
  <2>2. QED
    BY <2>1, BridgeSets, TotalNonNegative
<1>7. /\ GrandTotal(data') = GrandTotal(data) - Total(data[b], NumTargets)
      /\ GrandTotal(queue') = GrandTotal(queue) + Total(queued, NumTargets)
  <2>1. data \in [Batches -> [Targets -> Nat]] /\ queue \in [Batches -> [Targets -> Nat]]
    BY DEF Inv, TypeOK
  <2>2. GrandTotal(data') = GrandTotal(data) - Total(data[b], NumTargets) + Total(NoAmounts, NumTargets)
    BY <1>1, <2>1, GrandTotalExcept
  <2>3. GrandTotal(queue')
          = GrandTotal(queue) - Total(queue[QueueKey], NumTargets) + Total(queued, NumTargets)
    BY <1>2, <1>3, <1>5, <2>1, GrandTotalExcept
  <2>4. Total(NoAmounts, NumTargets) = 0
    BY NoAmountsTotal
  <2>5. Total(data[b], NumTargets) \in Nat
    BY <1>2, <1>4, <1>6
  <2>6. QED
    BY <1>5, <1>6, <2>2, <2>3, <2>4, <2>5, <1>0 DEF Sums
<1>8. TypeOK'
  <2>1. data' \in [Batches -> [Targets -> Nat]] /\ queue' \in [Batches -> [Targets -> Nat]]
    BY <1>1, <1>2, <1>3, <1>5 DEF Inv, TypeOK
  <2>2. deposited' \in [Targets -> Nat]
    BY <1>3, <1>4 DEF Inv, TypeOK
  <2>3. balance' \in Nat /\ withheldAmount' \in Nat
    BY <1>1, <1>2, <1>3, <1>4 DEF Inv, TypeOK
  <2>4. stakingBatchNonce' \in 0..batches'
    BY <1>3, <1>5, <1>0 DEF l1Vars, Sums
  <2>5. lost' \in SUBSET ({"data", "olas", "sync"} \X (Batches \cup Syncs))
    BY DEF Inv, TypeOK
  <2>6. QED
    BY <2>1, <2>2, <2>3, <2>4, <2>5 DEF Inv, TypeOK, l1Vars, ownerVars
<1>9. Fresh'
  <2>1. \A i \in Batches : i > batches => data'[i] = NoAmounts
    BY DEF Inv, TypeOK, Fresh
  <2>2. \A n \in Batches : n > stakingBatchNonce' => queue'[n] = NoAmounts
    BY <1>3, <1>5, <1>0 DEF Inv, TypeOK, Fresh, Sums
  <2>3. stakingBatchNonce' + NumNonEmpty(data') <= batches
    BY <1>3, <1>5, <1>0 DEF Inv, Fresh, Sums
  <2>4. QED
    BY <2>1, <2>2, <2>3 DEF Inv, Fresh, l1Vars
<1>10. Backed'
  <2> DEFINE p == Total(paid, NumTargets)
  <2>1. /\ p \in Nat /\ p <= balance
        /\ balance' = balance - p
        /\ GrandTotal(data') + GrandTotal(queue') + held = GrandTotal(data) + GrandTotal(queue) - p
        /\ GrandTotal(data') \in Int /\ GrandTotal(queue') \in Int
    BY <1>0, <1>2, <1>3, <1>4, <1>6, <1>7 DEF Sums
  <2>2. UNCHANGED <<withheldL1, syncs, movedOLAS, processorOLAS, olas>>
    BY DEF l1Vars, ownerVars
  <2> HIDE DEF p
  <2>3. Withheld' = Withheld + held /\ Withheld \in Nat
    <3>1. Withheld' = withheldL1' + Total(syncs', MaxSyncs) + withheldAmount'
      BY DEF Withheld
    <3>2. QED
      BY <1>0, <1>2, <1>3, <2>2, <3>1 DEF Withheld, Sums
  <2>4. ClaimedOLAS' = ClaimedOLAS - p /\ ClaimedOLAS \in Nat
    <3>1. ClaimedOLAS' = GrandTotal(data') + GrandTotal(queue') + Withheld'
      BY DEF ClaimedOLAS
    <3>2. ClaimedOLAS = GrandTotal(data) + GrandTotal(queue) + Withheld
      BY DEF ClaimedOLAS
    <3>3. QED
      BY <1>0, <1>2, <2>1, <2>3, <3>1, <3>2 DEF Sums
  <2>5. HeldOLAS' = HeldOLAS - p /\ HeldOLAS \in Nat
    <3>1. HeldOLAS' = balance' + movedOLAS' + processorOLAS' + Total(olas', MaxBatches)
      BY DEF HeldOLAS
    <3>2. HeldOLAS = balance + movedOLAS + processorOLAS + Total(olas, MaxBatches)
      BY DEF HeldOLAS
    <3>3. QED
      BY <1>0, <2>1, <2>2, <3>1, <3>2 DEF Sums
  <2>6. QED
    BY <2>1, <2>2, <2>4, <2>5, LimitsStay DEF Inv, Backed
<1>11. WholeUnits'
  <2> SUFFICES ASSUME LimitsInUnits
               PROVE  /\ Whole(withheldL1') /\ Whole(withheldAmount')
                      /\ \A s \in Syncs : Whole(syncs'[s])
                      /\ \A i \in Batches, t \in Targets : Whole(data'[i][t])
    BY LimitsStay DEF WholeUnits, Whole, Normalize
  <2>1. /\ Whole(withheldL1) /\ Whole(withheldAmount)
        /\ \A s \in Syncs : Whole(syncs[s])
        /\ \A i \in Batches, t \in Targets : Whole(data[i][t])
    BY DEF Inv, WholeUnits
  <2>2. \A t \in Targets : Whole(limits[t])
    BY DEF LimitsInUnits, Whole
  <2>3. Whole(held)
    BY <1>1, <2>1, <2>2, WithheldIsWhole DEF held
  <2>4. Whole(withheldAmount')
    BY <1>0, <1>2, <1>3, <2>1, <2>3, WholeClosed DEF Sums
  <2>5. \A i \in Batches, t \in Targets : Whole(data'[i][t])
    BY <2>1, NormalizeIsWhole DEF Inv, TypeOK, NoAmounts
  <2>6. QED
    BY <2>1, <2>4, <2>5 DEF l1Vars
<1>12. QED
  BY <1>8, <1>9, <1>10, <1>11 DEF Inv

\* What changes both sides alike, or the OLAS side more, keeps the backing.
LEMMA StaysBacked ==
  ASSUME Inv, NEW d \in Int, NEW e \in Int,
         HeldOLAS' = HeldOLAS + d, ClaimedOLAS' = ClaimedOLAS + e,
         d >= e, LimitsInUnits => d = e /\ processorOLAS' = processorOLAS
  PROVE  Backed'
<1>0. Sums
  BY InvSums
<1>1. Withheld \in Nat
  BY <1>0 DEF Sums, Withheld
<1>2. HeldOLAS \in Nat /\ ClaimedOLAS \in Nat
  BY <1>0, <1>1 DEF Sums, HeldOLAS, ClaimedOLAS
<1>3. HeldOLAS' >= ClaimedOLAS'
  BY <1>2 DEF Inv, Backed
<1>4. LimitsInUnits => HeldOLAS' = ClaimedOLAS' /\ processorOLAS' = 0
  BY <1>2 DEF Inv, Backed
<1>5. QED
  BY <1>3, <1>4, LimitsStay DEF Backed

\* Amounts that stay, or are taken away whole, stay in units.
LEMMA StaysWhole ==
  ASSUME Inv,
         LimitsInUnits => /\ Whole(withheldL1') /\ Whole(withheldAmount')
                          /\ \A s \in Syncs : Whole(syncs'[s])
                          /\ \A b \in Batches, t \in Targets : Whole(data'[b][t])
  PROVE  WholeUnits'
BY LimitsStay DEF WholeUnits, Whole, Normalize

\* The sums that Backed compares, after a step.
LEMMA SumsAfter ==
  /\ HeldOLAS' = balance' + movedOLAS' + processorOLAS' + Total(olas', MaxBatches)
  /\ ClaimedOLAS' = GrandTotal(data') + GrandTotal(queue')
                      + (withheldL1' + Total(syncs', MaxSyncs) + withheldAmount')
  /\ HeldOLAS = balance + movedOLAS + processorOLAS + Total(olas, MaxBatches)
  /\ ClaimedOLAS = GrandTotal(data) + GrandTotal(queue)
                      + (withheldL1 + Total(syncs, MaxSyncs) + withheldAmount)
BY DEF HeldOLAS, ClaimedOLAS, Withheld

\* A withheld amount that reaches L1, whole or rounded down, keeps the invariant.
LEMMA SyncedInv ==
  ASSUME Inv, NEW s \in Syncs, NEW amount \in Nat, amount <= syncs[s],
         Whole(syncs[s]) => amount = syncs[s],
         withheldL1 + amount <= MaxWithheld,
         withheldL1' = withheldL1 + amount,
         syncs' = [syncs EXCEPT ![s] = 0],
         lost' \subseteq lost,
         UNCHANGED <<batches, processorOLAS, data, olas, numSyncs, l2Vars, ownerVars>>
  PROVE  Inv'
<1>0. Sums
  BY InvSums
<1>1. syncs[s] \in Nat /\ syncs' \in [Syncs -> Nat]
  BY DEF Inv, TypeOK
<1>2. Total(syncs', MaxSyncs) = Total(syncs, MaxSyncs) - syncs[s]
  <2>1. syncs \in [1..MaxSyncs -> Int] /\ s \in 1..MaxSyncs /\ MaxSyncs \in Nat /\ 0 \in Int
    BY BridgeSets DEF Inv, TypeOK
  <2>2. Total([syncs EXCEPT ![s] = 0], MaxSyncs) = Total(syncs, MaxSyncs) - syncs[s] + 0
    BY <2>1, TotalExcept
  <2>3. QED
    BY <1>0, <1>1, <2>2 DEF Sums
<1>3. TypeOK'
  <2>1. withheldL1' \in 0..MaxWithheld
    BY <1>0, BridgeSets DEF Sums
  <2>2. lost' \in SUBSET ({"data", "olas", "sync"} \X (Batches \cup Syncs))
    BY DEF Inv, TypeOK
  <2>3. QED
    BY <1>1, <2>1, <2>2 DEF Inv, TypeOK, l2Vars, ownerVars
<1>4. Fresh'
  <2>1. \A i \in Syncs : i > numSyncs => syncs'[i] = 0
    BY DEF Inv, TypeOK, Fresh
  <2>2. QED
    BY <2>1 DEF Inv, Fresh, l2Vars
<1>5. Backed'
  <2>1. HeldOLAS' = HeldOLAS + 0
    BY <1>0, SumsAfter DEF Sums, l2Vars, ownerVars
  <2>2. UNCHANGED <<data, queue, withheldAmount>>
    BY DEF l2Vars
  <2>3. ClaimedOLAS' = ClaimedOLAS + (amount - syncs[s])
    BY <1>0, <1>1, <1>2, <2>2, SumsAfter DEF Sums
  <2>4. amount - syncs[s] \in Int /\ 0 >= amount - syncs[s]
        /\ (LimitsInUnits => 0 = amount - syncs[s])
    BY <1>1 DEF Inv, WholeUnits
  <2>5. QED
    BY <2>1, <2>3, <2>4, StaysBacked
<1>6. WholeUnits'
  <2> SUFFICES ASSUME LimitsInUnits
               PROVE  /\ Whole(withheldL1') /\ Whole(withheldAmount')
                      /\ \A i \in Syncs : Whole(syncs'[i])
                      /\ \A b \in Batches, t \in Targets : Whole(data'[b][t])
    BY StaysWhole
  <2>1. /\ Whole(withheldL1) /\ Whole(withheldAmount)
        /\ \A i \in Syncs : Whole(syncs[i])
        /\ \A b \in Batches, t \in Targets : Whole(data[b][t])
    BY DEF Inv, WholeUnits
  <2>2. amount = syncs[s]
    BY <2>1
  <2>3. Whole(withheldL1')
    BY <1>0, <2>1, <2>2, WholeClosed DEF Sums
  <2>4. \A i \in Syncs : Whole(syncs'[i])
    BY <2>1, NormalizeIsWhole DEF Inv, TypeOK
  <2>5. QED
    BY <2>1, <2>3, <2>4 DEF l2Vars
<1>7. QED
  BY <1>3, <1>4, <1>5, <1>6 DEF Inv

\* syncWithheldAmount adds the whole amount.
LEMMA SyncWithheldAmountInv ==
  ASSUME Inv, NEW s \in Syncs, syncWithheldAmount(s)
  PROVE  Inv'
<1> DEFINE amount == syncs[s]
<1>1. amount \in Nat /\ amount <= syncs[s] /\ (Whole(syncs[s]) => amount = syncs[s])
  BY DEF Inv, TypeOK
<1>2. /\ withheldL1 + amount <= MaxWithheld
      /\ withheldL1' = withheldL1 + amount
      /\ syncs' = [syncs EXCEPT ![s] = 0]
      /\ lost' \subseteq lost
      /\ UNCHANGED <<batches, processorOLAS, data, olas, numSyncs, l2Vars, ownerVars>>
  BY DEF syncWithheldAmount
<1> HIDE DEF amount
<1>3. QED
  BY <1>1, <1>2, SyncedInv

\* syncWithheldAmountMaintenance may round the amount down.
LEMMA SyncWithheldAmountMaintenanceInv ==
  ASSUME Inv, NEW s \in Syncs, syncWithheldAmountMaintenance(s)
  PROVE  Inv'
<1> DEFINE amount == Normalize(syncs[s])
<1>1. amount \in Nat /\ amount <= syncs[s] /\ (Whole(syncs[s]) => amount = syncs[s])
  BY NormalizeBounds DEF Inv, TypeOK, Whole
<1>2. /\ withheldL1 + amount <= MaxWithheld
      /\ withheldL1' = withheldL1 + amount
      /\ syncs' = [syncs EXCEPT ![s] = 0]
      /\ lost' \subseteq lost
      /\ UNCHANGED <<batches, processorOLAS, data, olas, numSyncs, l2Vars, ownerVars>>
  BY DEF syncWithheldAmountMaintenance
<1> HIDE DEF amount
<1>3. QED
  BY <1>1, <1>2, SyncedInv

\* A message that the bridge delivers keeps the invariant.
LEMMA ReceiveMessageInv ==
  ASSUME Inv, NEW b \in Batches, NEW limits \in [Targets -> Limits], receiveMessage(b, limits)
  PROVE  Inv'
<1>1. /\ Undelivered(b) /\ _processData(data[b], limits)
      /\ data' = [data EXCEPT ![b] = NoAmounts] /\ lost' \subseteq lost
      /\ UNCHANGED <<l1Vars, olas, syncs, numSyncs, ownerVars>>
  BY DEF receiveMessage
<1>2. QED
  BY <1>1, ProcessedInv

\* Data that the DAO provides keeps the invariant.
LEMMA ProcessDataMaintenanceInv ==
  ASSUME Inv, NEW b \in Batches, NEW limits \in [Targets -> Limits],
         processDataMaintenance(b, limits)
  PROVE  Inv'
<1>1. /\ Undelivered(b) /\ _processData(data[b], limits)
      /\ data' = [data EXCEPT ![b] = NoAmounts] /\ lost' \subseteq lost
      /\ UNCHANGED <<l1Vars, olas, syncs, numSyncs, ownerVars>>
  BY DEF processDataMaintenance
<1>2. QED
  BY <1>1, ProcessedInv

\* redeem pays one queued request and clears it.
LEMMA RedeemInv ==
  ASSUME Inv, NEW n \in Batches, NEW t \in Targets, redeem(n, t)
  PROVE  Inv'
<1> DEFINE amount == queue[n][t]
           new    == [queue[n] EXCEPT ![t] = 0]
<1>0. Sums
  BY InvSums
<1>1. /\ queue \in [Batches -> [Targets -> Nat]] /\ queue[n] \in [Targets -> Nat]
      /\ amount \in Nat /\ new \in [Targets -> Nat] /\ deposited \in [Targets -> Nat]
  BY DEF Inv, TypeOK
<1>2. /\ amount > 0 /\ amount <= balance
      /\ balance' = balance - amount
      /\ deposited' = [deposited EXCEPT ![t] = @ + amount]
      /\ queue' = [queue EXCEPT ![n] = new]
      /\ UNCHANGED <<l1Vars, bridgeVars, withheldAmount, stakingBatchNonce, ownerVars>>
  BY <1>0, <1>1 DEF redeem, Sums
<1>3. Total(new, NumTargets) = Total(queue[n], NumTargets) - amount
  <2>1. queue[n] \in [1..NumTargets -> Int] /\ t \in 1..NumTargets /\ NumTargets \in Nat /\ 0 \in Int
    BY <1>1, BridgeSets
  <2>2. Total(new, NumTargets) = Total(queue[n], NumTargets) - amount + 0
    BY <2>1, TotalExcept
  <2>3. Total(queue[n], NumTargets) \in Int
    BY <2>1, TotalType
  <2>4. QED
    BY <1>1, <2>2, <2>3
<1>4. GrandTotal(queue') = GrandTotal(queue) - amount
  <2>1. GrandTotal(queue') = GrandTotal(queue) - Total(queue[n], NumTargets) + Total(new, NumTargets)
    BY <1>1, <1>2, GrandTotalExcept
  <2>2. Total(queue[n], NumTargets) \in Int
    <3>1. queue[n] \in [1..NumTargets -> Int] /\ NumTargets \in Nat
      BY <1>1, BridgeSets
    <3>2. QED
      BY <3>1, TotalType
  <2>3. QED
    BY <1>0, <1>1, <1>3, <2>1, <2>2 DEF Sums
<1> HIDE DEF amount, new
<1>5. TypeOK'
  <2>1. queue' \in [Batches -> [Targets -> Nat]]
    BY <1>1, <1>2
  <2>2. deposited' \in [Targets -> Nat]
    BY <1>1, <1>2
  <2>3. balance' \in Nat
    BY <1>0, <1>1, <1>2 DEF Sums
  <2>4. QED
    BY <1>2, <2>1, <2>2, <2>3 DEF Inv, TypeOK, l1Vars, bridgeVars, ownerVars
<1>6. Fresh'
  <2>1. n <= stakingBatchNonce
    <3>1. queue[n] # NoAmounts
      BY <1>2 DEF NoAmounts, amount
    <3>2. n \in Nat
      BY BridgeSets
    <3>3. QED
      BY <1>0, <3>1, <3>2 DEF Inv, Fresh, Sums
  <2>2. \A i \in Batches : i > stakingBatchNonce => queue'[i] = queue[i]
    <3>1. \A i \in Batches : i > stakingBatchNonce => i # n
      BY <1>0, <2>1, BridgeSets DEF Sums
    <3>2. QED
      BY <1>1, <1>2, <3>1
  <2>3. QED
    BY <1>2, <2>2 DEF Inv, Fresh, l1Vars, bridgeVars
<1>7. Backed'
  <2>1. UNCHANGED <<data, olas, syncs, withheldL1, withheldAmount, movedOLAS, processorOLAS>>
    BY <1>2 DEF l1Vars, bridgeVars, ownerVars
  <2>2. HeldOLAS' = HeldOLAS + (0 - amount)
    BY <1>0, <1>1, <1>2, <2>1, SumsAfter DEF Sums
  <2>3. ClaimedOLAS' = ClaimedOLAS + (0 - amount)
    BY <1>0, <1>1, <1>4, <2>1, SumsAfter DEF Sums
  <2>4. 0 - amount \in Int
    BY <1>1
  <2>5. QED
    BY <2>1, <2>2, <2>3, <2>4, StaysBacked
<1>8. WholeUnits'
  BY <1>2, StaysWhole DEF Inv, WholeUnits, l1Vars, bridgeVars
<1>9. QED
  BY <1>5, <1>6, <1>7, <1>8 DEF Inv

\* syncWithheldTokens moves the withheld amount into a message.
LEMMA SyncWithheldTokensInv ==
  ASSUME Inv, syncWithheldTokens
  PROVE  Inv'
<1> DEFINE s == numSyncs + 1
<1>0. Sums
  BY InvSums
<1>1. s \in Syncs /\ s > numSyncs /\ s \in 0..MaxSyncs
  BY <1>0, BridgeSets DEF Sums, syncWithheldTokens
<1>2. /\ numSyncs' = s
      /\ syncs' = [syncs EXCEPT ![s] = withheldAmount]
      /\ withheldAmount' = 0
      /\ UNCHANGED <<l1Vars, data, olas, lost, balance, stakingBatchNonce, queue, deposited, ownerVars>>
  BY DEF syncWithheldTokens, WithheldAfterSync
<1>3. syncs \in [Syncs -> Nat] /\ syncs[s] = 0 /\ withheldAmount \in Nat
  BY <1>1 DEF Inv, TypeOK, Fresh
<1> HIDE DEF s
<1>4. Total(syncs', MaxSyncs) = Total(syncs, MaxSyncs) + withheldAmount
  <2>1. syncs \in [1..MaxSyncs -> Int] /\ s \in 1..MaxSyncs /\ MaxSyncs \in Nat
        /\ withheldAmount \in Int
    BY <1>1, <1>3, BridgeSets
  <2>2. Total([syncs EXCEPT ![s] = withheldAmount], MaxSyncs)
          = Total(syncs, MaxSyncs) - syncs[s] + withheldAmount
    BY <2>1, TotalExcept
  <2>3. QED
    BY <1>0, <1>2, <1>3, <2>2 DEF Sums
<1>5. TypeOK'
  BY <1>1, <1>2, <1>3 DEF Inv, TypeOK, l1Vars, ownerVars
<1>6. Fresh'
  <2>1. \A i \in Syncs : i > s => syncs'[i] = 0
    <3>1. \A i \in Syncs : i > s => i # s /\ i > numSyncs
      BY <1>0, <1>1, BridgeSets DEF Sums
    <3>2. QED
      BY <1>2, <1>3, <3>1 DEF Inv, Fresh
  <2>2. QED
    BY <1>2, <2>1 DEF Inv, Fresh, l1Vars
<1>7. Backed'
  <2>1. UNCHANGED <<data, queue, olas, balance, withheldL1, movedOLAS, processorOLAS>>
    BY <1>2 DEF l1Vars, ownerVars
  <2>2. HeldOLAS' = HeldOLAS + 0
    BY <1>0, <2>1, SumsAfter DEF Sums
  <2>3. ClaimedOLAS' = ClaimedOLAS + 0
    BY <1>0, <1>2, <1>4, <2>1, SumsAfter DEF Sums
  <2>4. QED
    BY <2>1, <2>2, <2>3, StaysBacked
<1>8. WholeUnits'
  <2> SUFFICES ASSUME LimitsInUnits
               PROVE  /\ Whole(withheldL1') /\ Whole(withheldAmount')
                      /\ \A i \in Syncs : Whole(syncs'[i])
                      /\ \A b \in Batches, t \in Targets : Whole(data'[b][t])
    BY StaysWhole
  <2>1. /\ Whole(withheldL1) /\ Whole(withheldAmount)
        /\ \A i \in Syncs : Whole(syncs[i])
        /\ \A b \in Batches, t \in Targets : Whole(data[b][t])
    BY DEF Inv, WholeUnits
  <2>2. \A i \in Syncs : Whole(syncs'[i])
    BY <1>2, <1>3, <2>1
  <2>3. QED
    BY <1>2, <2>1, <2>2, NormalizeIsWhole DEF l1Vars
<1>9. QED
  BY <1>5, <1>6, <1>7, <1>8 DEF Inv

\* OLAS that arrives leaves the bridge for the balance.
LEMMA ArriveOLASInv ==
  ASSUME Inv, NEW b \in Batches, ArriveOLAS(b)
  PROVE  Inv'
<1>0. Sums
  BY InvSums
<1>1. olas \in [Batches -> Nat] /\ olas[b] \in Nat
  BY DEF Inv, TypeOK
<1>2. /\ balance' = balance + olas[b]
      /\ olas' = [olas EXCEPT ![b] = 0]
      /\ lost' \subseteq lost
      /\ UNCHANGED <<l1Vars, data, syncs, numSyncs, withheldAmount, stakingBatchNonce, queue,
                     deposited, ownerVars>>
  BY DEF ArriveOLAS
<1>3. Total(olas', MaxBatches) = Total(olas, MaxBatches) - olas[b]
  <2>1. olas \in [1..MaxBatches -> Int] /\ b \in 1..MaxBatches /\ MaxBatches \in Nat /\ 0 \in Int
    BY <1>1, BridgeSets
  <2>2. Total([olas EXCEPT ![b] = 0], MaxBatches) = Total(olas, MaxBatches) - olas[b] + 0
    BY <2>1, TotalExcept
  <2>3. QED
    BY <1>0, <1>1, <1>2, <2>2 DEF Sums
<1>4. TypeOK'
  <2>1. balance' \in Nat /\ olas' \in [Batches -> Nat]
    BY <1>0, <1>1, <1>2 DEF Sums
  <2>2. lost' \in SUBSET ({"data", "olas", "sync"} \X (Batches \cup Syncs))
    BY <1>2 DEF Inv, TypeOK
  <2>3. QED
    BY <1>2, <2>1, <2>2 DEF Inv, TypeOK, l1Vars, ownerVars
<1>5. Fresh'
  <2>1. \A i \in Batches : i > batches => olas'[i] = 0
    BY <1>1, <1>2 DEF Inv, Fresh
  <2>2. QED
    BY <1>2, <2>1 DEF Inv, Fresh, l1Vars
<1>6. Backed'
  <2>1. UNCHANGED <<data, queue, syncs, withheldL1, withheldAmount, movedOLAS, processorOLAS>>
    BY <1>2 DEF l1Vars, ownerVars
  <2>2. HeldOLAS' = HeldOLAS + 0
    BY <1>0, <1>1, <1>2, <1>3, <2>1, SumsAfter DEF Sums
  <2>3. ClaimedOLAS' = ClaimedOLAS + 0
    BY <1>0, <2>1, SumsAfter DEF Sums
  <2>4. QED
    BY <2>1, <2>2, <2>3, StaysBacked
<1>7. WholeUnits'
  BY <1>2, StaysWhole DEF Inv, WholeUnits, l1Vars
<1>8. QED
  BY <1>4, <1>5, <1>6, <1>7 DEF Inv

\* pause, unpause, migrate and a failing transfer leave every amount where it
\* is, but for the balance that migrate sends on.
LEMMA OwnerInv ==
  ASSUME Inv, paused' \in BOOLEAN, migrated' \in BOOLEAN,
         lost' \in SUBSET ({"data", "olas", "sync"} \X (Batches \cup Syncs)),
         balance' \in Nat, movedOLAS' \in Nat,
         balance' + movedOLAS' = balance + movedOLAS,
         UNCHANGED <<l1Vars, data, olas, syncs, numSyncs, withheldAmount, stakingBatchNonce,
                     queue, deposited>>
  PROVE  Inv'
<1>0. Sums
  BY InvSums
<1>1. TypeOK'
  BY DEF Inv, TypeOK, l1Vars
<1>2. Fresh'
  BY DEF Inv, Fresh, l1Vars
<1>3. Backed'
  <2>1. UNCHANGED <<withheldL1, processorOLAS>>
    BY DEF l1Vars
  <2>2. HeldOLAS' = HeldOLAS + 0
    <3>1. HeldOLAS' = balance' + movedOLAS' + processorOLAS + Total(olas, MaxBatches)
      BY <2>1 DEF HeldOLAS
    <3>2. HeldOLAS = balance + movedOLAS + processorOLAS + Total(olas, MaxBatches)
      BY DEF HeldOLAS
    <3>3. balance' + movedOLAS' = balance + movedOLAS
      OBVIOUS
    <3>4. HeldOLAS \in Nat
      BY <1>0, <3>2 DEF Sums
    <3>5. HeldOLAS' = HeldOLAS
      BY <3>1, <3>2, <3>3
    <3>6. QED
      BY <3>4, <3>5
  <2>3. ClaimedOLAS' = ClaimedOLAS + 0
    BY <1>0, <2>1, SumsAfter DEF Sums
  <2>4. QED
    BY <2>1, <2>2, <2>3, StaysBacked
<1>4. WholeUnits'
  BY StaysWhole DEF Inv, WholeUnits, l1Vars
<1>5. QED
  BY <1>1, <1>2, <1>3, <1>4 DEF Inv

\* A claim for every target of the chain, up to an amount that was withheld.
LEMMA ClaimInv ==
  ASSUME Inv, NEW claimed \in [Targets -> Incentives], claimStakingIncentives(claimed)
  PROVE  Inv'
<1> DEFINE amounts  == StakingIncentives(claimed)
           total    == Total(amounts, NumTargets)
           used     == WithheldUsed(total)
           transfer == TransferAmount(total)
           sent     == Normalize(transfer)
           b        == batches + 1
<1>0. Sums
  BY InvSums
<1>1. amounts \in [Targets -> Nat] /\ \A t \in Targets : Whole(amounts[t])
  <2>1. \A t \in Targets : claimed[t] \in Nat
    BY BridgeAssumption
  <2>2. \A t \in Targets : Normalize(claimed[t]) \in Nat /\ Whole(Normalize(claimed[t]))
    BY <2>1, NormalizeBounds, NormalizeIsWhole
  <2>3. QED
    BY <2>2 DEF StakingIncentives
<1>2. /\ total > 0 /\ b <= MaxBatches
      /\ batches' = b
      /\ withheldL1' = withheldL1 - used
      /\ data' = [data EXCEPT ![b] = amounts]
      /\ olas' = [olas EXCEPT ![b] = sent]
      /\ processorOLAS' = processorOLAS + transfer - sent
      /\ UNCHANGED <<syncs, numSyncs, lost, l2Vars, ownerVars>>
  <2>1. batches < MaxBatches
    BY DEF claimStakingIncentives
  <2>2. b <= MaxBatches
    BY <1>0, <2>1, BridgeSets DEF Sums
  <2>3. QED
    BY <2>2 DEF claimStakingIncentives, WithheldLeft
<1> HIDE DEF amounts
<1>3. total \in Nat
  <2>1. amounts \in [1..NumTargets -> Nat] /\ NumTargets \in Nat
    BY <1>1, BridgeSets
  <2>2. QED
    BY <2>1, TotalNonNegative
<1>w. Whole(total)
  BY <1>1, WholeTotal
<1> HIDE DEF total
<1>4. /\ used \in Nat /\ used <= total /\ used <= withheldL1
      /\ transfer = total - used
  BY <1>0, <1>3 DEF Sums, WithheldUsed, TransferAmount, Least
<1>u. LimitsInUnits => Whole(used)
  BY <1>0, <1>3, <1>w, WholeClosed DEF Inv, WholeUnits, Sums, WithheldUsed
<1> HIDE DEF used, transfer
<1>5. transfer \in Nat /\ (LimitsInUnits => Whole(transfer))
  BY <1>3, <1>4, <1>w, <1>u, WholeClosed
<1>6. sent \in Nat /\ sent <= transfer /\ (LimitsInUnits => sent = transfer)
  BY <1>5, NormalizeBounds DEF Whole
<1> HIDE DEF sent
<1>7. /\ b \in Batches /\ b > batches /\ b \in 0..MaxBatches
      /\ data[b] = NoAmounts /\ olas[b] = 0
  <2>1. b \in Batches /\ b > batches /\ b \in 0..MaxBatches
    BY <1>0, <1>2, BridgeSets DEF Sums
  <2>2. QED
    BY <2>1 DEF Inv, Fresh
<1>8. data \in [Batches -> [Targets -> Nat]] /\ olas \in [Batches -> Nat]
  BY DEF Inv, TypeOK
<1> HIDE DEF b
<1>9. GrandTotal(data') = GrandTotal(data) + total
  <2>1. GrandTotal([data EXCEPT ![b] = amounts])
          = GrandTotal(data) - Total(data[b], NumTargets) + Total(amounts, NumTargets)
    BY <1>1, <1>7, <1>8, GrandTotalExcept
  <2>2. Total(data[b], NumTargets) = 0
    BY <1>7, NoAmountsTotal
  <2>3. QED
    BY <1>0, <1>2, <1>3, <2>1, <2>2 DEF Sums, total
<1>10. Total(olas', MaxBatches) = Total(olas, MaxBatches) + sent
  <2>1. olas \in [1..MaxBatches -> Int] /\ b \in 1..MaxBatches /\ MaxBatches \in Nat /\ sent \in Int
    BY <1>6, <1>7, <1>8, BridgeSets
  <2>2. Total([olas EXCEPT ![b] = sent], MaxBatches) = Total(olas, MaxBatches) - olas[b] + sent
    BY <2>1, TotalExcept
  <2>3. QED
    BY <1>0, <1>2, <1>6, <1>7, <2>2 DEF Sums
<1>11. NumNonEmpty(data') <= NumNonEmpty(data) + 1
  <2>1. NumNonEmpty([data EXCEPT ![b] = amounts])
          = NumNonEmpty(data) - (IF data[b] # NoAmounts THEN 1 ELSE 0)
              + (IF amounts # NoAmounts THEN 1 ELSE 0)
    BY <1>1, <1>7, <1>8, NumNonEmptyExcept
  <2>2. NumNonEmpty(data) \in Nat
    BY <1>0 DEF Sums
  <2>3. QED
    BY <1>2, <1>7, <2>1, <2>2
<1>12. TypeOK'
  <2>1. data' \in [Batches -> [Targets -> Nat]] /\ olas' \in [Batches -> Nat]
    BY <1>1, <1>2, <1>6, <1>8
  <2>2. withheldL1' \in 0..MaxWithheld
    <3>1. withheldL1 <= MaxWithheld
      BY <1>0, BridgeSets DEF Inv, TypeOK, Sums
    <3>2. QED
      BY <1>0, <1>2, <1>4, <3>1, BridgeSets DEF Sums
  <2>3. processorOLAS' \in Nat
    BY <1>0, <1>2, <1>5, <1>6 DEF Sums
  <2>4. stakingBatchNonce \in 0..batches'
    <3>1. stakingBatchNonce <= batches
      BY <1>0 DEF Inv, TypeOK, Sums
    <3>2. QED
      BY <1>0, <1>2, <3>1 DEF Sums, b
  <2>5. QED
    BY <1>2, <1>7, <2>1, <2>2, <2>3, <2>4 DEF Inv, TypeOK, l2Vars, ownerVars
<1>13. Fresh'
  <2>1. \A i \in Batches : i > b => data'[i] = NoAmounts /\ olas'[i] = 0
    <3>1. \A i \in Batches : i > b => i # b /\ i > batches
      BY <1>0, <1>7, BridgeSets DEF Sums
    <3>2. QED
      BY <1>2, <1>8, <3>1 DEF Inv, Fresh
  <2>2. stakingBatchNonce + NumNonEmpty(data') <= b
    <3>1. NumNonEmpty(data') \in Nat
      <4>1. data' \in [Batches -> [Targets -> Nat]]
        BY <1>1, <1>2, <1>8
      <4>2. QED
        BY <1>7, <4>1, NoAmountsTotal, NumNonEmptyExcept
    <3>2. stakingBatchNonce + NumNonEmpty(data) <= batches
      BY DEF Inv, Fresh
    <3>3. QED
      BY <1>0, <1>11, <3>1, <3>2 DEF Sums, b
  <2>3. QED
    BY <1>2, <2>1, <2>2 DEF Inv, Fresh, l2Vars
<1>14. Backed'
  <2>1. UNCHANGED <<queue, balance, syncs, withheldAmount, movedOLAS>>
    BY <1>2 DEF l2Vars, ownerVars
  <2>2. HeldOLAS' = HeldOLAS + transfer
    BY <1>0, <1>2, <1>5, <1>6, <1>10, <2>1, SumsAfter DEF Sums
  <2>3. ClaimedOLAS' = ClaimedOLAS + transfer
    BY <1>0, <1>2, <1>3, <1>4, <1>9, <2>1, SumsAfter DEF Sums
  <2>4. transfer \in Int /\ transfer >= transfer
        /\ (LimitsInUnits => processorOLAS' = processorOLAS)
    BY <1>0, <1>2, <1>5, <1>6 DEF Sums
  <2>5. QED
    BY <2>2, <2>3, <2>4, StaysBacked
<1>15. WholeUnits'
  <2> SUFFICES ASSUME LimitsInUnits
               PROVE  /\ Whole(withheldL1') /\ Whole(withheldAmount')
                      /\ \A s \in Syncs : Whole(syncs'[s])
                      /\ \A i \in Batches, t \in Targets : Whole(data'[i][t])
    BY StaysWhole
  <2>1. /\ Whole(withheldL1) /\ Whole(withheldAmount)
        /\ \A s \in Syncs : Whole(syncs[s])
        /\ \A i \in Batches, t \in Targets : Whole(data[i][t])
    BY DEF Inv, WholeUnits
  <2>2. Whole(withheldL1')
    BY <1>0, <1>2, <1>4, <1>u, <2>1, WholeClosed DEF Sums
  <2>3. \A i \in Batches, t \in Targets : Whole(data'[i][t])
    BY <1>1, <1>2, <1>8, <2>1
  <2>4. QED
    BY <1>2, <2>1, <2>2, <2>3 DEF l2Vars
<1>16. QED
  BY <1>12, <1>13, <1>14, <1>15 DEF Inv

-----------------------------------------------------------------------------
(* Theorems                                                                 *)

\* Every call and every event of the bridge preserves the invariant.
THEOREM InvHolds == Spec => []Inv
<1>1. Inv /\ [Next]_vars => Inv'
  <2> SUFFICES ASSUME Inv, [Next]_vars
               PROVE  Inv'
    OBVIOUS
  <2>0. /\ paused \in BOOLEAN /\ migrated \in BOOLEAN /\ balance \in Nat /\ movedOLAS \in Nat
        /\ lost \in SUBSET ({"data", "olas", "sync"} \X (Batches \cup Syncs))
    BY DEF Inv, TypeOK
  <2>1. CASE \E claimed \in [Targets -> Incentives] : claimStakingIncentives(claimed)
    BY <2>1, ClaimInv
  <2>2. CASE \E s \in Syncs : syncWithheldAmount(s)
    BY <2>2, SyncWithheldAmountInv
  <2>3. CASE \E s \in Syncs : syncWithheldAmountMaintenance(s)
    BY <2>3, SyncWithheldAmountMaintenanceInv
  <2>4. CASE \E b \in Batches, limits \in [Targets -> Limits] : receiveMessage(b, limits)
    BY <2>4, ReceiveMessageInv
  <2>5. CASE \E b \in Batches, limits \in [Targets -> Limits] : processDataMaintenance(b, limits)
    BY <2>5, ProcessDataMaintenanceInv
  <2>6. CASE \E n \in Batches, t \in Targets : redeem(n, t)
    BY <2>6, RedeemInv
  <2>7. CASE syncWithheldTokens
    BY <2>7, SyncWithheldTokensInv
  <2>8. CASE pause
    BY <2>0, <2>8, OwnerInv DEF pause, bridgeVars, l2Vars
  <2>9. CASE unpause
    BY <2>0, <2>9, OwnerInv DEF unpause, bridgeVars, l2Vars
  <2>10. CASE migrate
    BY <2>0, <2>10, OwnerInv DEF migrate, bridgeVars
  <2>11. CASE \E b \in Batches : ArriveOLAS(b)
    BY <2>11, ArriveOLASInv
  <2>12. CASE \E transfer \in InTransit : Lose(transfer)
    <3>1. InTransit \subseteq {"data", "olas", "sync"} \X (Batches \cup Syncs)
      BY DEF InTransit
    <3>2. lost' \in SUBSET ({"data", "olas", "sync"} \X (Batches \cup Syncs))
      BY <2>0, <2>12, <3>1 DEF Lose
    <3>3. QED
      BY <2>0, <2>12, <3>2, OwnerInv DEF Lose, l2Vars, ownerVars
  <2>13. CASE UNCHANGED vars
    BY <2>0, <2>13, OwnerInv DEF vars, bridgeVars, l2Vars, ownerVars
  <2>14. QED
    BY <2>1, <2>2, <2>3, <2>4, <2>5, <2>6, <2>7, <2>8, <2>9, <2>10, <2>11, <2>12, <2>13 DEF Next
<1>2. QED
  BY <1>1, InitInv, PTL DEF Spec

\* Amounts stay within their types; the target dispenser never pays more than
\* it holds.
THEOREM TypeCorrect == Spec => []TypeOK
BY InvHolds, PTL DEF Inv

\* Whatever is lost, reordered, restored, queued or migrated, OLAS backs every
\* batch on the way, every queued request and every withheld amount.
THEOREM IncentivesBacked == Spec => []Backed
BY InvHolds, PTL DEF Inv

\* No step of a paused target dispenser pays a target or sends a withheld
\* amount, as the loop of _processData queues everything then.
THEOREM PausedPaysNothingHolds == Spec => PausedPaysNothing
<1> DEFINE Kept == paused => deposited' = deposited /\ numSyncs' = numSyncs
<1>1. ASSUME Inv, [Next]_vars
      PROVE  Kept \/ UNCHANGED vars
  <2> SUFFICES ASSUME paused, ~ UNCHANGED vars
               PROVE  deposited' = deposited /\ numSyncs' = numSyncs
    OBVIOUS
  <2>1. ASSUME NEW b \in Batches, NEW limits \in [Targets -> Limits],
               _processData(data[b], limits)
        PROVE  deposited' = deposited
    <3> DEFINE accepted == Accepted(data[b], limits)
    <3>1. /\ data[b] \in [Targets -> Nat] /\ limits \in [Targets -> Nat] /\ balance \in Nat
          /\ deposited \in [Targets -> Nat]
      BY <1>1, BridgeAssumption DEF Inv, TypeOK
    <3>2. accepted \in [Targets -> Nat]
      BY <3>1, BatchSplits
    <3>3. deposited' = [t \in Targets |-> deposited[t] + Paid(accepted)[t]]
      BY <2>1 DEF _processData
    <3> HIDE DEF accepted
    <3>4. Paid(accepted) = NoAmounts
      BY <3>1, <3>2, BalanceLoop
    <3>5. deposited' = [t \in Targets |-> deposited[t]]
      BY <3>1, <3>3, <3>4 DEF NoAmounts
    <3>6. QED
      BY <3>1, <3>5
  <2>2. CASE \E claimed \in [Targets -> Incentives] : claimStakingIncentives(claimed)
    BY <2>2 DEF claimStakingIncentives, l2Vars
  <2>3. CASE \E s \in Syncs : syncWithheldAmount(s) \/ syncWithheldAmountMaintenance(s)
    BY <2>3 DEF syncWithheldAmount, syncWithheldAmountMaintenance, l2Vars
  <2>4. CASE \E b \in Batches, limits \in [Targets -> Limits] :
               receiveMessage(b, limits) \/ processDataMaintenance(b, limits)
    <3>1. PICK b \in Batches, limits \in [Targets -> Limits] :
                 receiveMessage(b, limits) \/ processDataMaintenance(b, limits)
      BY <2>4
    <3>2. _processData(data[b], limits) /\ numSyncs' = numSyncs
      BY <3>1 DEF receiveMessage, processDataMaintenance
    <3>3. QED
      BY <2>1, <3>2
  <2>5. CASE (\E n \in Batches, t \in Targets : redeem(n, t)) \/ syncWithheldTokens
    BY <2>5 DEF redeem, syncWithheldTokens
  <2>6. CASE pause \/ unpause \/ migrate
    BY <2>6 DEF pause, unpause, migrate, bridgeVars, l2Vars
  <2>7. CASE (\E b \in Batches : ArriveOLAS(b)) \/ \E transfer \in InTransit : Lose(transfer)
    BY <2>7 DEF ArriveOLAS, Lose, l2Vars
  <2>8. QED
    BY <1>1, <2>2, <2>3, <2>4, <2>5, <2>6, <2>7 DEF Next
<1>2. QED
  BY <1>1, InvHolds, PTL DEF Spec, PausedPaysNothing

-----------------------------------------------------------------------------
(* The refinement: what is owed to one target is its column of the batches  *)
(* on the way and of the queue.                                             *)

Column(a, t) == Total([b \in Batches |-> a[b][t]], MaxBatches)

\* A column changes with the batch that is replaced.
LEMMA ColumnExcept ==
  ASSUME NEW a \in [Batches -> [Targets -> Nat]], NEW b \in Batches,
         NEW new \in [Targets -> Nat], NEW t \in Targets
  PROVE  Column([a EXCEPT ![b] = new], t) = Column(a, t) - a[b][t] + new[t]
<1> DEFINE f == [i \in Batches |-> a[i][t]]
           g == [i \in Batches |-> [a EXCEPT ![b] = new][i][t]]
<1>1. /\ \A i \in Batches : g[i] = [f EXCEPT ![b] = new[t]][i]
      /\ f[b] = a[b][t]
  OBVIOUS
<1>2. g = [f EXCEPT ![b] = new[t]]
  BY <1>1
<1>3. f \in [1..MaxBatches -> Int] /\ b \in 1..MaxBatches /\ MaxBatches \in Nat /\ new[t] \in Int
  <2>1. \A i \in Batches : a[i][t] \in Nat
    OBVIOUS
  <2>2. QED
    BY <2>1, BridgeSets
<1>4. Column(a, t) = Total(f, MaxBatches) /\ Column([a EXCEPT ![b] = new], t) = Total(g, MaxBatches)
  BY DEF Column
<1> HIDE DEF f, g
<1>5. Total([f EXCEPT ![b] = new[t]], MaxBatches) = Total(f, MaxBatches) - f[b] + new[t]
  BY <1>3, TotalExcept
<1>6. QED
  BY <1>1, <1>2, <1>4, <1>5

\* What is owed to a target is on the way or queued, in any state.
LEMMA OwedColumns ==
  ASSUME NEW a \in [Batches -> [Targets -> Nat]], NEW q \in [Batches -> [Targets -> Nat]],
         NEW t \in Targets
  PROVE  /\ Column(a, t) \in Nat /\ Column(q, t) \in Nat
         /\ Total([b \in Batches |-> a[b][t] + q[b][t]], MaxBatches) = Column(a, t) + Column(q, t)
<1> DEFINE f == [b \in Batches |-> a[b][t]]
           g == [b \in Batches |-> q[b][t]]
           h == [b \in Batches |-> a[b][t] + q[b][t]]
<1>1. \A b \in Batches : a[b][t] \in Nat /\ q[b][t] \in Nat /\ a[b][t] + q[b][t] \in Nat
  OBVIOUS
<1>2. f \in [Batches -> Nat] /\ g \in [Batches -> Nat] /\ h \in [Batches -> Nat]
  BY <1>1
<1>3. \A i \in Batches : h[i] = f[i] + g[i]
  OBVIOUS
<1>4. /\ Column(a, t) = Total(f, MaxBatches) /\ Column(q, t) = Total(g, MaxBatches)
      /\ Total([b \in Batches |-> a[b][t] + q[b][t]], MaxBatches) = Total(h, MaxBatches)
  BY DEF Column
<1> HIDE DEF f, g, h
<1>5. /\ f \in [1..MaxBatches -> Nat] /\ g \in [1..MaxBatches -> Nat]
      /\ f \in [1..MaxBatches -> Int] /\ g \in [1..MaxBatches -> Int]
      /\ h \in [1..MaxBatches -> Int] /\ MaxBatches \in Nat
      /\ \A i \in 1..MaxBatches : h[i] = f[i] + g[i]
  BY <1>2, <1>3, BridgeSets
<1>6. Total(f, MaxBatches) \in Nat /\ Total(g, MaxBatches) \in Nat
  BY <1>5, TotalNonNegative
<1>7. Total(h, MaxBatches) = Total(f, MaxBatches) + Total(g, MaxBatches)
  BY <1>5, TotalSum
<1>8. QED
  BY <1>4, <1>6, <1>7

\* The sums of the abstract specification are those of Totals.
LEMMA SameTotal ==
  ASSUME NEW f, NEW n
  PROVE  Delivery!Total(f, n) = Total(f, n)
BY DEF Delivery!Total, Delivery!RunningTotal, Total, RunningTotal

\* The changes of the abstract specification.
LEMMA ChangeIs ==
  ASSUME NEW f \in [Targets -> Int], NEW g \in [Targets -> Int], NEW h \in [Targets -> Int],
         \A t \in Targets : g[t] - f[t] = h[t]
  PROVE  Delivery!Change(f, g) = Total(h, NumTargets)
<1>1. [t \in Targets |-> g[t] - f[t]] = h
  <2>1. h = [t \in Targets |-> h[t]]
    OBVIOUS
  <2>2. QED
    BY <2>1
<1>2. Delivery!Change(f, g) = Delivery!Total([t \in Targets |-> g[t] - f[t]], NumTargets)
  BY DEF Delivery!Change, Delivery!Targets, Targets
<1>3. QED
  BY <1>1, <1>2, SameTotal

Owed == [t \in Targets |-> OwedTo(t)]

\* A step that claims amounts, and takes some of what was withheld for them.
LEMMA ClaimsDeliver ==
  ASSUME NEW amounts \in [Targets -> Nat], NEW used \in Nat,
         Owed \in [Targets -> Nat], Withheld \in Nat,
         \A t \in Targets : OwedTo(t)' = OwedTo(t) + amounts[t],
         used <= Withheld, used <= Total(amounts, NumTargets),
         Withheld' = Withheld - used,
         deposited' = deposited
  PROVE  Delivery!Claim
<1>1. \A t \in Targets : OwedTo(t) \in Nat /\ amounts[t] \in Nat
  BY DEF Owed
<1>2. /\ Owed' = [t \in Targets |-> OwedTo(t)']
      /\ Owed = [t \in Targets |-> OwedTo(t)]
  BY DEF Owed
<1>3. \A t \in Targets : Owed'[t] = Owed[t] + amounts[t] /\ Owed'[t] \in Nat /\ Owed[t] \in Nat
  BY <1>1, <1>2
<1>4. Owed' \in [Targets -> Int] /\ Owed \in [Targets -> Int] /\ amounts \in [Targets -> Int]
  BY <1>2, <1>3
<1>5. Delivery!Change(Owed, Owed') = Total(amounts, NumTargets)
  <2>1. \A t \in Targets : Owed'[t] - Owed[t] = amounts[t]
    BY <1>1, <1>3
  <2>2. QED
    BY <1>4, <2>1, ChangeIs
<1>6. \A t \in Targets : Owed'[t] >= Owed[t]
  BY <1>1, <1>3
<1>7. Withheld' \in 0..Withheld /\ Withheld - Withheld' = used
  OBVIOUS
<1>8. Delivery!Targets = Targets
  BY DEF Delivery!Targets, Targets
<1>9. Withheld - Withheld' <= Delivery!Change(Owed, Owed')
  BY <1>5, <1>7
<1> HIDE DEF Owed
<1>10. QED
  BY <1>6, <1>7, <1>8, <1>9 DEF Delivery!Claim, Owed

\* A step that pays some of what is owed and withholds some.
LEMMA SettlesDeliver ==
  ASSUME NEW p \in [Targets -> Nat], NEW h \in [Targets -> Nat],
         Owed \in [Targets -> Nat], deposited \in [Targets -> Nat], Withheld \in Nat,
         \A t \in Targets : /\ OwedTo(t)' \in Nat
                            /\ OwedTo(t) = OwedTo(t)' + p[t] + h[t],
         deposited' = [t \in Targets |-> deposited[t] + p[t]],
         Withheld' = Withheld + Total(h, NumTargets)
  PROVE  Delivery!Settle
<1>1. \A t \in Targets : OwedTo(t) \in Nat /\ p[t] \in Nat /\ h[t] \in Nat /\ deposited[t] \in Nat
  BY DEF Owed
<1>2. /\ Owed' = [t \in Targets |-> OwedTo(t)']
      /\ Owed = [t \in Targets |-> OwedTo(t)]
  BY DEF Owed
<1>3. \A t \in Targets : /\ Owed[t] = Owed'[t] + p[t] + h[t]
                         /\ Owed'[t] \in Nat /\ Owed[t] \in Nat
  BY <1>1, <1>2
<1> DEFINE s == [t \in Targets |-> p[t] + h[t]]
<1>4. /\ Owed' \in [Targets -> Int] /\ Owed \in [Targets -> Int]
      /\ p \in [Targets -> Int] /\ h \in [Targets -> Int] /\ s \in [Targets -> Int]
      /\ deposited \in [Targets -> Int] /\ deposited' \in [Targets -> Int]
  BY <1>1, <1>2, <1>3
<1>5. \A t \in Targets : s[t] = p[t] + h[t]
  OBVIOUS
<1> HIDE DEF s
<1>6. Delivery!Change(Owed', Owed) = Total(s, NumTargets)
  <2>1. \A t \in Targets : Owed[t] - Owed'[t] = s[t]
    BY <1>1, <1>3, <1>5
  <2>2. QED
    BY <1>4, <2>1, ChangeIs
<1>7. Delivery!Change(deposited, deposited') = Total(p, NumTargets)
  <2>1. \A t \in Targets : deposited'[t] - deposited[t] = p[t]
    BY <1>1
  <2>2. QED
    BY <1>4, <2>1, ChangeIs
<1>8. /\ Total(s, NumTargets) = Total(p, NumTargets) + Total(h, NumTargets)
      /\ Total(p, NumTargets) \in Int /\ Total(h, NumTargets) \in Int
  <2>1. /\ p \in [1..NumTargets -> Int] /\ h \in [1..NumTargets -> Int]
        /\ s \in [1..NumTargets -> Int] /\ NumTargets \in Nat
        /\ \A i \in 1..NumTargets : s[i] = p[i] + h[i]
    BY <1>4, <1>5, BridgeSets
  <2>2. QED
    BY <2>1, TotalSum, TotalType
<1>9. Withheld' - Withheld = Delivery!Change(Owed', Owed) - Delivery!Change(deposited, deposited')
  BY <1>6, <1>7, <1>8
<1>10. \A t \in Targets : /\ Owed'[t] >= 0
                          /\ deposited'[t] - deposited[t] \in 0..(Owed[t] - Owed'[t])
  <2> SUFFICES ASSUME NEW t \in Targets
               PROVE  /\ Owed'[t] >= 0
                      /\ deposited'[t] - deposited[t] \in 0..(Owed[t] - Owed'[t])
    OBVIOUS
  <2>1. deposited'[t] - deposited[t] = p[t] /\ p[t] \in Nat /\ h[t] \in Nat
    BY <1>1
  <2>2. Owed[t] - Owed'[t] = p[t] + h[t] /\ Owed'[t] \in Nat
    BY <1>1, <1>3
  <2>3. QED
    BY <2>1, <2>2
<1>11. Delivery!Targets = Targets
  BY DEF Delivery!Targets, Targets
<1> HIDE DEF Owed
<1>12. QED
  BY <1>9, <1>10, <1>11 DEF Delivery!Settle, Owed

\* What the invariant says about the abstract view.
LEMMA ViewTypes ==
  ASSUME Inv
  PROVE  /\ Owed \in [Targets -> Nat] /\ Withheld \in Nat /\ deposited \in [Targets -> Nat]
         /\ \A t \in Targets : OwedTo(t) = Column(data, t) + Column(queue, t)
         /\ \A t \in Targets : Column(data, t) \in Nat /\ Column(queue, t) \in Nat
<1>1. data \in [Batches -> [Targets -> Nat]] /\ queue \in [Batches -> [Targets -> Nat]]
      /\ deposited \in [Targets -> Nat]
  BY DEF Inv, TypeOK
<1>2. \A t \in Targets : /\ Column(data, t) \in Nat /\ Column(queue, t) \in Nat
                         /\ OwedTo(t) = Column(data, t) + Column(queue, t)
  BY <1>1, OwedColumns DEF OwedTo
<1>3. \A t \in Targets : OwedTo(t) \in Nat
  BY <1>2
<1>4. Withheld \in Nat
  BY InvSums DEF Sums, Withheld
<1>5. QED
  BY <1>1, <1>2, <1>3, <1>4 DEF Owed

\* What is owed to a target after a step.
LEMMA OwedAfter ==
  ASSUME Inv', NEW t \in Targets
  PROVE  /\ OwedTo(t)' = Column(data', t) + Column(queue', t)
         /\ Column(data', t) \in Nat /\ Column(queue', t) \in Nat
<1>1. data' \in [Batches -> [Targets -> Nat]] /\ queue' \in [Batches -> [Targets -> Nat]]
  BY DEF Inv, TypeOK
<1>2. QED
  BY <1>1, OwedColumns DEF OwedTo

\* A step that keeps every amount keeps the abstract view.
LEMMA SameView ==
  ASSUME UNCHANGED <<data, queue, deposited>>, Withheld' = Withheld
  PROVE  UNCHANGED Delivery!vars
<1>1. Owed' = Owed
  BY DEF Owed, OwedTo
<1>2. QED
  BY <1>1 DEF Delivery!vars, Owed

\* A claim is a claim: the amounts of the batch are owed from now on.
LEMMA claimClaims ==
  ASSUME Inv, Inv', NEW claimed \in [Targets -> Incentives], claimStakingIncentives(claimed)
  PROVE  Delivery!Claim
<1> DEFINE amounts == StakingIncentives(claimed)
           total   == Total(amounts, NumTargets)
           used    == WithheldUsed(total)
           b       == batches + 1
<1>0. Sums
  BY InvSums
<1>1. amounts \in [Targets -> Nat]
  <2>1. \A t \in Targets : claimed[t] \in Nat
    BY BridgeAssumption
  <2>2. \A t \in Targets : Normalize(claimed[t]) \in Nat
    BY <2>1, NormalizeBounds
  <2>3. QED
    BY <2>2 DEF StakingIncentives
<1>2. /\ batches < MaxBatches
      /\ withheldL1' = withheldL1 - used
      /\ data' = [data EXCEPT ![b] = amounts]
      /\ UNCHANGED <<syncs, withheldAmount, queue, deposited>>
  BY DEF claimStakingIncentives, WithheldLeft, l2Vars
<1> HIDE DEF amounts
<1>3. total \in Nat
  <2>1. amounts \in [1..NumTargets -> Nat] /\ NumTargets \in Nat
    BY <1>1, BridgeSets
  <2>2. QED
    BY <2>1, TotalNonNegative
<1> HIDE DEF total
<1>4. used \in Nat /\ used <= total /\ used <= withheldL1
  BY <1>0, <1>3 DEF Sums, WithheldUsed, Least
<1> HIDE DEF used
<1>5. b \in Batches /\ data[b] = NoAmounts
  <2>1. b \in Batches /\ b > batches
    BY <1>0, <1>2, BridgeSets DEF Sums
  <2>2. QED
    BY <2>1 DEF Inv, Fresh
<1> HIDE DEF b
<1>6. Withheld' = Withheld - used /\ used <= Withheld
  <2>1. /\ Withheld' = withheldL1' + Total(syncs, MaxSyncs) + withheldAmount
        /\ Withheld = withheldL1 + Total(syncs, MaxSyncs) + withheldAmount
    BY <1>2 DEF Withheld
  <2>2. QED
    BY <1>0, <1>2, <1>4, <2>1 DEF Sums
<1>7. ASSUME NEW t \in Targets
      PROVE  OwedTo(t)' = OwedTo(t) + amounts[t]
  <2>1. OwedTo(t) = Column(data, t) + Column(queue, t)
        /\ Column(data, t) \in Nat /\ Column(queue, t) \in Nat
    BY ViewTypes
  <2>2. OwedTo(t)' = Column(data', t) + Column(queue', t)
    BY OwedAfter
  <2>3. Column(data', t) = Column(data, t) - data[b][t] + amounts[t]
    <3>1. data \in [Batches -> [Targets -> Nat]]
      BY DEF Inv, TypeOK
    <3>2. QED
      BY <1>1, <1>2, <1>5, <3>1, ColumnExcept
  <2>4. data[b][t] = 0 /\ amounts[t] \in Nat /\ queue' = queue
    BY <1>1, <1>2, <1>5 DEF NoAmounts
  <2>5. QED
    BY <2>1, <2>2, <2>3, <2>4
<1>8. used <= Total(amounts, NumTargets)
  BY <1>4 DEF total
<1>9. Owed \in [Targets -> Nat] /\ Withheld \in Nat
  BY ViewTypes
<1>10. QED
  BY <1>1, <1>2, <1>4, <1>6, <1>7, <1>8, <1>9, ClaimsDeliver

\* Delivered data settles what its batch paid and withheld, and leaves owed
\* what it queued.
LEMMA processedSettles ==
  ASSUME Inv, Inv', NEW b \in Batches, NEW limits \in [Targets -> Limits],
         Undelivered(b), _processData(data[b], limits),
         data' = [data EXCEPT ![b] = NoAmounts],
         UNCHANGED <<l1Vars, syncs>>
  PROVE  Delivery!Settle
<1> DEFINE accepted == Accepted(data[b], limits)
           paid     == Paid(accepted)
           queued   == Queued(accepted)
           held     == [t \in Targets |-> data[b][t] - accepted[t]]
<1>0. Sums
  BY InvSums
<1>1. /\ data[b] \in [Targets -> Nat] /\ limits \in [Targets -> Nat] /\ balance \in Nat
      /\ NoAmounts \in [Targets -> Nat]
      /\ data \in [Batches -> [Targets -> Nat]] /\ queue \in [Batches -> [Targets -> Nat]]
      /\ data' \in [Batches -> [Targets -> Nat]] /\ queue' \in [Batches -> [Targets -> Nat]]
  BY BridgeAssumption, NoAmountsTotal DEF Inv, TypeOK
<1>2. accepted \in [Targets -> Nat] /\ \A t \in Targets : accepted[t] <= data[b][t]
  BY <1>1 DEF Accepted, Least
<1>3. /\ deposited' = [t \in Targets |-> deposited[t] + paid[t]]
      /\ queue' = [queue EXCEPT ![QueueKey] = queued]
      /\ withheldAmount' = withheldAmount + Total(held, NumTargets)
      /\ queued = [t \in Targets |-> accepted[t] - paid[t]]
  BY DEF _processData, WithheldTotal, Queued
<1> HIDE DEF accepted
<1>4. paid \in [Targets -> Nat] /\ \A t \in Targets : paid[t] <= accepted[t]
  BY <1>1, <1>2, BalanceLoop
<1> HIDE DEF paid, queued
<1>5. /\ queued \in [Targets -> Nat]
      /\ held \in [Targets -> Nat]
      /\ \A t \in Targets : data[b][t] = paid[t] + queued[t] + held[t]
  BY <1>1, <1>2, <1>3, <1>4
<1> HIDE DEF held
<1>6. QueueKey \in Batches /\ queue[QueueKey] = NoAmounts
  BY QueueKeyFree
<1>7. ASSUME NEW t \in Targets
      PROVE  OwedTo(t)' \in Nat /\ OwedTo(t) = OwedTo(t)' + paid[t] + held[t]
  <2>1. OwedTo(t) = Column(data, t) + Column(queue, t)
        /\ Column(data, t) \in Nat /\ Column(queue, t) \in Nat
    BY ViewTypes
  <2>2. OwedTo(t)' = Column(data', t) + Column(queue', t)
        /\ Column(data', t) \in Nat /\ Column(queue', t) \in Nat
    BY OwedAfter
  <2>3. Column(data', t) = Column(data, t) - data[b][t] + NoAmounts[t]
    <3>1. Column([data EXCEPT ![b] = NoAmounts], t) = Column(data, t) - data[b][t] + NoAmounts[t]
      BY ONLY <1>1, ColumnExcept, b \in Batches, t \in Targets
    <3>2. QED
      BY <3>1
  <2>4. Column(queue', t) = Column(queue, t) - queue[QueueKey][t] + queued[t]
    <3>1. Column([queue EXCEPT ![QueueKey] = queued], t)
            = Column(queue, t) - queue[QueueKey][t] + queued[t]
      BY ONLY <1>1, <1>5, <1>6, ColumnExcept, t \in Targets
    <3>2. QED
      BY <1>3, <3>1
  <2>5. NoAmounts[t] = 0 /\ queue[QueueKey][t] = 0
    BY <1>6 DEF NoAmounts
  <2>6. data[b][t] = paid[t] + queued[t] + held[t]
        /\ paid[t] \in Nat /\ queued[t] \in Nat /\ held[t] \in Nat
    BY <1>4, <1>5
  <2>7. QED
    BY <2>1, <2>2, <2>3, <2>4, <2>5, <2>6
<1>8. Withheld' = Withheld + Total(held, NumTargets)
  <2>1. /\ Withheld' = withheldL1 + Total(syncs, MaxSyncs) + withheldAmount'
        /\ Withheld = withheldL1 + Total(syncs, MaxSyncs) + withheldAmount
    BY DEF Withheld, l1Vars
  <2>2. Total(held, NumTargets) \in Nat
    <3>1. held \in [1..NumTargets -> Nat] /\ NumTargets \in Nat
      BY <1>5, BridgeSets
    <3>2. QED
      BY <3>1, TotalNonNegative
  <2>3. QED
    BY <1>0, <1>3, <2>1, <2>2 DEF Sums
<1>9. Owed \in [Targets -> Nat] /\ Withheld \in Nat /\ deposited \in [Targets -> Nat]
  BY ViewTypes
<1>10. QED
  BY <1>3, <1>4, <1>5, <1>7, <1>8, <1>9, SettlesDeliver

\* redeem settles one queued request, of one target.
LEMMA redeemSettles ==
  ASSUME Inv, Inv', NEW n \in Batches, NEW u \in Targets, redeem(n, u)
  PROVE  Delivery!Settle
<1> DEFINE amount == queue[n][u]
           new    == [queue[n] EXCEPT ![u] = 0]
           paid   == [NoAmounts EXCEPT ![u] = amount]
<1>1. /\ queue \in [Batches -> [Targets -> Nat]] /\ queue[n] \in [Targets -> Nat]
      /\ amount \in Nat /\ new \in [Targets -> Nat] /\ deposited \in [Targets -> Nat]
      /\ data' \in [Batches -> [Targets -> Nat]] /\ queue' \in [Batches -> [Targets -> Nat]]
  BY DEF Inv, TypeOK
<1>2. /\ deposited' = [deposited EXCEPT ![u] = @ + amount]
      /\ queue' = [queue EXCEPT ![n] = new]
      /\ data' = data /\ Withheld' = Withheld
  <2>1. UNCHANGED <<l1Vars, bridgeVars, withheldAmount>>
    BY DEF redeem
  <2>2. Withheld' = Withheld /\ data' = data
    BY <2>1 DEF Withheld, l1Vars, bridgeVars
  <2>3. QED
    BY <1>1, <2>2 DEF redeem
<1>3. /\ paid \in [Targets -> Nat]
      /\ \A t \in Targets : /\ paid[t] = IF t = u THEN amount ELSE 0
                            /\ new[t] = queue[n][t] - paid[t]
                            /\ deposited'[t] = deposited[t] + paid[t]
  BY <1>1, <1>2, NoAmountsTotal DEF NoAmounts
<1>4. deposited' = [t \in Targets |-> deposited[t] + paid[t]]
  <2>1. deposited' = [t \in Targets |-> deposited'[t]]
    BY <1>1, <1>2
  <2>2. QED
    BY <1>3, <2>1
<1> HIDE DEF amount, new, paid
<1>5. ASSUME NEW t \in Targets
      PROVE  OwedTo(t)' \in Nat /\ OwedTo(t) = OwedTo(t)' + paid[t] + NoAmounts[t]
  <2>1. OwedTo(t) = Column(data, t) + Column(queue, t)
        /\ Column(data, t) \in Nat /\ Column(queue, t) \in Nat
    BY ViewTypes
  <2>2. OwedTo(t)' = Column(data', t) + Column(queue', t)
        /\ Column(data', t) \in Nat /\ Column(queue', t) \in Nat
    BY OwedAfter
  <2>3. Column(queue', t) = Column(queue, t) - queue[n][t] + new[t]
    <3>1. Column([queue EXCEPT ![n] = new], t) = Column(queue, t) - queue[n][t] + new[t]
      BY ONLY <1>1, ColumnExcept, n \in Batches, t \in Targets
    <3>2. QED
      BY <1>2, <3>1
  <2>4. new[t] = queue[n][t] - paid[t] /\ queue[n][t] \in Nat /\ paid[t] \in Nat
        /\ NoAmounts[t] = 0 /\ data' = data
    BY <1>1, <1>2, <1>3 DEF NoAmounts
  <2>5. QED
    BY <2>1, <2>2, <2>3, <2>4
<1>6. Owed \in [Targets -> Nat] /\ Withheld \in Nat /\ deposited \in [Targets -> Nat]
  BY ViewTypes
<1>7. NoAmounts \in [Targets -> Nat] /\ Withheld' = Withheld + Total(NoAmounts, NumTargets)
  BY <1>2, <1>6, NoAmountsTotal
<1>8. QED
  BY <1>3, <1>4, <1>5, <1>6, <1>7, SettlesDeliver

\* An amount that the bridge carries is rounded down by less than one unit.
LEMMA NormalizeLoses ==
  ASSUME NEW amount \in Nat
  PROVE  amount - Normalize(amount) \in 0..(BridgeUnit - 1)
<1>1. BridgeUnit \in Nat /\ BridgeUnit > 0
  BY BridgeAssumption
<1> DEFINE q == amount \div BridgeUnit
           r == amount % BridgeUnit
<1>2. q \in Nat /\ r \in 0..(BridgeUnit - 1) /\ amount = BridgeUnit * q + r
  BY <1>1
<1>3. Normalize(amount) = q * BridgeUnit
  BY DEF Normalize
<1> HIDE DEF q, r
<1>4. q * BridgeUnit = BridgeUnit * q /\ q * BridgeUnit \in Nat
  BY <1>1, <1>2
<1>5. amount - Normalize(amount) = r
  BY <1>2, <1>3, <1>4
<1>6. QED
  BY <1>2, <1>5

\* A withheld amount that reaches L1 leaves the message for the counter.
LEMMA SyncedWithheld ==
  ASSUME Inv, NEW s \in Syncs, NEW amount \in Nat,
         withheldL1' = withheldL1 + amount,
         syncs' = [syncs EXCEPT ![s] = 0],
         withheldAmount' = withheldAmount
  PROVE  Withheld' = Withheld - (syncs[s] - amount)
<1>0. Sums
  BY InvSums
<1>1. syncs[s] \in Nat
  BY DEF Inv, TypeOK
<1>2. Total(syncs', MaxSyncs) = Total(syncs, MaxSyncs) - syncs[s]
  <2>1. syncs \in [1..MaxSyncs -> Int] /\ s \in 1..MaxSyncs /\ MaxSyncs \in Nat /\ 0 \in Int
    BY BridgeSets DEF Inv, TypeOK
  <2>2. Total([syncs EXCEPT ![s] = 0], MaxSyncs) = Total(syncs, MaxSyncs) - syncs[s] + 0
    BY <2>1, TotalExcept
  <2>3. QED
    BY <1>0, <1>1, <2>2 DEF Sums
<1>3. /\ Withheld' = withheldL1' + Total(syncs', MaxSyncs) + withheldAmount'
      /\ Withheld = withheldL1 + Total(syncs, MaxSyncs) + withheldAmount
  BY DEF Withheld
<1>4. QED
  BY <1>0, <1>1, <1>2, <1>3 DEF Sums

\* A withheld amount that the DAO restores is rounded down, and nothing else
\* changes hands.
LEMMA maintenanceRoundsDown ==
  ASSUME Inv, Inv', NEW s \in Syncs, syncWithheldAmountMaintenance(s)
  PROVE  Delivery!RoundDown
<1> DEFINE amount == Normalize(syncs[s])
<1>1. syncs[s] \in Nat
  BY DEF Inv, TypeOK
<1>2. amount \in Nat /\ syncs[s] - amount \in 0..(BridgeUnit - 1)
  BY <1>1, NormalizeBounds, NormalizeLoses
<1>3. /\ withheldL1' = withheldL1 + amount
      /\ syncs' = [syncs EXCEPT ![s] = 0]
      /\ withheldAmount' = withheldAmount
      /\ data' = data /\ queue' = queue /\ deposited' = deposited
  BY DEF syncWithheldAmountMaintenance, l2Vars
<1> HIDE DEF amount
<1>4. Withheld' = Withheld - (syncs[s] - amount)
  BY <1>2, <1>3, SyncedWithheld
<1>5. Withheld \in Nat /\ Withheld' \in Nat
  <2>1. Withheld \in Nat
    BY ViewTypes
  <2>2. Withheld' \in Nat
    <3>1. Sums'
      BY InvSums, PTL
    <3>2. QED
      BY <3>1 DEF Sums, Withheld
  <2>3. QED
    BY <2>1, <2>2
<1>6. Withheld - Withheld' \in 0..(BridgeUnit - 1)
  BY <1>2, <1>4, <1>5
<1>7. UNCHANGED <<[t \in Targets |-> OwedTo(t)], deposited>>
  BY <1>3 DEF OwedTo
<1>8. Withheld' >= 0
  BY <1>5
<1>9. QED
  BY <1>6, <1>7, <1>8 DEF Delivery!RoundDown

\* A message that delivers the whole withheld amount leaves the sum as it is.
LEMMA syncKeepsView ==
  ASSUME Inv, NEW s \in Syncs, syncWithheldAmount(s)
  PROVE  UNCHANGED Delivery!vars
<1> DEFINE amount == syncs[s]
<1>1. amount \in Nat
  BY DEF Inv, TypeOK
<1>2. /\ withheldL1' = withheldL1 + amount
      /\ syncs' = [syncs EXCEPT ![s] = 0]
      /\ withheldAmount' = withheldAmount
      /\ UNCHANGED <<data, queue, deposited>>
  BY DEF syncWithheldAmount, l2Vars
<1>3. Withheld' = Withheld - (syncs[s] - amount)
  <2> HIDE DEF amount
  <2>1. QED
    BY <1>1, <1>2, SyncedWithheld
<1>4. Withheld \in Nat
  BY ViewTypes
<1>5. Withheld' = Withheld
  BY <1>1, <1>3, <1>4
<1>6. QED
  BY <1>2, <1>5, SameView

\* A withheld amount that leaves for L1 is in the message from then on.
LEMMA sendKeepsView ==
  ASSUME Inv, syncWithheldTokens
  PROVE  UNCHANGED Delivery!vars
<1> DEFINE s == numSyncs + 1
<1>0. Sums
  BY InvSums
<1>1. s \in Syncs /\ s > numSyncs
  BY <1>0, BridgeSets DEF Sums, syncWithheldTokens
<1>2. /\ syncs' = [syncs EXCEPT ![s] = withheldAmount]
      /\ withheldAmount' = 0 /\ withheldL1' = withheldL1
      /\ UNCHANGED <<data, queue, deposited>>
  BY DEF syncWithheldTokens, WithheldAfterSync, l1Vars
<1>3. syncs \in [Syncs -> Nat] /\ syncs[s] = 0 /\ withheldAmount \in Nat
  BY <1>1 DEF Inv, TypeOK, Fresh
<1> HIDE DEF s
<1>4. Total(syncs', MaxSyncs) = Total(syncs, MaxSyncs) + withheldAmount
  <2>1. syncs \in [1..MaxSyncs -> Int] /\ s \in 1..MaxSyncs /\ MaxSyncs \in Nat
        /\ withheldAmount \in Int
    BY <1>1, <1>3, BridgeSets
  <2>2. Total([syncs EXCEPT ![s] = withheldAmount], MaxSyncs)
          = Total(syncs, MaxSyncs) - syncs[s] + withheldAmount
    BY <2>1, TotalExcept
  <2>3. QED
    BY <1>0, <1>2, <1>3, <2>2 DEF Sums
<1>5. /\ Withheld' = withheldL1' + Total(syncs', MaxSyncs) + withheldAmount'
      /\ Withheld = withheldL1 + Total(syncs, MaxSyncs) + withheldAmount
  BY DEF Withheld
<1>6. Withheld' = Withheld
  BY <1>0, <1>2, <1>4, <1>5 DEF Sums
<1>7. QED
  BY <1>2, <1>6, SameView

\* Nothing is owed, paid or withheld at first.
LEMMA InitialView == Init => Delivery!Init
<1> SUFFICES ASSUME Init
             PROVE  Delivery!Init
  OBVIOUS
<1>1. MaxBatches \in Nat /\ MaxSyncs \in Nat
  BY BridgeSets
<1>2. ASSUME NEW t \in Targets
      PROVE  OwedTo(t) = 0
  <2> DEFINE f == [b \in Batches |-> data[b][t] + queue[b][t]]
  <2>1. f \in [1..MaxBatches -> Int] /\ \A i \in 1..MaxBatches : f[i] = 0
    BY BridgeSets DEF Init, NoAmounts
  <2>2. OwedTo(t) = Total(f, MaxBatches)
    BY DEF OwedTo
  <2> HIDE DEF f
  <2>3. QED
    BY <1>1, <2>1, <2>2, TotalZero
<1>3. Owed = NoAmounts
  BY <1>2 DEF Owed, NoAmounts
<1>4. Total(syncs, MaxSyncs) = 0
  <2>1. syncs \in [1..MaxSyncs -> Int] /\ \A s \in 1..MaxSyncs : syncs[s] = 0
    BY BridgeSets DEF Init
  <2>2. QED
    BY <1>1, <2>1, TotalZero
<1>5. Withheld = 0
  BY <1>4 DEF Withheld, Init
<1>6. Delivery!Targets = Targets
  BY DEF Delivery!Targets, Targets
<1>7. QED
  BY <1>3, <1>5, <1>6 DEF Delivery!Init, Owed, Init, NoAmounts

\* Whatever the bridge and the DAO do, each claimed incentive is settled once,
\* and each withheld unit reused at most once: the protocol of Dispenser,
\* deposit processor and target dispenser implements StakingDelivery.
THEOREM DeliveryImplemented == Spec => ImplementsDelivery
<1>1. ASSUME Inv, Inv', [Next]_vars
      PROVE  [Delivery!Next]_(Delivery!vars)
  <2>1. CASE \E claimed \in [Targets -> Incentives] : claimStakingIncentives(claimed)
    BY <1>1, <2>1, claimClaims DEF Delivery!Next
  <2>2. CASE \E s \in Syncs : syncWithheldAmount(s)
    BY <1>1, <2>2, syncKeepsView
  <2>3. CASE \E s \in Syncs : syncWithheldAmountMaintenance(s)
    BY <1>1, <2>3, maintenanceRoundsDown DEF Delivery!Next
  <2>4. CASE \E b \in Batches, limits \in [Targets -> Limits] :
               receiveMessage(b, limits) \/ processDataMaintenance(b, limits)
    <3>1. PICK b \in Batches, limits \in [Targets -> Limits] :
                 receiveMessage(b, limits) \/ processDataMaintenance(b, limits)
      BY <2>4
    <3>2. /\ Undelivered(b) /\ _processData(data[b], limits)
          /\ data' = [data EXCEPT ![b] = NoAmounts]
          /\ UNCHANGED <<l1Vars, syncs>>
      BY <3>1 DEF receiveMessage, processDataMaintenance
    <3>3. Delivery!Settle
      BY <1>1, <3>2, processedSettles
    <3>4. QED
      BY <3>3 DEF Delivery!Next
  <2>5. CASE \E n \in Batches, t \in Targets : redeem(n, t)
    BY <1>1, <2>5, redeemSettles DEF Delivery!Next
  <2>6. CASE syncWithheldTokens
    BY <1>1, <2>6, sendKeepsView
  <2>7. CASE pause \/ unpause \/ migrate
    <3>1. UNCHANGED <<data, queue, deposited, withheldL1, syncs, withheldAmount>>
      BY <2>7 DEF pause, unpause, migrate, l1Vars, bridgeVars, l2Vars
    <3>2. QED
      BY <3>1, SameView DEF Withheld
  <2>8. CASE (\E b \in Batches : ArriveOLAS(b)) \/ \E transfer \in InTransit : Lose(transfer)
    <3>1. UNCHANGED <<data, queue, deposited, withheldL1, syncs, withheldAmount>>
      BY <2>8 DEF ArriveOLAS, Lose, l1Vars, l2Vars
    <3>2. QED
      BY <3>1, SameView DEF Withheld
  <2>9. CASE UNCHANGED vars
    <3>1. UNCHANGED <<data, queue, deposited, withheldL1, syncs, withheldAmount>>
      BY <2>9 DEF vars, l1Vars, bridgeVars, l2Vars
    <3>2. QED
      BY <3>1, SameView DEF Withheld
  <2>10. QED
    BY <1>1, <2>1, <2>2, <2>3, <2>4, <2>5, <2>6, <2>7, <2>8, <2>9 DEF Next
<1>2. QED
  BY <1>1, InitialView, InvHolds, PTL DEF Spec, ImplementsDelivery, Delivery!Spec
=============================================================================
