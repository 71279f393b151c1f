------------------------ MODULE LiquidityPricesProofs ------------------------
(***************************************************************************)
(* The swaps that the price script simulates, for every pool, every window  *)
(* of logged swaps and every scale: those towards higher prices follow the  *)
(* rule of the pool, and the prices noted in the two directions bracket the *)
(* one of today.  Averages, reserves and the last noted prices are kept     *)
(* together by one inductive invariant.                                    *)
(***************************************************************************)
EXTENDS LiquidityPrices, TotalsTheorems, FiniteSetTheorems

Amounts == [olas : Nat, eth : Nat]
Reserves == [olas : Nat \ {0}, eth : Nat \ {0}]
Notes == [price : Int, lp : Int]

\* The last LP price of a list, today's before the first.
LastNoted(s) == IF s = <<>> THEN PriceLP(pool) ELSE s[Len(s)].lp

\* The price that the i-th one of a list is compared with.
Before(s, i) == IF i = 1 THEN PriceLP(pool) ELSE s[i - 1].lp

\* Nothing is noted before its direction is taken.  The LP price of the simulated
\* reserves has not passed the last noted one against the direction.
Simulated ==
  /\ phase = "average" =>
       pool \in Reserves /\ reserves = pool /\ raised = <<>> /\ lowered = <<>>
  /\ phase = "raise" =>
       /\ pool \in Reserves /\ pool.olas >= pool.eth /\ reserves \in Reserves
       /\ lowered = <<>>
       /\ PriceLP(reserves) <= LastNoted(raised)
  /\ phase = "lower" =>
       /\ reserves \in [olas : Nat \ {0}, eth : Int]
       /\ PriceLP(reserves) >= LastNoted(lowered)

SimulationTypes ==
  /\ pool \in Pools /\ window \in Windows
  /\ average \in Amounts
  /\ target \in Int /\ numSteps \in Int
  /\ raised \in Seq(Notes) /\ lowered \in Seq(Notes)

LPInv == SimulationTypes /\ Simulated /\ LPBrackets

-----------------------------------------------------------------------------
(* Arithmetic                                                                *)

\* A quotient of naturals keeps its numerator's order.
LEMMA QuotientMono ==
  ASSUME NEW x \in Nat, NEW y \in Nat, NEW k \in Nat \ {0}, x <= y
  PROVE  x \div k \in Nat /\ y \div k \in Nat /\ x \div k <= y \div k
OBVIOUS

\* What a swap takes out is less than the reserve, and leaves the product of the
\* reserves at least as large: the fee stays in the pool.
LEMMA SwapOut ==
  ASSUME NEW a \in Nat, NEW in \in Nat \ {0}, NEW out \in Nat \ {0}
  PROVE  /\ AmountOut(a, in, out) \in Nat
         /\ AmountOut(a, in, out) < out
         /\ (out - AmountOut(a, in, out)) * (in + a) >= out * in
<1> DEFINE n == a * 997 * out
           d == in * 1000 + a * 997
           q == n \div d
<1>1. n \in Nat /\ d \in Nat \ {0}
  <2>1. a * 997 \in Nat
    OBVIOUS
  <2>2. (a * 997) * out \in Nat
    BY <2>1
  <2> QED BY <2>1, <2>2
<1>2. AmountOut(a, in, out) = q
  <2> HIDE DEF n, d
  <2>1. Div(n, d) = n \div d
    BY <1>1 DEF Div
  <2> QED BY <2>1 DEF AmountOut, n, d
<1>3. q \in Nat /\ q * d <= n
  <2> HIDE DEF n, d
  <2> QED BY <1>1
<1>4. n = 997 * (a * out) /\ a * out \in Nat
  OBVIOUS
<1>5. q * d = 1000 * (q * in) + 997 * (q * a) /\ q * in \in Nat /\ q * a \in Nat
  <2> HIDE DEF q
  <2> QED BY <1>3
<1>6. q < out
  <2> SUFFICES ASSUME q >= out
               PROVE  FALSE
    BY <1>3
  <2> HIDE DEF q, n, d
  <2>1. PICK e \in Nat : q = out + e
    <3>1. q - out \in Nat /\ q = out + (q - out)
      BY <1>3
    <3> QED BY <3>1
  <2>2. q * in = out * in + e * in /\ e * in \in Nat
    BY <2>1
  <2>3. q * a = a * out + e * a /\ e * a \in Nat
    BY <2>1
  <2>4. out * in \in Nat /\ out * in > 0
    OBVIOUS
  <2> QED BY <1>3, <1>4, <1>5, <2>2, <2>3, <2>4
<1>7. q * in + q * a <= a * out
  <2> HIDE DEF q, n, d
  <2> QED BY <1>3, <1>4, <1>5
<1>8. (out - q) * (in + a) = out * in + a * out - (q * in + q * a)
  <2> HIDE DEF q
  <2> QED BY <1>3
<1>9. out * in \in Nat
  OBVIOUS
<1> QED
  <2> HIDE DEF q, n, d
  <2> QED BY <1>2, <1>3, <1>4, <1>5, <1>6, <1>7, <1>8, <1>9

\* The LP price follows the reserve of OLAS.
LEMMA PriceFollows ==
  ASSUME NEW r, NEW s, r.olas \in Nat, s.olas \in Nat, r.olas <= s.olas
  PROVE  PriceLP(r) \in Int /\ PriceLP(s) \in Int /\ PriceLP(r) <= PriceLP(s)
<1> DEFINE x == r.olas * Scale
           y == s.olas * Scale
<1>1. x \in Nat /\ y \in Nat /\ x <= y
  <2>1. PICK e \in Nat : s.olas = r.olas + e
    <3>1. s.olas - r.olas \in Nat /\ s.olas = r.olas + (s.olas - r.olas)
      OBVIOUS
    <3> QED BY <3>1
  <2>2. e * Scale \in Nat /\ x \in Nat /\ y = x + e * Scale
    BY <2>1, PricesAssumption
  <2> QED BY <2>2
<1> HIDE DEF x, y
<1>2. Div(x, TotalSupply) = x \div TotalSupply /\ Div(y, TotalSupply) = y \div TotalSupply
  BY <1>1 DEF Div
<1>3. x \div TotalSupply \in Nat /\ y \div TotalSupply \in Nat
      /\ x \div TotalSupply <= y \div TotalSupply
  BY <1>1, PricesAssumption, QuotientMono
<1>4. PriceLP(r) = (x \div TotalSupply) * 2 /\ PriceLP(s) = (y \div TotalSupply) * 2
  BY <1>2 DEF PriceLP, x, y
<1> QED BY <1>3, <1>4

\* The sum of the amounts of some swaps is a natural.
LEMMA AmountType ==
  ASSUME window \in Seq([olasIn : Nat, ethIn : Nat]),
         NEW swaps, swaps \subseteq 1..Len(window), NEW amounts \in [swaps -> Nat]
  PROVE  AmountOf(swaps, amounts) \in Nat /\ AtLeastOne(Cardinality(swaps)) \in Nat \ {0}
<1> DEFINE N == Len(window)
           f == [i \in 1..N |-> IF i \in swaps THEN amounts[i] ELSE 0]
<1>1. N \in Nat
  OBVIOUS
<1>2. AmountOf(swaps, amounts) = Total(f, N)
  BY DEF AmountOf
<1>3. swaps \subseteq 1..N
  OBVIOUS
<1> HIDE DEF N
<1>4. f \in [1..N -> Nat]
  OBVIOUS
<1>5. Total(f, N) \in Nat
  <2> HIDE DEF f
  <2> QED BY <1>1, <1>4, TotalNonNegative
<1>6. IsFiniteSet(1..N)
  BY <1>1, FS_Interval
<1>7. IsFiniteSet(swaps)
  BY <1>3, <1>6, FS_Subset
<1>8. Cardinality(swaps) \in Nat
  BY <1>7, FS_CardinalityType
<1> HIDE DEF f
<1> QED BY <1>2, <1>5, <1>8 DEF AtLeastOne

\* Where the script does not throw, today's price is a natural.
LEMMA PriceType ==
  ASSUME pool \in Reserves, pool.olas >= pool.eth
  PROVE  PriceOLAS \in Nat
<1>1. pool.olas \in Nat /\ pool.eth \in Nat \ {0}
  BY DEF Reserves
<1>2. pool.olas \div pool.eth \in Nat \ {0}
  BY <1>1
<1> QED BY <1>2, PricesAssumption DEF PriceOLAS

\* The prices of a list with one more note: each is an old one beside the same price
\* as before, or the new one beside the last that was noted.
LEMMA NoteAdded ==
  ASSUME NEW s \in Seq(Notes), NEW p \in Int, NEW lp \in Int
  PROVE  LET t == Append(s, [price |-> p, lp |-> lp])
         IN  /\ t \in Seq(Notes)
             /\ LastNoted(t) = lp
             /\ \A i \in DOMAIN t :
                  \/ i \in DOMAIN s /\ t[i].lp = s[i].lp /\ Before(t, i) = Before(s, i)
                  \/ t[i].lp = lp /\ Before(t, i) = LastNoted(s)
<1> DEFINE e == [price |-> p, lp |-> lp]
           t == Append(s, e)
<1>1. e \in Notes /\ e.lp = lp
  BY DEF Notes
<1> HIDE DEF e
<1>2. t \in Seq(Notes) /\ Len(t) = Len(s) + 1 /\ Len(s) \in Nat /\ t[Len(s) + 1] = e
  BY <1>1
<1>3. \A i \in 1..Len(s) : t[i] = s[i]
  BY <1>1
<1>4. DOMAIN t = 1..(Len(s) + 1) /\ DOMAIN s = 1..Len(s)
  BY <1>2
<1> HIDE DEF t
<1>5. ASSUME NEW i \in 1..(Len(s) + 1)
      PROVE  \/ i \in DOMAIN s /\ t[i].lp = s[i].lp /\ Before(t, i) = Before(s, i)
             \/ t[i].lp = lp /\ Before(t, i) = LastNoted(s)
  <2>1. CASE i <= Len(s)
    <3>1. i \in 1..Len(s) /\ (i # 1 => i - 1 \in 1..Len(s))
      BY <2>1, <1>2
    <3> QED BY <3>1, <1>3, <1>4 DEF Before
  <2>2. CASE i = Len(s) + 1 /\ Len(s) = 0
    <3>1. s = <<>> /\ i = 1
      BY <2>2
    <3> QED BY <3>1, <2>2, <1>1, <1>2 DEF Before, LastNoted
  <2>3. CASE i = Len(s) + 1 /\ Len(s) # 0
    <3>1. s # <<>> /\ i # 1 /\ i - 1 = Len(s) /\ Len(s) \in 1..Len(s)
      BY <2>3, <1>2
    <3>2. t[i].lp = lp /\ t[i - 1].lp = s[Len(s)].lp
      BY <3>1, <2>3, <1>1, <1>2, <1>3
    <3> QED BY <3>1, <3>2 DEF Before, LastNoted
  <2> QED BY <2>1, <2>2, <2>3, <1>2
<1>6. t # <<>>
  BY <1>2
<1>7. LastNoted(t) = lp
  BY <1>1, <1>2, <1>6 DEF LastNoted
<1> QED BY <1>2, <1>4, <1>5, <1>7 DEF t, e

-----------------------------------------------------------------------------
(* The invariant                                                             *)

LEMMA LPInitInv == Init => LPInv
<1> SUFFICES ASSUME Init
             PROVE  LPInv
  OBVIOUS
<1> USE DEF Init
<1>1. pool \in Reserves
  BY PricesAssumption DEF Reserves
<1>2. SimulationTypes
  BY DEF SimulationTypes, NoAmounts, Amounts
<1>3. Simulated
  BY <1>1 DEF Simulated
<1>4. LPBrackets
  BY DEF LPBrackets
<1> QED BY <1>2, <1>3, <1>4 DEF LPInv

\* The averages are naturals, and the simulation starts from the pool.
LEMMA AverageInv == LPInv /\ Average => LPInv'
<1> SUFFICES ASSUME LPInv, Average
             PROVE  LPInv'
  OBVIOUS
<1> USE DEF LPInv
<1>1. window \in Seq([olasIn : Nat, ethIn : Nat]) /\ Len(window) \in Nat
  BY PricesAssumption DEF SimulationTypes
<1>2. pool \in Reserves /\ pool.olas \in Nat /\ pool.eth \in Nat /\ pool.olas >= pool.eth
  BY DEF Average, Simulated, Reserves, Throws
<1>3. average' \in Amounts
  <2>1. \A i \in 1..Len(window) : window[i].olasIn \in Nat /\ window[i].ethIn \in Nat
    <3> DEFINE S == [olasIn : Nat, ethIn : Nat]
    <3>1. window \in Seq(S)
      BY <1>1
    <3> HIDE DEF S
    <3>2. \A i \in 1..Len(window) : window[i] \in S
      BY <3>1
    <3> QED BY <3>2 DEF S
  <2>2. EthSwaps \subseteq 1..Len(window) /\ OlasSwaps \subseteq 1..Len(window)
    BY DEF EthSwaps, OlasSwaps
  <2> DEFINE o == [i \in OlasSwaps |-> window[i].olasIn]
             e == [i \in EthSwaps |-> window[i].ethIn]
  <2>3. o \in [OlasSwaps -> Nat] /\ e \in [EthSwaps -> Nat]
    BY <2>1, <2>2
  <2> HIDE DEF o, e
  <2>4. /\ AmountOf(OlasSwaps, o) \in Nat /\ AtLeastOne(Cardinality(OlasSwaps)) \in Nat \ {0}
        /\ AmountOf(EthSwaps, e) \in Nat /\ AtLeastOne(Cardinality(EthSwaps)) \in Nat \ {0}
    BY <1>1, <2>2, <2>3, AmountType
  <2>5. /\ AmountOf(OlasSwaps, o) \div AtLeastOne(Cardinality(OlasSwaps)) \in Nat
        /\ AmountOf(EthSwaps, e) \div AtLeastOne(Cardinality(EthSwaps)) \in Nat
    BY <2>4, QuotientMono
  <2> QED BY <2>5 DEF Average, Amounts, o, e
<1>4. PriceOLAS \in Nat
  BY <1>2, PriceType
<1>5. SimulationTypes'
  BY <1>3, <1>4 DEF SimulationTypes, Average, first, raiseSteps
<1>6. PriceLP(pool) \in Int
  BY <1>2, PriceFollows
<1>7. Simulated'
  BY <1>2, <1>6 DEF Simulated, Average, LastNoted, PriceLP
<1>8. LPBrackets'
  BY DEF LPBrackets, Average, Simulated
<1> QED BY <1>5, <1>7, <1>8

\* The last noted prices are integers.
LEMMA LastNotedType ==
  ASSUME SimulationTypes
  PROVE  LastNoted(raised) \in Int /\ LastNoted(lowered) \in Int
<1>1. PriceLP(pool) \in Int
  <2>1. pool.olas \in Nat
    BY PricesAssumption DEF SimulationTypes
  <2> QED BY <2>1, PriceFollows
<1>2. ASSUME NEW s \in Seq(Notes), s # <<>>
      PROVE  s[Len(s)].lp \in Int
  <2>1. Len(s) \in 1..Len(s)
    BY <1>2
  <2>2. s[Len(s)] \in Notes
    BY <2>1
  <2> QED BY <2>2 DEF Notes
<1> QED BY <1>1, <1>2 DEF LastNoted, SimulationTypes

\* A swap of ETH leaves less OLAS in the reserves, but some: the LP price falls.
LEMMA SwapETHReserves ==
  ASSUME LPInv, phase = "raise"
  PROVE  /\ AfterSwapETH \in Reserves
         /\ AfterSwapETH.olas <= reserves.olas
         /\ AfterSwapETH.olas * AfterSwapETH.eth >= reserves.olas * reserves.eth
<1>1. /\ reserves.olas \in Nat \ {0} /\ reserves.eth \in Nat \ {0}
      /\ average.eth \in Nat
  BY DEF LPInv, Simulated, SimulationTypes, Reserves, Amounts
<1> DEFINE out == AmountOut(average.eth, reserves.eth, reserves.olas)
<1>2. /\ out \in Nat /\ out < reserves.olas
      /\ (reserves.olas - out) * (reserves.eth + average.eth) >= reserves.olas * reserves.eth
  BY <1>1, SwapOut
<1>3. AfterSwapETH.olas = reserves.olas - out /\ AfterSwapETH.eth = reserves.eth + average.eth
      /\ AfterSwapETH = [olas |-> reserves.olas - out, eth |-> reserves.eth + average.eth]
  BY DEF AfterSwapETH
<1> HIDE DEF out
<1> QED BY <1>1, <1>2, <1>3 DEF Reserves

LEMMA SwapETHInv == LPInv /\ SwapETH => LPInv'
<1> SUFFICES ASSUME LPInv, SwapETH
             PROVE  LPInv'
  OBVIOUS
<1>1. /\ phase = "raise" /\ phase' = "raise" /\ reserves' = AfterSwapETH
      /\ pool' = pool /\ window' = window /\ average' = average /\ lowered' = lowered
  BY DEF SwapETH
<1>2. /\ reserves' \in Reserves /\ reserves'.olas <= reserves.olas
      /\ reserves'.olas \in Nat /\ reserves.olas \in Nat
  BY <1>1, SwapETHReserves DEF LPInv, Simulated, Reserves
<1>3. /\ PriceLP(reserves') \in Int
      /\ PriceLP(reserves') <= LastNoted(raised)
  <2>1. /\ PriceLP(reserves') \in Int /\ PriceLP(reserves) \in Int
        /\ PriceLP(reserves') <= PriceLP(reserves)
    BY <1>2, PriceFollows
  <2>2. PriceLP(reserves) <= LastNoted(raised)
    BY <1>1 DEF LPInv, Simulated
  <2>3. LastNoted(raised) \in Int
    BY <1>1, LastNotedType DEF LPInv
  <2> QED BY <2>1, <2>2, <2>3
<1>4. CASE Price(reserves') >= target
  <2> DEFINE t == Append(raised, [price |-> target, lp |-> PriceLP(reserves')])
  <2>1. /\ raised' = t
        /\ numSteps' = numSteps - 1
        /\ target' = IF numSteps' = 0 THEN target ELSE target + pcStep
    BY <1>4 DEF SwapETH
  <2>2. /\ t \in Seq(Notes) /\ LastNoted(t) = PriceLP(reserves')
        /\ \A i \in DOMAIN t :
             \/ i \in DOMAIN raised /\ t[i].lp = raised[i].lp /\ Before(t, i) = Before(raised, i)
             \/ t[i].lp = PriceLP(reserves') /\ Before(t, i) = LastNoted(raised)
    <3>1. raised \in Seq(Notes) /\ target \in Int
      BY DEF LPInv, SimulationTypes
    <3> QED BY <3>1, <1>3, NoteAdded
  <2> HIDE DEF t
  <2>3. SimulationTypes'
    BY <1>1, <2>1, <2>2 DEF LPInv, SimulationTypes, pcStep
  <2>4. LastNoted(raised)' = PriceLP(reserves')
    BY <1>1, <2>1, <2>2 DEF LastNoted, PriceLP
  <2>5. Simulated'
    BY <1>1, <1>2, <1>3, <2>4 DEF LPInv, Simulated, PriceLP
  <2>6. LPBrackets'
    <3>1. \A i \in DOMAIN raised : raised[i].lp <= Before(raised, i)
      BY DEF LPInv, LPBrackets, Before
    <3>2. \A i \in DOMAIN t : t[i].lp <= Before(t, i)
      BY <1>3, <2>2, <3>1
    <3>3. \A i \in DOMAIN raised' : raised'[i].lp <= Before(raised, i)'
      BY <1>1, <2>1, <3>2 DEF Before, PriceLP
    <3>4. lowered' = <<>>
      BY <1>1 DEF LPInv, Simulated
    <3> QED BY <3>3, <3>4 DEF LPBrackets, Before
  <2> QED BY <2>3, <2>5, <2>6 DEF LPInv
<1>5. CASE ~ (Price(reserves') >= target)
  <2>1. raised' = raised /\ numSteps' = numSteps /\ target' = target
    BY <1>5 DEF SwapETH
  <2>2. SimulationTypes'
    BY <1>1, <2>1 DEF LPInv, SimulationTypes
  <2>3. Simulated'
    BY <1>1, <1>2, <1>3, <2>1 DEF LPInv, Simulated, LastNoted, PriceLP
  <2>4. LPBrackets'
    BY <1>1, <2>1 DEF LPInv, LPBrackets, PriceLP
  <2> QED BY <2>2, <2>3, <2>4 DEF LPInv
<1> QED BY <1>4, <1>5

LEMMA TurnToLowerInv == LPInv /\ TurnToLower => LPInv'
<1> SUFFICES ASSUME LPInv, TurnToLower
             PROVE  LPInv'
  OBVIOUS
<1> USE DEF LPInv, TurnToLower
<1>1. pool \in Reserves /\ pool.olas \in Nat /\ pool.olas # 0 /\ pool.eth \in Nat
  BY DEF Simulated, Reserves
<1>2. pool.olas >= pool.eth => PriceOLAS \in Int
  BY <1>1, PriceType
<1>3. PriceLP(pool) \in Int
  BY <1>1, PriceFollows
<1>4. SimulationTypes'
  BY <1>2 DEF SimulationTypes, Simulated, lowerSteps, pcStep, first
<1>5. Simulated'
  BY <1>1, <1>3 DEF Simulated, LastNoted, PriceLP, Reserves
<1>6. LPBrackets'
  BY DEF LPBrackets, PriceLP
<1> QED BY <1>4, <1>5, <1>6

\* A swap of OLAS puts OLAS into the reserves, whatever it does to the reserve of ETH.
LEMMA SwapOLASReserves ==
  ASSUME LPInv, phase = "lower"
  PROVE  /\ AfterSwapOLAS \in [olas : Nat \ {0}, eth : Int]
         /\ AfterSwapOLAS.olas >= reserves.olas
<1>1. reserves.olas \in Nat \ {0} /\ reserves.eth \in Int /\ average.olas \in Nat
  BY DEF LPInv, Simulated, SimulationTypes, Amounts
<1> DEFINE out == AmountOut(average.olas, reserves.olas, reserves.olas)
<1>2. out \in Nat
  BY <1>1, SwapOut
<1>3. AfterSwapOLAS = [olas |-> reserves.olas + average.olas, eth |-> reserves.eth - out]
  BY DEF AfterSwapOLAS
<1> HIDE DEF out
<1> QED BY <1>1, <1>2, <1>3

LEMMA SwapOLASInv == LPInv /\ SwapOLAS => LPInv'
<1> SUFFICES ASSUME LPInv, SwapOLAS
             PROVE  LPInv'
  OBVIOUS
<1>1. /\ phase = "lower" /\ phase' = "lower" /\ reserves' = AfterSwapOLAS
      /\ pool' = pool /\ window' = window /\ average' = average /\ raised' = raised
  BY DEF SwapOLAS
<1>2. /\ reserves' \in [olas : Nat \ {0}, eth : Int] /\ reserves'.olas >= reserves.olas
      /\ reserves'.olas \in Nat /\ reserves.olas \in Nat
  BY <1>1, SwapOLASReserves DEF LPInv, Simulated
<1>3. /\ PriceLP(reserves') \in Int
      /\ PriceLP(reserves') >= LastNoted(lowered)
  <2>1. /\ PriceLP(reserves') \in Int /\ PriceLP(reserves) \in Int
        /\ PriceLP(reserves) <= PriceLP(reserves')
    BY <1>2, PriceFollows
  <2>2. PriceLP(reserves) >= LastNoted(lowered)
    BY <1>1 DEF LPInv, Simulated
  <2>3. LastNoted(lowered) \in Int
    BY LastNotedType DEF LPInv
  <2> QED BY <2>1, <2>2, <2>3
<1>4. CASE Price(reserves') <= target
  <2> DEFINE t == Append(lowered, [price |-> target, lp |-> PriceLP(reserves')])
  <2>1. /\ lowered' = t
        /\ numSteps' = IF target <= pcStep THEN 0 ELSE numSteps - 1
        /\ target' = IF numSteps' = 0 THEN target ELSE target - pcStep
    BY <1>4 DEF SwapOLAS
  <2>2. /\ t \in Seq(Notes) /\ LastNoted(t) = PriceLP(reserves')
        /\ \A i \in DOMAIN t :
             \/ i \in DOMAIN lowered /\ t[i].lp = lowered[i].lp /\ Before(t, i) = Before(lowered, i)
             \/ t[i].lp = PriceLP(reserves') /\ Before(t, i) = LastNoted(lowered)
    <3>1. lowered \in Seq(Notes) /\ target \in Int
      BY DEF LPInv, SimulationTypes
    <3> QED BY <3>1, <1>3, NoteAdded
  <2> HIDE DEF t
  <2>3. SimulationTypes'
    BY <1>1, <2>1, <2>2 DEF LPInv, SimulationTypes, pcStep
  <2>4. LastNoted(lowered)' = PriceLP(reserves')
    BY <1>1, <2>1, <2>2 DEF LastNoted, PriceLP
  <2>5. Simulated'
    BY <1>1, <1>2, <1>3, <2>4 DEF LPInv, Simulated, PriceLP
  <2>6. LPBrackets'
    <3>1. \A i \in DOMAIN lowered : lowered[i].lp >= Before(lowered, i)
      BY DEF LPInv, LPBrackets, Before
    <3>2. \A i \in DOMAIN t : t[i].lp >= Before(t, i)
      BY <1>3, <2>2, <3>1
    <3>3. \A i \in DOMAIN lowered' : lowered'[i].lp >= Before(lowered, i)'
      BY <1>1, <2>1, <3>2 DEF Before, PriceLP
    <3>4. (\A i \in DOMAIN raised : raised[i].lp <= Before(raised, i))'
      BY <1>1 DEF LPInv, LPBrackets, Before, PriceLP
    <3> QED BY <3>3, <3>4 DEF LPBrackets, Before
  <2> QED BY <2>3, <2>5, <2>6 DEF LPInv
<1>5. CASE ~ (Price(reserves') <= target)
  <2>1. lowered' = lowered /\ numSteps' = numSteps /\ target' = target
    BY <1>5 DEF SwapOLAS
  <2>2. SimulationTypes'
    BY <1>1, <2>1 DEF LPInv, SimulationTypes
  <2>3. Simulated'
    BY <1>1, <1>2, <1>3, <2>1 DEF LPInv, Simulated, LastNoted, PriceLP
  <2>4. LPBrackets'
    BY <1>1, <2>1 DEF LPInv, LPBrackets, PriceLP
  <2> QED BY <2>2, <2>3, <2>4 DEF LPInv
<1> QED BY <1>4, <1>5

\* What is left: the throw, the proposal, and steps that change nothing.
LEMMA OthersInv == LPInv /\ (Throw \/ Propose \/ UNCHANGED vars) => LPInv'
<1>1. LPInv /\ Throw => LPInv'
  BY DEF LPInv, Throw, SimulationTypes, Simulated, LPBrackets, PriceLP
<1>2. LPInv /\ Propose => LPInv'
  BY DEF LPInv, Propose, SimulationTypes, Simulated, LPBrackets, PriceLP
<1>3. LPInv /\ UNCHANGED vars => LPInv'
  BY DEF LPInv, vars, SimulationTypes, Simulated, LastNoted, LPBrackets, PriceLP
<1> QED BY <1>1, <1>2, <1>3

\* Types, simulated reserves and noted prices together are inductive: that a price
\* follows the last one needs the reserves it was computed from.
THEOREM SimulationHolds == Spec => []LPInv
<1>1. LPInv /\ [Next]_vars => LPInv'
  BY AverageInv, SwapETHInv, TurnToLowerInv, SwapOLASInv, OthersInv DEF Next
<1> QED BY LPInitInv, <1>1, PTL DEF Spec

\* The LP prices noted for higher prices of OLAS never exceed today's, those for lower
\* ones are never below it, and each list moves one way: for every pool, window and
\* scale, also where the simulated reserve of ETH becomes negative.
THEOREM AlwaysBrackets == Spec => []LPBrackets
<1>1. LPInv => LPBrackets
  BY DEF LPInv
<1> QED BY <1>1, SimulationHolds, PTL

\* Every simulated swap of ETH leaves the product of the reserves at least as large, as
\* the pool's own swap does: rounding and the fee are to the pool's advantage.
THEOREM ProductAlwaysGrows == Spec => ProductGrows
<1>1. ASSUME LPInv, [Next]_vars
      PROVE  [phase = "raise" /\ phase' = "raise" =>
                reserves'.olas * reserves'.eth >= reserves.olas * reserves.eth]_vars
  <2> SUFFICES ASSUME Next, phase = "raise", phase' = "raise"
               PROVE  reserves'.olas * reserves'.eth >= reserves.olas * reserves.eth
    BY <1>1
  <2>1. SwapETH
    BY DEF Next, Average, Throw, TurnToLower, SwapOLAS, Propose
  <2>2. reserves' = AfterSwapETH
    BY <2>1 DEF SwapETH
  <2> QED BY <1>1, <2>2, SwapETHReserves
<1> QED BY <1>1, SimulationHolds, PTL DEF ProductGrows, Spec

=============================================================================
