--------------------------- MODULE LiquidityPrices ---------------------------
(***************************************************************************)
(* tokenomics/scripts/proposals/proposal_03_calculate_LP_OLAS_WETH_uniswap: *)
(* the LP price of a bonding product is found by simulating swaps on a copy *)
(* of the pool's reserves.  The average swap of the last days is repeated   *)
(* until the price of OLAS has passed a target, the LP price is noted, and  *)
(* the target moves on; first upwards, then, from the initial reserves,     *)
(* downwards.                                                              *)
(*                                                                         *)
(* BigNumber arithmetic is integer arithmetic that truncates towards zero.  *)
(* Amounts are scaled down so that TLC's 32 bits hold every product.        *)
(***************************************************************************)
EXTENDS Totals, Sequences, FiniteSets

CONSTANTS
    Windows,        \* the swaps the pool may have logged: sequences of [olasIn, ethIn]
    Pools,          \* the reserves it may have: records [olas, eth]
    PriceETH,       \* in cents
    TotalSupply,    \* of the LP token
    Scale           \* e18 of the script

\* Both reserves of a pool are positive once it has liquidity.
ASSUME PricesAssumption ==
    /\ \A w \in Windows : w \in Seq([olasIn : Nat, ethIn : Nat])
    /\ Pools \subseteq [olas : Nat \ {0}, eth : Nat \ {0}]
    /\ PriceETH \in Nat /\ TotalSupply \in Nat \ {0} /\ Scale \in Nat

VARIABLES
    phase,          \* where the script is
    pool, window,   \* what it read
    average,        \* the average amounts put in by a swap: [olas, eth]
    reserves,       \* newReservesOLAS, newReservesETH
    target,         \* targetPrice
    numSteps,
    raised, lowered,  \* the prices noted: sequences of [price, lp]
    proposed        \* pricesLP, the prices in the calldata

vars == <<phase, pool, window, average, reserves, target, numSteps,
          raised, lowered, proposed>>

NoAmounts == [olas |-> 0, eth |-> 0]
first == 4
pcStep == 5
raiseSteps == 20
lowerSteps == 10

\* BN.div of a number by a positive one.
Div(a, b) == IF a >= 0 THEN a \div b ELSE -((-a) \div b)

Price(r) == Div(r.eth * PriceETH, r.olas)

PriceLP(r) == Div(r.olas * Scale, TotalSupply) * 2

\* The OLAS price in cents is rounded from priceETH / olasPerETH, and so loses
\* what the integer division of the reserves lost.
PriceOLAS == PriceETH \div (pool.olas \div pool.eth)

Init ==
    /\ phase = "average" /\ pool \in Pools /\ window \in Windows
    /\ average = NoAmounts /\ reserves = pool
    /\ target = 0 /\ numSteps = 0
    /\ raised = <<>> /\ lowered = <<>> /\ proposed = <<>>

\* A swap that puts no OLAS in counts as one that puts ETH in.
EthSwaps == {i \in 1..Len(window) : window[i].olasIn = 0}
OlasSwaps == (1..Len(window)) \ EthSwaps

\* The sum of the amounts of some of the swaps.
AmountOf(swaps, amounts) ==
    Total([i \in 1..Len(window) |-> IF i \in swaps THEN amounts[i] ELSE 0], Len(window))
AtLeastOne(n) == IF n = 0 THEN 1 ELSE n

\* Without a swap in the window, or with fewer OLAS than ETH in the pool, a
\* division by zero throws.
Throws == window = <<>> \/ pool.olas < pool.eth

Average ==
    /\ phase = "average" /\ ~Throws
    /\ average' = [olas |-> AmountOf(OlasSwaps, [i \in OlasSwaps |-> window[i].olasIn])
                              \div AtLeastOne(Cardinality(OlasSwaps)),
                   eth |-> AmountOf(EthSwaps, [i \in EthSwaps |-> window[i].ethIn])
                              \div AtLeastOne(Cardinality(EthSwaps))]
    /\ phase' = "raise" /\ target' = PriceOLAS + first /\ numSteps' = raiseSteps
    /\ UNCHANGED <<pool, window, reserves, raised, lowered, proposed>>

Throw ==
    /\ phase = "average" /\ Throws
    /\ phase' = "failed"
    /\ UNCHANGED <<pool, window, average, reserves, target, numSteps,
                   raised, lowered, proposed>>

\* What a swap takes out of the reserve `out` for `a` put into the reserve `in`.
AmountOut_spot(a, in, out) == Div(a * 997 * out, in * 1000)

AmountOut(a, in, out) == Div(a * 997 * out, in * 1000 + a * 997)

\* A swap of the average amount of ETH, and the note of the LP price when it
\* reaches the target.
AfterSwapETH_ofPool ==
    [olas |-> pool.olas - AmountOut(average.eth, pool.eth, pool.olas),
     eth |-> pool.eth + average.eth]

AfterSwapETH ==
    [olas |-> reserves.olas - AmountOut(average.eth, reserves.eth, reserves.olas),
     eth |-> reserves.eth + average.eth]

SwapETH ==
    /\ phase = "raise" /\ numSteps > 0
    /\ reserves' = AfterSwapETH
    /\ IF Price(reserves') >= target
       THEN /\ raised' = Append(raised, [price |-> target, lp |-> PriceLP(reserves')])
            /\ numSteps' = numSteps - 1
            /\ target' = IF numSteps' = 0 THEN target ELSE target + pcStep
       ELSE UNCHANGED <<raised, numSteps, target>>
    /\ UNCHANGED <<phase, pool, window, average, lowered, proposed>>

TurnToLower_fromRaised ==
    /\ phase = "raise" /\ numSteps = 0
    /\ phase' = "lower" /\ numSteps' = lowerSteps
    /\ target' = PriceOLAS - (pcStep - first)
    /\ UNCHANGED <<pool, window, average, reserves, raised, lowered, proposed>>

TurnToLower ==
    /\ phase = "raise" /\ numSteps = 0
    /\ phase' = "lower" /\ numSteps' = lowerSteps
    /\ reserves' = pool
    /\ target' = PriceOLAS - (pcStep - first)
    /\ UNCHANGED <<pool, window, average, raised, lowered, proposed>>

\* The numerator takes the reserve of OLAS where a swap of OLAS for ETH takes
\* that of ETH: the ETH paid out is about as large as the OLAS put in, and the
\* reserve may fall below zero.
AfterSwapOLAS ==
    [olas |-> reserves.olas + average.olas,
     eth |-> reserves.eth - AmountOut(average.olas, reserves.olas, reserves.olas)]

SwapOLAS ==
    /\ phase = "lower" /\ numSteps > 0
    /\ reserves' = AfterSwapOLAS
    /\ IF Price(reserves') <= target
       THEN /\ lowered' = Append(lowered, [price |-> target, lp |-> PriceLP(reserves')])
            /\ numSteps' = IF target <= pcStep THEN 0 ELSE numSteps - 1
            /\ target' = IF numSteps' = 0 THEN target ELSE target - pcStep
       ELSE UNCHANGED <<lowered, numSteps, target>>
    /\ UNCHANGED <<phase, pool, window, average, raised, proposed>>

\* pricesLP takes the first OLAS price, where the LP price beside it is meant.
Propose ==
    /\ phase = "lower" /\ numSteps = 0
    /\ phase' = "done"
    /\ proposed' = <<raised[1].price>>
    /\ UNCHANGED <<pool, window, average, reserves, target, numSteps, raised, lowered>>

Next == Average \/ Throw \/ SwapETH \/ TurnToLower \/ SwapOLAS \/ Propose

Spec == Init /\ [][Next]_vars /\ WF_vars(Next)

(***************************************************************************)
(* Properties                                                              *)
(***************************************************************************)

\* The simulated swaps towards higher prices never take more out of the pool
\* than the pool's own constant-product rule allows (lines 148-156): the price
\* found would otherwise be one the pool can never have.
ProductGrows ==
    [][phase = "raise" /\ phase' = "raise" =>
         reserves'.olas * reserves'.eth >= reserves.olas * reserves.eth]_vars

\* The LP prices noted for higher OLAS prices are at most today's, those noted
\* for lower ones at least today's, and each list moves one way: a product
\* priced from either list is priced from today's pool (lines 164, 178-180, 216).
LPBrackets ==
    /\ \A i \in DOMAIN raised :
         raised[i].lp <= (IF i = 1 THEN PriceLP(pool) ELSE raised[i - 1].lp)
    /\ \A i \in DOMAIN lowered :
         lowered[i].lp >= (IF i = 1 THEN PriceLP(pool) ELSE lowered[i - 1].lp)

\* Both `while (condition)` loops end when the window had swaps of both kinds;
\* with one kind only the average of the other is zero, the simulated reserves
\* stay as they are and the script never ends (lines 140-172, 192-224).
BothEnd == (average.olas > 0 /\ average.eth > 0) ~> phase = "done"
===============================================================================
