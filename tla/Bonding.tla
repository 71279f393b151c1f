------------------------------- MODULE Bonding -------------------------------
(***************************************************************************)
(* The bond programme: products and bonds of tokenomics/contracts/           *)
(* Depository.sol, and the treasury that mints the OLAS of a bond when LP     *)
(* tokens are deposited.  What a deposit pays out is the business of the      *)
(* calculator: any of a set of amounts.                                      *)
(***************************************************************************)
EXTENDS Inflation

CONSTANTS
    Supplies,           \* of the products that the owner creates
    Payouts,            \* of deposits
    Vesting,
    MaxProducts, MaxBonds   \* bounds on the numbers of products and of bonds

ASSUME BondingAssumption ==
    /\ Supplies \subseteq Nat \ {0} /\ Payouts \subseteq Nat /\ Vesting \in Nat
    /\ MaxProducts \in Nat /\ MaxBonds \in Nat

VARIABLES
    supply,             \* of each product, 0 when it is closed or does not exist
    productCounter, bondCounter,
    payout, maturity,   \* of each bond, payout 0 when it is redeemed or does not exist
    depositoryOLAS,     \* the depository's balance
    redeemed            \* OLAS that has left it

bondingVars == <<supply, productCounter, bondCounter, payout, maturity, depositoryOLAS, redeemed>>

Products == 1..MaxProducts
Bonds == 1..MaxBonds

BondingInit ==
    /\ supply = [p \in Products |-> 0] /\ productCounter = 0
    /\ payout = [b \in Bonds |-> 0] /\ maturity = [b \in Bonds |-> 0] /\ bondCounter = 0
    /\ depositoryOLAS = 0 /\ redeemed = 0

\* Of Inflation only effectiveBond changes.
inflationRest == <<paramVars, settleVars, stakingIncentive>>

create_unchecked(s) ==
    /\ productCounter < MaxProducts
    /\ effectiveBond' = effectiveBond - s
    /\ supply' = [supply EXCEPT ![productCounter + 1] = s]
    /\ productCounter' = productCounter + 1
    /\ UNCHANGED <<totalSupply, inflationRest, bondCounter, payout, maturity,
                   depositoryOLAS, redeemed>>

create(s) ==
    /\ productCounter < MaxProducts
    /\ effectiveBond >= s
    /\ effectiveBond' = effectiveBond - s
    /\ supply' = [supply EXCEPT ![productCounter + 1] = s]
    /\ productCounter' = productCounter + 1
    /\ UNCHANGED <<totalSupply, inflationRest, bondCounter, payout, maturity,
                   depositoryOLAS, redeemed>>

close_kept(p) ==
    /\ supply[p] > 0
    /\ effectiveBond' = effectiveBond + supply[p]
    /\ UNCHANGED <<totalSupply, inflationRest, bondingVars>>

close(p) ==
    /\ supply[p] > 0
    /\ effectiveBond' = effectiveBond + supply[p]
    /\ supply' = [supply EXCEPT ![p] = 0]
    /\ UNCHANGED <<totalSupply, inflationRest, productCounter, bondCounter, payout, maturity,
                   depositoryOLAS, redeemed>>

\* The bond is recorded whether or not the mint goes through.
deposit(p, amount) ==
    /\ bondCounter < MaxBonds
    /\ supply[p] > 0 /\ amount <= supply[p]
    /\ supply' = [supply EXCEPT ![p] = @ - amount]
    /\ payout' = [payout EXCEPT ![bondCounter + 1] = amount]
    /\ maturity' = [maturity EXCEPT ![bondCounter + 1] = now + Vesting]
    /\ bondCounter' = bondCounter + 1
    /\ totalSupply' = totalSupply + Minted(amount)
    /\ depositoryOLAS' = depositoryOLAS + Minted(amount)
    /\ UNCHANGED <<inflationRest, effectiveBond, productCounter, redeemed>>

Redeemable(b) == payout[b] > 0 /\ now >= maturity[b]

redeem_undeleted(S) ==
    LET amount == TotalOver(LAMBDA b : IF b \in S THEN payout[b] ELSE 0, MaxBonds)
    IN  /\ S # {} /\ \A b \in S : Redeemable(b)
        /\ amount <= depositoryOLAS
        /\ depositoryOLAS' = depositoryOLAS - amount
        /\ redeemed' = redeemed + amount
        /\ UNCHANGED <<totalSupply, inflationVars, supply, productCounter, bondCounter,
                       payout, maturity>>

\* The bonds of one account are redeemed together, each of them redeemable; the transfer
\* reverts when the balance does not cover them.
redeem(S) ==
    LET amount == TotalOver(LAMBDA b : IF b \in S THEN payout[b] ELSE 0, MaxBonds)
    IN  /\ S # {} /\ \A b \in S : Redeemable(b)
        /\ amount <= depositoryOLAS
        /\ payout' = [b \in Bonds |-> IF b \in S THEN 0 ELSE payout[b]]
        /\ maturity' = [b \in Bonds |-> IF b \in S THEN 0 ELSE maturity[b]]
        /\ depositoryOLAS' = depositoryOLAS - amount
        /\ redeemed' = redeemed + amount
        /\ UNCHANGED <<totalSupply, inflationVars, supply, productCounter, bondCounter>>

(***************************************************************************)
(* Properties                                                              *)
(***************************************************************************)

Outstanding == Total(payout, MaxBonds)
OnSale == Total(supply, MaxProducts)

\* What may still be bonded, what is on sale, what bonds are owed and what they were paid is
\* what the settled epochs yielded for bonds and the credit of the current one: products may
\* be closed, sold out or created again, and epochs settled late or across years, without a
\* unit of OLAS bonded twice or lost (Tokenomics.sol:1164, Depository.sol:262).  Only the first
\* epoch can be credited with more than it yields, and only if it was to end in the second year:
\* that much stays in the budget for good.
BondBudget ==
    /\ effectiveBond + OnSale + Outstanding + redeemed =
         maxBond + Total([e \in Epochs |-> IF e < epochCounter THEN BondOf(totalTopUpsOLAS[e], e)
                                           ELSE 0], MaxEpochs) + Overcredit
    /\ FirstInYear => Overcredit = 0
===============================================================================
