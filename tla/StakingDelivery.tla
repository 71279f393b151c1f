--------------------------- MODULE StakingDelivery ---------------------------
(***************************************************************************)
(* What the Dispenser on L1 and the target dispenser on L2 promise together *)
(* about staking incentives (tokenomics/contracts/Dispenser.sol and         *)
(* tokenomics/contracts/staking/DefaultTargetDispenserL2.sol): an incentive *)
(* that was claimed for a target is settled once, as a deposit to that      *)
(* target or as an amount withheld, and what was withheld takes the place   *)
(* of OLAS that would be minted for later claims, once.  Messages, nonces   *)
(* and queues are left open.                                                *)
(***************************************************************************)
EXTENDS Integers, Totals

CONSTANTS
    NumTargets,
    Unit        \* the smallest amount that is carried between the chains

Targets == 1..NumTargets

VARIABLES
    owed,  \* claimed for a target and not yet settled
    paid,  \* deposited to a target
    spare  \* withheld, and not yet used for another claim

vars == <<owed, paid, spare>>

Init ==
    /\ owed = [t \in Targets |-> 0]
    /\ paid = [t \in Targets |-> 0]
    /\ spare = 0

Change(old, new) == Total([t \in Targets |-> new[t] - old[t]], NumTargets)

\* Incentives are claimed; up to their total comes out of what was withheld.
Claim ==
    /\ \A t \in Targets : owed'[t] >= owed[t]
    /\ spare' \in 0..spare
    /\ spare - spare' <= Change(owed, owed')
    /\ UNCHANGED paid

\* Part of what is owed to targets is deposited, the rest of it withheld.
Settle ==
    /\ \A t \in Targets :
        /\ owed'[t] >= 0
        /\ paid'[t] - paid[t] \in 0..(owed[t] - owed'[t])
    /\ spare' - spare = Change(owed', owed) - Change(paid, paid')

\* An amount withheld that has to be reported again is rounded down to units.
RoundDown ==
    /\ spare' >= 0
    /\ spare - spare' \in 0..(Unit - 1)
    /\ UNCHANGED <<owed, paid>>

Next == Claim \/ Settle \/ RoundDown

Spec == Init /\ [][Next]_vars
=============================================================================
