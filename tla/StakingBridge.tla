---------------------------- MODULE StakingBridge ----------------------------
(***************************************************************************)
(* Staking incentives on their way from L1 to the staking contracts of one  *)
(* L2 chain: the claims of tokenomics/contracts/Dispenser.sol, the deposit  *)
(* processor that sends OLAS and data over the bridge of the chain, and     *)
(* tokenomics/contracts/staking/DefaultTargetDispenserL2.sol.               *)
(*                                                                          *)
(* OLAS and data of a batch travel apart, in any order, and each may fail   *)
(* and be restored by the DAO.  A bridge that delivers both in one          *)
(* transaction (Gnosis, Wormhole) takes the two steps one after the other.  *)
(* As the DAO restores a transfer only once it has failed for good, a       *)
(* transfer is in lost from its failure until then.                         *)
(* An action is one transaction; the lock of the target dispenser keeps     *)
(* calls of the targets out.  An operator named after another one with a    *)
(* suffix, as BalanceSteps_cached, is a faulty variant that the properties  *)
(* have to notice.                                                          *)
(***************************************************************************)
EXTENDS Integers, FiniteSets, Totals

CONSTANTS
    NumTargets,  \* staking targets of the chain, in the order of their addresses
    Incentives,  \* staking incentives that claims arrive at
    Limits,      \* emission limits that the staking factory answers
    BridgeUnit,  \* 10 ** (18 - getBridgingDecimals()): the smallest amount the bridge carries
    MaxWithheld, \* type(uint96).max
    MaxBatches,  \* bound on the batches that are sent
    MaxSyncs,    \* bound on the withheld amounts that are sent
    MaxFailures  \* bound on the transfers that are lost at the same time

ASSUME BridgeAssumption ==
    /\ NumTargets \in Nat
    /\ Incentives \subseteq Nat
    /\ Limits \subseteq Nat
    /\ BridgeUnit \in Nat \ {0}
    /\ MaxWithheld \in Nat
    /\ MaxBatches \in Nat /\ MaxSyncs \in Nat /\ MaxFailures \in Nat

Targets == 1..NumTargets
Batches == 1..MaxBatches
Syncs == 1..MaxSyncs

VARIABLES
    \* L1
    withheldL1,        \* mapChainIdWithheldAmounts of the chain
    batches,           \* stakingBatchNonce of the deposit processor
    processorOLAS,     \* OLAS that stays with the deposit processor
    \* the bridge
    data,              \* incentives of each batch, by target, until they are delivered
    olas,              \* OLAS of each batch until it arrives
    syncs,             \* withheld amounts on the way to L1, until they are delivered
    numSyncs,
    lost,              \* transfers that failed and wait for the DAO
    \* L2
    balance,           \* OLAS of the target dispenser
    withheldAmount,
    stakingBatchNonce,
    queue,             \* stakingQueueingNonces: queue[n + 1][t] is queued for t under nonce n
    paused,
    migrated,          \* _locked for good, without an owner
    movedOLAS,         \* OLAS that migrate sent to the next target dispenser
    deposited          \* OLAS deposited to each target

l1Vars == <<withheldL1, batches, processorOLAS>>
bridgeVars == <<data, olas, syncs, numSyncs, lost>>
l2Vars == <<balance, withheldAmount, stakingBatchNonce, queue, deposited>>
ownerVars == <<paused, migrated, movedOLAS>>
vars == <<l1Vars, bridgeVars, l2Vars, ownerVars>>

NoAmounts == [t \in Targets |-> 0]
Least(a, b) == IF a <= b THEN a ELSE b

Init ==
    /\ withheldL1 = 0
    /\ batches = 0
    /\ processorOLAS = 0
    /\ data = [b \in Batches |-> NoAmounts]
    /\ olas = [b \in Batches |-> 0]
    /\ syncs = [s \in Syncs |-> 0]
    /\ numSyncs = 0
    /\ lost = {}
    /\ balance = 0
    /\ withheldAmount = 0
    /\ stakingBatchNonce = 0
    /\ queue = [b \in Batches |-> NoAmounts]
    /\ paused = FALSE
    /\ migrated = FALSE
    /\ movedOLAS = 0
    /\ deposited = NoAmounts

-----------------------------------------------------------------------------
(* L1: claims, which arrive at an incentive for each target.  Claims without *)
(* one send nothing, or data of no target, and are left out.                 *)

\* amount / 10 ** (18 - bridgingDecimals) * 10 ** (18 - bridgingDecimals)
Normalize(amount) == (amount \div BridgeUnit) * BridgeUnit

\* What a claim arrives at is normalized before it is sent.
StakingIncentives_asClaimed(claimed) == claimed
StakingIncentives(claimed) == [t \in Targets |-> Normalize(claimed[t])]

\* Withheld OLAS, which is on L2 already, replaces OLAS of the transfer.
WithheldUsed(total) == Least(withheldL1, total)
WithheldLeft(total) == withheldL1 - WithheldUsed(total)
TransferAmount_noneIfWithheld(total) == IF withheldL1 > 0 THEN 0 ELSE total
TransferAmount(total) == total - WithheldUsed(total)

\* claimStakingIncentives and claimStakingIncentivesBatch for this chain.  The
\* deposit processor keeps what the bridge cannot carry.
claimStakingIncentives(claimed) ==
    LET amounts  == StakingIncentives(claimed)
        total    == Total(amounts, NumTargets)
        transfer == TransferAmount(total)
    IN  /\ total > 0
        /\ batches < MaxBatches
        /\ batches' = batches + 1
        /\ withheldL1' = WithheldLeft(total)
        /\ data' = [data EXCEPT ![batches + 1] = amounts]
        /\ olas' = [olas EXCEPT ![batches + 1] = Normalize(transfer)]
        /\ processorOLAS' = processorOLAS + transfer - Normalize(transfer)
        /\ UNCHANGED <<syncs, numSyncs, lost, l2Vars, ownerVars>>

\* A withheld amount is delivered to L1, unless the sum overflows.
syncWithheldAmount(s) ==
    /\ syncs[s] > 0
    /\ <<"sync", s>> \notin lost
    /\ withheldL1 + syncs[s] <= MaxWithheld
    /\ withheldL1' = withheldL1 + syncs[s]
    /\ syncs' = [syncs EXCEPT ![s] = 0]
    /\ UNCHANGED <<batches, processorOLAS, data, olas, numSyncs, lost, l2Vars, ownerVars>>

\* The DAO restores a withheld amount whose message was not delivered.
syncWithheldAmountMaintenance(s) ==
    /\ syncs[s] > 0
    /\ <<"sync", s>> \in lost
    /\ withheldL1 + Normalize(syncs[s]) <= MaxWithheld
    /\ withheldL1' = withheldL1 + Normalize(syncs[s])
    /\ syncs' = [syncs EXCEPT ![s] = 0]
    /\ lost' = lost \ {<<"sync", s>>}
    /\ UNCHANGED <<batches, processorOLAS, data, olas, numSyncs, l2Vars, ownerVars>>

-----------------------------------------------------------------------------
(* L2: what _processData does with the amounts of a batch, given the limit  *)
(* that the factory answers for each target; a failing call counts as zero. *)

Accepted(amounts, limits) == [t \in Targets |-> Least(amounts[t], limits[t])]
WithheldTotal(amounts, limits) ==
    Total([t \in Targets |-> amounts[t] - Accepted(amounts, limits)[t]], NumTargets)

\* The balance before the loop and after each target: who can be paid is.
BalanceSteps_cached(accepted) ==
    [k \in 0..NumTargets |-> balance]
BalanceSteps(accepted) ==
    LET left[k \in 0..NumTargets] ==
            IF k = 0 THEN balance
            ELSE IF ~paused /\ accepted[k] <= left[k - 1] THEN left[k - 1] - accepted[k]
            ELSE left[k - 1]
    IN left

Paid_whenPaused(accepted) ==
    [t \in Targets |-> IF accepted[t] <= balance THEN accepted[t] ELSE 0]
Paid(accepted) ==
    [t \in Targets |->
        IF ~paused /\ accepted[t] <= BalanceSteps(accepted)[t - 1] THEN accepted[t] ELSE 0]
Queued(accepted) == [t \in Targets |-> accepted[t] - Paid(accepted)[t]]

\* The part of the queue that the batch nonce stands for.
QueueKey_withoutNonce == 1
QueueKey == stakingBatchNonce + 1

_processData(amounts, limits) ==
    LET accepted == Accepted(amounts, limits)
    IN  /\ balance' = balance - Total(Paid(accepted), NumTargets)
        /\ deposited' = [t \in Targets |-> deposited[t] + Paid(accepted)[t]]
        /\ queue' = [queue EXCEPT ![QueueKey] = Queued(accepted)]
        /\ withheldAmount' = withheldAmount + WithheldTotal(amounts, limits)
        /\ stakingBatchNonce' = stakingBatchNonce + 1

\* A batch that was sent and whose data is not processed yet.
Undelivered(b) == data[b] # NoAmounts

receiveMessage(b, limits) ==
    /\ ~migrated
    /\ Undelivered(b)
    /\ <<"data", b>> \notin lost
    /\ _processData(data[b], limits)
    /\ data' = [data EXCEPT ![b] = NoAmounts]
    /\ UNCHANGED <<l1Vars, olas, syncs, numSyncs, lost, ownerVars>>

\* The DAO provides data that was not delivered.
processDataMaintenance(b, limits) ==
    /\ ~migrated
    /\ Undelivered(b)
    /\ <<"data", b>> \in lost
    /\ _processData(data[b], limits)
    /\ data' = [data EXCEPT ![b] = NoAmounts]
    /\ lost' = lost \ {<<"data", b>>}
    /\ UNCHANGED <<l1Vars, olas, syncs, numSyncs, ownerVars>>

\* redeem(target, amount, batchNonce)
redeem(n, t) ==
    /\ ~migrated
    /\ ~paused
    /\ queue[n][t] > 0
    /\ balance >= queue[n][t]
    /\ balance' = balance - queue[n][t]
    /\ deposited' = [deposited EXCEPT ![t] = @ + queue[n][t]]
    /\ queue' = [queue EXCEPT ![n][t] = 0]
    /\ UNCHANGED <<l1Vars, bridgeVars, withheldAmount, stakingBatchNonce, ownerVars>>

\* The amount is on its way to L1 now, and is not to be sent again.
WithheldAfterSync_kept == withheldAmount
WithheldAfterSync == 0
syncWithheldTokens ==
    /\ ~migrated
    /\ ~paused
    /\ withheldAmount > 0
    /\ numSyncs < MaxSyncs
    /\ numSyncs' = numSyncs + 1
    /\ syncs' = [syncs EXCEPT ![numSyncs + 1] = withheldAmount]
    /\ withheldAmount' = WithheldAfterSync
    /\ UNCHANGED <<l1Vars, data, olas, lost, balance, stakingBatchNonce, queue, deposited, ownerVars>>

pause ==
    /\ ~migrated
    /\ ~paused
    /\ paused' = TRUE
    /\ UNCHANGED <<l1Vars, bridgeVars, l2Vars, migrated, movedOLAS>>

unpause ==
    /\ ~migrated
    /\ paused
    /\ paused' = FALSE
    /\ UNCHANGED <<l1Vars, bridgeVars, l2Vars, migrated, movedOLAS>>

migrate ==
    /\ ~migrated
    /\ paused
    /\ migrated' = TRUE
    /\ movedOLAS' = movedOLAS + balance
    /\ balance' = 0
    /\ UNCHANGED <<l1Vars, bridgeVars, withheldAmount, stakingBatchNonce, queue, deposited, paused>>

-----------------------------------------------------------------------------
(* The bridge                                                               *)

\* OLAS arrives, by the bridge or sent again after a vote of the DAO.
ArriveOLAS(b) ==
    /\ olas[b] > 0
    /\ balance' = balance + olas[b]
    /\ olas' = [olas EXCEPT ![b] = 0]
    /\ lost' = lost \ {<<"olas", b>>}
    /\ UNCHANGED <<l1Vars, data, syncs, numSyncs, withheldAmount, stakingBatchNonce, queue,
                   deposited, ownerVars>>

InTransit ==
    {<<"data", b>> : b \in {b \in Batches : Undelivered(b)}}
    \cup {<<"olas", b>> : b \in {b \in Batches : olas[b] > 0}}
    \cup {<<"sync", s>> : s \in {s \in Syncs : syncs[s] > 0}}

Lose(transfer) ==
    /\ transfer \in InTransit \ lost
    /\ Cardinality(lost) < MaxFailures
    /\ lost' = lost \cup {transfer}
    /\ UNCHANGED <<l1Vars, data, olas, syncs, numSyncs, l2Vars, ownerVars>>

Next ==
    \/ \E claimed \in [Targets -> Incentives] : claimStakingIncentives(claimed)
    \/ \E s \in Syncs : syncWithheldAmount(s)
    \/ \E s \in Syncs : syncWithheldAmountMaintenance(s)
    \/ \E b \in Batches, limits \in [Targets -> Limits] : receiveMessage(b, limits)
    \/ \E b \in Batches, limits \in [Targets -> Limits] : processDataMaintenance(b, limits)
    \/ \E n \in Batches, t \in Targets : redeem(n, t)
    \/ syncWithheldTokens
    \/ pause
    \/ unpause
    \/ migrate
    \/ \E b \in Batches : ArriveOLAS(b)
    \/ \E transfer \in InTransit : Lose(transfer)

Spec == Init /\ [][Next]_vars

\* The relayers of the bridge deliver, and whoever wants a request redeemed
\* may do it.
Fairness ==
    /\ \A b \in Batches : WF_vars(ArriveOLAS(b))
    /\ \A n \in Batches, t \in Targets : WF_vars(redeem(n, t))

FairSpec == Spec /\ Fairness

-----------------------------------------------------------------------------
(* Properties                                                               *)

\* Amounts fit their slots; what the target dispenser pays never exceeds what
\* it holds.
TypeOK ==
    /\ withheldL1 \in 0..MaxWithheld
    /\ batches \in 0..MaxBatches
    /\ processorOLAS \in Nat
    /\ data \in [Batches -> [Targets -> Nat]]
    /\ olas \in [Batches -> Nat]
    /\ syncs \in [Syncs -> Nat]
    /\ numSyncs \in 0..MaxSyncs
    /\ lost \in SUBSET ({"data", "olas", "sync"} \X (Batches \cup Syncs))
    /\ balance \in Nat
    /\ withheldAmount \in Nat
    /\ stakingBatchNonce \in 0..batches
    /\ queue \in [Batches -> [Targets -> Nat]]
    /\ paused \in BOOLEAN
    /\ migrated \in BOOLEAN
    /\ movedOLAS \in Nat
    /\ deposited \in [Targets -> Nat]

\* Every unit of OLAS that was sent or is about to be is there for one purpose:
\* batches on the way, queued requests, or an amount withheld on L2, on its way
\* to L1, or known to L1.  As long as the limits of the factory are in units of
\* the bridge, so is all that is withheld, and then every transfer is: none is left
\* over, and none stays with the deposit processor.
GrandTotal(amounts) == Total([b \in Batches |-> Total(amounts[b], NumTargets)], MaxBatches)
HeldOLAS == balance + movedOLAS + processorOLAS + Total(olas, MaxBatches)
Withheld == withheldL1 + Total(syncs, MaxSyncs) + withheldAmount
ClaimedOLAS == GrandTotal(data) + GrandTotal(queue) + Withheld
LimitsInUnits == \A l \in Limits : Normalize(l) = l
Backed ==
    /\ HeldOLAS >= ClaimedOLAS
    /\ LimitsInUnits => HeldOLAS = ClaimedOLAS /\ processorOLAS = 0

\* While the target dispenser is paused no target is paid, by a delivered
\* batch, by the DAO or by redeem, and no withheld amount leaves for L1.
PausedPaysNothing ==
    [][paused => deposited' = deposited /\ numSyncs' = numSyncs]_vars

\* A queued request is redeemed, whatever batches arrive before and after it,
\* unless the owner keeps pausing the contract.
QueuedIsRedeemed ==
    <>[]~paused =>
        \A n \in Batches, t \in Targets : queue[n][t] > 0 ~> queue[n][t] = 0

(* The abstract view: what is owed and paid to each target, and withheld.    *)
OwedTo(t) == Total([b \in Batches |-> data[b][t] + queue[b][t]], MaxBatches)

Delivery == INSTANCE StakingDelivery
    WITH Unit  <- BridgeUnit,
         owed  <- [t \in Targets |-> OwedTo(t)],
         paid  <- deposited,
         spare <- Withheld

\* Each claimed incentive is paid to its target or withheld exactly once, and
\* each withheld unit reused at most once, whatever is lost, restored, queued,
\* paused or migrated on the way; a withheld amount that the DAO restores on L1
\* loses less than one unit of the bridge.
ImplementsDelivery == Delivery!Spec
=============================================================================
