# Olas in TLA+

Specifications of the Olas (Autonolas) contracts, checked with TLC on small
instances, and theorems about them, proved with TLAPS for every value of the
constants. Paths below are relative to the repository's root, except for the
names of modules and configurations, which are in this directory.

Six parts are specified: the **staking contracts** (`Staking`), the way of
**staking incentives over a bridge** (`StakingBridge`), **vote weighting**
(`VoteWeighting`), the **economy** of Tokenomics, Treasury, Depository, Dispenser
and OLAS (`Economy`), the **life of services** in the registry and the token ledger
(`Services`), and the **deployment**: the scripts that set all of this up, their
proposals and their audits (`Deployment`), with the script that computes the
**prices** of a bonding product (`LiquidityPrices`).

## 1. Inventory

The repository holds three groups of contracts: `governance/`, `registries/` and
`tokenomics/`. A transaction is atomic, so concurrency means: which account calls
next, calls from within a call (token transfers that call their receiver),
messages between chains, and time that passes between calls.

| Component | State | Operations | Interacts with |
|---|---|---|---|
| Staking contracts (`registries/contracts/staking/StakingBase.sol`, `StakingToken.sol`, `StakingNativeToken.sol`) | record of each service (owner, start, reward, inactivity), array of staked ids, available rewards, balance, checkpoint time | `stake`, `unstake`, `checkpoint`, `claim`, `checkpointAndClaim`, `deposit` | holds tokens of the service registry; asks an activity checker; is funded by target dispensers |
| Staking factory, verifier, activity checker | implementations, instances, nonce, limits | create an instance, answer emission limits | answers the target dispensers |
| Dispenser (`tokenomics/contracts/Dispenser.sol`) | last claimed epoch and removal epoch of each nominee, withheld amount of each chain, pause level | claims of staking incentives, `retain`, claims of owners, callbacks at addition and removal of nominees, sync of withheld amounts | reads weights of VoteWeighting and incentives of Tokenomics, mints by Treasury, sends by deposit processors |
| Deposit processors (L1) and target dispensers (L2) | batch nonces, withheld amount, queue of unpaid incentives, pause and lock | send, receive, redeem, sync, DAO maintenance, migrate | over the bridge of each chain |
| VoteWeighting (`governance/contracts/VoteWeighting.sol`) | nominees and their ids, votes, points of bias and slope by week, scheduled slope changes | add, remove, vote, revoke, checkpoint | reads locks of veOLAS, calls Dispenser |
| Tokenomics (`tokenomics/contracts/Tokenomics.sol`) | epoch points, unit incentives, inflation per second, maxBond and effectiveBond | donations, `checkpoint`, reservation and refund for bonds, refund of staking, finalizing of owner incentives | Treasury, Depository, Dispenser |
| Treasury, Depository, bond calculator, donator blacklist | ETH split, reserves, products, bonds | deposits, withdrawals, bonds, redemption | Tokenomics; mint OLAS |
| veOLAS, wveOLAS, buOLAS, OLAS | locks, supply points, slope changes, yearly cap | lock, extend, withdraw, revoke, mint | read by VoteWeighting and Governor |
| Service registries and token ledger (`registries/contracts/ServiceRegistry.sol`, `ServiceRegistryL2.sol`, `ServiceRegistryTokenUtility.sol`), managers | services, operators' bonds, slashed funds, twice: in ETH and in tokens | register, activate, deploy, slash, terminate, unbond | staked services come from here |
| Component and agent registries, multisig deployment, Solana registry | append-only units; services on Solana | create, update hash | service registry |
| Governor, timelock, guard, governance bridges, bridged ERC20 | proposals; table of allowed calls; delivered messages | propose, execute, relay | everything the DAO owns |
| Deployment (`scripts/deployment` of the three groups, `scripts/proposals`, `scripts/audit_chains`) | the `globals.json` file of each repository and chain; what has been deployed | deploy, verify, record, hand over, propose, audit | reads and writes every contract's owner, manager and roles |
| Price scripts (`tokenomics/scripts/proposals`) | simulated reserves, target price, noted prices | average, swap, note, propose | read the pool's swaps; give the price of a product of Depository |

What is hard in them, and what makes them right:

* **Staking.** A checkpoint computes rewards, inactivity and evictions in loops
  over an array that it then shortens by swapping; `unstake` runs a checkpoint
  and uses an index it found before; the transfer of the service token calls its
  receiver. Right means: the balance covers what is owed, the array holds the
  staked services, a service is in custody while it has a record and returns to
  the account that staked it, time is accounted once.
* **Incentives over a bridge.** OLAS and data of a batch arrive apart, in any
  order, or never; the DAO repeats what was lost; withheld OLAS is spent on L1
  while it is on L2. Right means: each incentive is settled once, and OLAS for it
  is there.
* **Votes.** Weights decay and are filled lazily, up to a number of weeks; locks
  end; nominees leave. Right means: the weight is what the votes are worth, power
  is neither lost nor gained, the past does not change.
* **Tokenomics, bonds, Treasury.** Inflation is credited in advance and corrected
  later, year changes split it, incentives of units are finalized epochs later.
  Right means: no more is minted than inflation allows, and each incentive is
  paid once.
* **veOLAS, buOLAS.** Slope changes are rescheduled by each change of a lock; a
  revocation uses unchecked arithmetic.
* **Service registry.** Two ledgers are kept in step through registration,
  slashing and unbonding; bonds are read again when they are given back. Right
  means: each contract holds what can be claimed of it, and an instance belongs
  to one operator of one service.
* **Deployment.** A script is a sequence of transactions and writes to a file, it may
  end between any two of them, and is run again; proposals take effect much
  later, in another order. Right means: a second run completes what the first
  began, an unrecorded contract has no power, the deployer has handed everything
  over, and the audit sees what is missing.
* **Prices.** The script simulates swaps in a loop until targets are reached. Right
  means: it ends, its prices are ones the pool can have, and they bracket today's.

`PROJECT.json` lists every component with its sources, and every hazard at its
line, with the properties that cover it, or why none does.

## 2. Plan

Modelled, in this order, the most important behaviour first: `Staking` with its
abstract specification `StakingLifecycle`; `StakingBridge` with `StakingDelivery`;
`VoteWeighting`; `Inflation`, `Bonding`, `UnitIncentives` and `DispenserEpochs`,
composed as `Economy`; `ServiceLife` and `TokenLedger`, composed as `Services`; the
scripts, composed as `Deployment`; `LiquidityPrices`. All are proved
about; of the deployment, what does not depend on the data of each script.

What could follow:

1. `VotingEscrow` in the place of the locks that `VoteWeighting` takes from its
   environment. Theorem: the scheduled slope changes of veOLAS are those of the
   locks, along the argument of `VoteWeightingProofs`.
2. `Services` composed with `Staking`: a staked service is updated and terminated
   by its multisig's owners only after it was unstaked.
3. buOLAS, whose revocation uses unchecked arithmetic, and the governance bridges
   with the order of their messages.
4. `RolesAtEnd` for any procedure: which roles each of its proposals gives and takes, as an
   assumption on the scripts, and its proof.

## 3. Modules

| Module | Content |
|---|---|
| `Totals` | sums over `1..N` as recursive functions: the accumulators of loops |
| `TotalsTheorems` | laws of these sums, by induction on the set of indices |
| `Staking` | the staking contract and its properties |
| `StakingLifecycle` | what it promises: the life of a service and where each unit is |
| `StakingProofs` | invariants of `Staking`, and that it implements `StakingLifecycle` |
| `StakingBridge` | claims on L1, bridge, target dispenser on L2, the DAO's maintenance |
| `StakingDelivery` | what both sides promise: each incentive is settled once |
| `StakingBridgeProofs` | invariants of `StakingBridge`, and that it implements `StakingDelivery` |
| `VoteWeighting` | nominees, votes and weights |
| `VoteWeightingProofs` | invariants of `VoteWeighting`: power, changes, and what `Fill` computes |
| `OlasSupply` | the inflation schedule, the supply of OLAS, and its mint that may do nothing |
| `Inflation` | epochs, years, the credit of bonds in advance and its correction |
| `Bonding` | products, bonds, redemption, and the treasury's mint behind them |
| `UnitIncentives` | donations, lazy finalization and claims of the owners of units, accounts of ETH |
| `DispenserEpochs` | which epochs nominees are paid for: claims, retention, removal |
| `Economy` | these four together, under one inflation, and their properties |
| `EconomyProofs` | the invariants of bonds, rewards, top-ups and staking incentives, of the schedule and of the supply |
| `ServiceLife` | the service registry |
| `TokenLedger` | deposits and bonds in tokens |
| `Services` | both, as `ServiceManagerToken` drives them, and their properties |
| `ServicesProofs` | invariants of `Services` |
| `ScriptSteps` | the steps a deployment script is made of |
| `GovernanceScripts`, `RegistriesScripts`, `RegistriesL2Scripts`, `TokenomicsScripts`, `StakingScripts` | one definition for each script, verify file and proposal |
| `DeployedContracts` | what constructors, setters and roles leave of a contract |
| `Audits` | the comparisons of the audit scripts |
| `Procedures` | which scripts are run, in which order, on which files |
| `DeployMachine` | running scripts, with interruptions and voted proposals |
| `Deployment` | the deployment as a whole, and its properties |
| `DeploymentProofs` | what holds of the files and contracts, however often scripts are interrupted |
| `LiquidityPrices` | the price script of the OLAS-WETH pool |
| `LiquidityPricesProofs` | invariants of the simulated swaps and of the noted prices |
| `MC...` | what TLC runs, with the `.cfg` files that begin with their names |

An operator named after another one with a suffix, such as `EvictSteps_firstToLast`, is a
faulty variant of it. Every checked property is run against such a variant and
has to notice the fault; `PROJECT.json` says which. Next-state relations do not
use the variants.

### 3.1 Staking

Variables are the storage of the contract (`setServiceIds`, `availableRewards`,
`tsCheckpoint`, `epochCounter`, `balance`, and `mapServiceInfo` with one variable
for each field), the registry's owner of each service token (`nftOwner`), the
block time, and `pending`. An action is a call, with all of it: `unstake`,
`claim` and `checkpointAndClaim` contain the checkpoint they run. `unstake` is
the exception to atomicity: the contract calls `safeTransferFrom` before it
withdraws the reward, and the receiver may call the contract again. So the reward
goes to the stack `pending`, any call may follow while the stack is not empty,
and `_withdraw` pays the innermost reward. No time passes meanwhile.

`checkpoint` reads top to bottom: eligible rewards for the time since the last
checkpoint or since staking (`EligibleReward`), shares of what is left when it
does not suffice (`Share`), the rounding `Leftover`, inactivity and `Evicted`,
and `EvictSteps`, the loop of swap-and-pop removals from the last position to the
first. The outcome of the activity check is any set of services: the checker is
a contract of the deployer.

Left out: what `stake` compares of the service configuration and its bond
(services are those that meet it), nonces handed to the activity checker, events.

`StakingLifecycle` has a state for each service and five amounts. A service enters
a free slot while rewards are available, earns only while staked, may be evicted,
and leaves after the minimum stay, or earlier when no rewards are available; an epoch moves
funds from available to earned; what leaves is paid once. `ImplementsLifecycle` maps `getStakingState` and sums of `Staking` to it.

### 3.2 StakingBridge

One L2 chain. `data`, `olas` and `syncs` are what is on the way: the incentives
of a batch, its OLAS, and withheld amounts to L1. They are delivered in any
order. A transfer in `lost` has failed for good and only the DAO's action moves
it: `processDataMaintenance`, `syncWithheldAmountMaintenance`, or OLAS sent again.
The DAO is assumed to restore only what was really lost, as the comments at these
functions ask for; nothing in the code can check it. Gnosis and Wormhole deliver
OLAS and data in one transaction, which is two steps in a row here.

`claimStakingIncentives` stands for both variants of the claim; the batch of
one chain is its targets in order. Incentives come from a set: how weights and
epochs arrive at them is in
`DispenserEpochs`. `BalanceSteps` is the loop
over targets that pays who can be paid and queues the others. `migrate` moves the
balance to the next target dispenser (`movedOLAS`) and locks this one for good.

Left out: claims without any incentive, ETH fees and `drain`, changes of owner
and of deposit processors, the Dispenser's own pause. OLAS that a bridge with fewer
decimals cannot carry stays with the deposit processor (`processorOLAS`). Claims are
normalized on L1, but the limits of the factory on L2 are not, so a withheld amount need not
be a multiple of `BridgeUnit`. `Backed` says both: OLAS always suffices; and if limits are
such multiples (`LimitsInUnits`), it is exactly what is claimed and the deposit processor
keeps none. What happens otherwise is in §5.

`StakingDelivery` knows what is owed to each target, what was paid to it and what
is spare, in multiples of the bridge's unit where it is sent (`RoundDown`).
`ImplementsDelivery` says that each claimed unit is paid or withheld once, and each withheld unit reused at most once.

### 3.3 VoteWeighting

Variables have the names of the storage: points and changes of each nominee and
of the sum, the time of the last point of each, ids and sets of nominees, votes
and power. `Fill` is the loop of `_getWeight` and `_getSum`: week by week, at most
`MAX_NUM_WEEKS`, and the time of the last point is written only if the loop got
ahead of the block's time. Every action that checkpoints contains the fill.
Where Solidity's checked arithmetic would revert, the action has a guard
(`Fillable`, `Cancelable`, `CurrentSum >= CurrentWeight(n)`).

Locks belong to veOLAS: `ChangeLock` creates them and, until they end, raises slope
or end, as `increaseAmount` and `increaseUnlockTime` do. Withdrawing is possible
after the end only, and then the lock's slope is of no use to a vote, so a
withdrawn lock is an ended one. `TypeOK` includes what holds of the ids: that of a listed
nominee is its place. The converse fails, see §5. `voteForNomineeWeightsBatch` is a sequence of
votes. Left out: the owner's and dispenser's address, and the Dispenser's
callbacks, of which `removeNominee` may refuse a removal near the end of an epoch.

### 3.4 Economy

Variables are the storage of the five contracts, with one function over epochs for
each field of `mapEpochTokenomics`. `OlasSupply` is the schedule: `InflationUntilYear`,
and `Minted`, which is zero where `OLAS.mint` returns without minting.

`SettleEpoch` and `rebalanceTreasury` are `Tokenomics.checkpoint` and the call of the
treasury in it, one action. `CountVotes` chooses the weights at the end of the
epoch, as VoteWeighting may return them: they may exceed 100% together, and a removed
nominee may have some, as after a removal (§5). VoteWeighting tells the dispenser of a
nominee before anyone can vote for it, and may remove it twice. The owner's changes wait for the next epoch.
The credit of bonds, `maxBond`, is given before it has accrued; the correction adds
what the epoch yielded beyond it. `checkpoint` returns false before the epoch's
length and, for good, once `MAX_EPOCH_LENGTH` has passed: `SettleTime`.

`deposit` records the bond whether or not OLAS is minted. A claim of owners
finalizes what is pending from a settled epoch (`FinalReward`, `FinalTopUp`) and
skips the reward that the treasury cannot pay; a claim of staking incentives visits
the epochs from the last claimed one, returns what exceeds minima, maxima and
decimals to the current epoch, and mints; `retain` returns the retainer's share, as
far as `filled` says that its points are filled. `filled` is a lower bound: whatever
else fills points in VoteWeighting can only bring it ahead. What `retain` cannot see
is `forfeited`.

Two things the contracts do not check are not assumed either, but appear as terms of the
properties. `Overallocated` is what weights above 100% allocate beyond the staking part of
their epochs: `StakingCovered` bounds what the dispenser sends by the staking part and this
term, and nothing in Dispenser or Tokenomics keeps the term at zero. `Overcredit` is what
the first epoch was credited with for bonds beyond what it yielded: it is zero if that epoch
was to end within the first year (`FirstInYear`), for `initializeTokenomics` computes the
first credit without a change of year and checks only that it comes before the year's end.
The run has both: initializations one second before the end of the year, where the first
epoch crosses it, and weights of 5/4 and 3/4. `BondsBacked`, which needs room under the cap
of OLAS, has `FirstInYear` and `Overallocated = 0` in its premise: without them the room that
belongs to the bonds may be used by others, and the code then drops a mint.

Left out: pausing, batch claims (a sequence of claims), withheld
amounts (they are in `StakingBridge`), the inverse discount factor, the blacklist,
the treasury's withdrawals and its reserves of LP tokens, widths of integers,
changes of addresses.

### 3.5 Services

`ServiceLife` is the registry: slots and bonds by agent, lists of instances by agent
(`listed`) and by operator (`instancesOf`), the operator of each instance, balances,
slashed funds. `TokenLedger` is `ServiceRegistryTokenUtility`. `Services` has one action
for each call of `ServiceManagerToken`, which is one transaction over both: the
registry gets a nominal bond of 1 wei where a token secures the service. Slashing
and draining are called on the two contracts separately, as in the code.

Lists of agents come from a set for each service, with slots of zero where an update
drops an agent. The ETH sent is what the call needs; the manager keeps any excess.
Calls by others than the owner or an operator revert and are left out. Slashing an
address that is not registered changes nothing. A batch of slashes is a sequence of
slashes. Refunds call their receiver at the end of `terminate` and `unbond`, when
all state is written and under the lock of the contract, so a call back is a
later call. The Safe of a service is external: `MultisigFits` is its refusal of owners
that are zero.

### 3.6 Deployment

Each script is a sequence of steps (`ScriptSteps`): deploy, verify, write a key of the
globals file, send a transaction, expect a value, propose. `DeployMachine` runs the
scripts of a procedure. A script reads the file when it starts and may be interrupted
at any step: the process dies, a provider fails, the block explorer refuses, or an
expectation is read before the transaction is mined. The operator then runs the
script again from its beginning. Proposals are voted meanwhile and carried out at
any later time, each as one transaction of the timelock or of a bridge's mediator,
if all of its calls succeed and its governor still has its roles.

The scripts were written for several versions of the contracts, and some no longer fit those
of this commit. `DeployedContracts` has the number of arguments of every constructor and
function (`Arity`, `Arguments`) and what no longer exists (`NoArtifact`, `NoFunction`); a
script that deploys, or encodes a call, with others throws before it sends a transaction, as
ethers does. That happens to nine scripts (§5). What follows them in a procedure would be
pointless if it ended there, so a `mended` script stands after each of them: what the operator
has to make of it, which is the same script with the arguments this commit asks for. `Mend`
goes on with it, only after the outdated script has failed. A few
steps that the README files ask for and no script does are `by hand` in
`Procedures`: the copying of addresses between the files of the repositories, of
`tokenomicsTwoAddress` (written by script 02) to `tokenomicsAddress` (read by 03), of
`stakingFactoryAddress` to `serviceStakingFactoryAddress`.

Left out: prompts, ledgers, gas and waiting on Goerli; the Mumbai branch of the audits;
that the two instances whose addresses L2 scripts 21 and 22 predict with a static call
may be created by somebody else in between; the trial messages
`send_tokens_and_message.js`, `bridge_new_token.js` and `pack_data.js`.

### 3.7 Liquidity prices

`proposal_03_calculate_LP_OLAS_WETH_uniswap.js` as a program of six actions: averages
of the logged swaps, the throw when nothing was logged, a swap in each of the two
loops, the turn between them, the proposal. BigNumber division truncates towards
zero. Its twin for the Balancer pool computes with floating-point powers and is left
out.

## 4. Runs

Model values stand for accounts; times and amounts are small numbers. All bounds
are CONSTANTS.

| Run | Question | Bounds and why they suffice |
|---|---|---|
| `staking_calls` | Do ids, accrual and emission stay right in any order of calls, and is each step one of the promised life? | 3 services and slots: an eviction of two with one left moves ids in every way. One deposit of 4 with rate 1: rewards run short, and shares round. Time 4, with periods of 1: an eviction takes 2, an unstake 2. |
| `staking_callbacks` | Do custody and balance survive callbacks of `unstake` and trade of tokens? | 2 owners, 2 services, 1 slot, nesting 2: a receiver stakes the other service, or unstakes it, before the first reward is paid. Time 7 with periods of 2: a full stay and the next one. |
| `staking_unstake_index` | *Violated.* Does the index found by `unstake` exist? | as `staking_calls` |
| `bridge_calls` | Is every incentive backed and settled once? | 2 targets, 2 batches, 2 withheld amounts, 1 transfer lost at a time: targets compete for a balance, batches overtake each other, withheld OLAS is spent on the second batch. The bridge carries multiples of 2; a claim of 3 is not one, so that it has to be normalized; limits of 0, 2 and 4 are. 641,157 states. |
| `bridge_liveness` | Is what was queued redeemed in the end? | 2 targets and batches, nothing lost |
| `voting_nominees` | Are power, sum and the past right while nominees come and go? | 2 nominees, one removable; weeks of 2, fill of 2 weeks at most and 3 weeks of time: nominees fall out of reach and votes end in the middle. |
| `voting_users` | Are weight and scheduled changes those of the votes? | 2 users, slopes 1 and 2, ends two weeks apart, voting again around the end of the first lock |
| `voting_relative` | *Violated.* Is a relative weight at most one? | as `voting_nominees`, fill of 4 weeks |
| `economy` | Do bonds, top-ups, rewards and staking incentives stay within the inflation of the epochs? | 4 epochs of 2 or 3 in 3 years of 4, inflation falling and rising: an epoch ends before, at and after the end of a year, and is credited in either year. The cap's formula changes after 2 years instead of 10. 2 products and bonds, 2 nominees, 3 units of 2 services. Each behaviour has one of 6 budgets of calls: many of one kind, or fewer of several. The amounts divide evenly but for the shares of one vote, so that roundings occur and are counted. Weights may add up to 200%, and the first epoch may cross the end of the year. 1,269,042 states. |
| `services` | Are registry and ledger backed, and do bonds, balances and instances agree? | 2 services, operators and agents, 2 instances of which one is an operator, 2 tokens and ETH, batches of 2: whole lives and the start of the next one with another token and other agents, slashing at any time while deployed. 492,263 states. |
| `deployment` | Which scripts can be run again, and who owns what in the end? | 10 procedures of up to 60 scripts, one interruption at any step, 2 proposals waiting. One interruption reaches every step; a second one would hit a script that starts afresh, and what §6 proves of the deployment holds for any number of them. 96,021 states. |
| `liquidity_prices` | Are the simulated prices ones of the pool, and do the loops end? | 3 pools with prices on both sides of the steps, 5 windows: no swap, one-sided ones, both. All of them are run to the end; 249 states. |

What the properties say is stated at each of them, at the end of the modules.
Symmetry is not used: services, targets, nominees and agents are numbered, as loops
visit them in order. Deadlock is checked in the runs of `Staking` and of
`VoteWeighting`. The others may stop: batches, epochs and calls are bounded, an
instance's and an agent's lists are, and scripts end.
Time (`MaxTime`), balances (`MaxBalance`), batches and syncs (`MaxBatches`,
`MaxSyncs`), nested calls (`MaxDepth`), lost transfers (`MaxFailures`), epochs, products
and bonds (`MaxEpochs`, `MaxProducts`, `MaxBonds`), calls (`Budgets`), registered
instances (`MaxBatch`, `MaxListed`), slashed funds (`MaxSlashed`), interruptions and
waiting proposals (`MaxInterrupts`, `MaxPending`) are bounded in guards.
`MaxWithheld` is `type(uint96).max`.

`WeightExact` and `SumExact` are limited to what the next fill brings ahead of the
block's time (`InReach`): a nominee that nobody checkpoints for longer than
`MAX_NUM_WEEKS` weeks never gets there again. The run contains such nominees; the
other properties hold for them too. `SumExact` is also limited to histories
without a removal; what happens after one is `voting_relative`. `BondsBacked` is
limited to credits that end before the year `CapYears`, see §5.

**Fairness.** Safety properties need none. `QueuedIsRedeemed` assumes weak fairness
of OLAS that arrives (a bridge delivers, and a transfer that was lost is sent
again by the DAO) and of each `redeem`, which anybody may call and whoever staked
at the target wants to. It does not assume that claims, data or the owner do
anything, and it is conditional on the owner leaving the contract unpaused.
In this run nothing is lost. That a later batch may take the OLAS that an earlier
one waits for makes the property hard: it holds as OLAS and claims balance.
`BothEnd` assumes weak fairness of the price script's next step, a single program
that nothing else stops; it is conditional on swaps of both kinds.

## 5. What the code does otherwise

Two runs show disagreements between the code and its own comments; `PROJECT.json`
quotes the lines.

1. `unstake` uses an index found before the eviction of the same call. If the array
   gets shorter than it, the call reverts (`StakingBase.sol:833`). The service can
   be unstaked by a later call, after a separate checkpoint.
2. `removeNominee` lowers the bias of the sum but not its slope, so the sum decays
   faster than the remaining weights, and relative weights exceed one.

The models do what the code does in these cases too, which were met on the way and
have no run of their own:

3. The withheld amounts that L2 returns are not normalized to the decimals of the
   bridge (`DefaultTargetDispenserL2.sol:323-350`), although a comment says they are
   (`Dispenser.sol:1010-1011`). With a unit of 2 and a limit of 1, a claim of 2 leaves 1
   withheld; once L1 knows of it, the next claim of 2 needs 1 more, which the bridge cannot
   carry: it stays with the deposit processor, and the target is owed more on L2 than
   will arrive for it. The first part of `Backed` holds then, the second does not.
4. `removeNominee` of the last nominee of the set writes the id it just reset
   (`VoteWeighting.sol:624`), so a removed nominee keeps an id. Once another nominee
   was added, it can be removed a second time, which takes the other one out of the set; that
   one keeps its id, is in no list, and can neither be found by its place nor added again.
   `TypeOK` states what is left of the ids.
5. A bond may be credited to the year after the tenth, whose cap is not in force
   yet: `Treasury.depositTokenForOLAS` then records a bond for which `OLAS.mint` silently
   mints nothing. The comment at `Treasury.sol:240` says that the limit of the
   effective bond excludes it. `BondsBacked` has the opposite as a premise. The comment
   at `Tokenomics.sol:1163`, that the epoch's bond is always at least what was credited, fails
   too, for a first epoch that crosses the end of a year whose successor has less inflation
   (`Overcredit`).
6. `retain` does not fill the points of the retainer first: what it cannot see is
   forfeited.
7. An update of a service that leaves an agent out, instead of listing it with zero
   slots, keeps the slots of that agent (`ServiceRegistry.sol:317-333`), and instances
   may be registered for it, as `registerAgents` asks only that the slots are not zero
   (`:413-425`). The number of instances may then exceed `maxNumAgentInstances`, against
   the comment at `:64`, and registration never finishes; or it finishes with a
   number that fits, although no multisig can be created for these instances; and
   `terminate` leaves the instances of that agent listed. `InstancesCounted` allows the
   first and holds otherwise.
8. A second run does not complete these scripts after an interruption:
   `deploy_04_olas`, `deploy_07_veolas`, `deploy_11_mint_olas`, `deploy_12_15_ownerships`,
   `deploy_10_14_change_ownerships`, `deploy_19_20_change_ownerships`, and of L2
   `deploy_13_15_change_ownerships` and `deploy_21_22_bridged_erc20_change_owners`.
   Nine scripts fail without an interruption, as contracts have changed since they were
   written: `deploy_07_dispenser.js:36` passes 2 arguments to a constructor of 7,
   `deploy_03_gnosis_targer_dispenser.js:46` 5 to one of 6,
   `deploy_05_celo_wormhole_targer_dispenser.js:46` 8 to one of 7;
   `deploy_21_service_staking_factory` and two copies of `deploy_01_mock_dispenser` deploy a
   contract that no longer exists; `proposal_04_CM_guard` and its copy for Goerli encode a
   call of `setBridgeMediatorChainIds`, which the guard no longer has, and
   `proposal_06_change_fractions_and_manage_products` passes 5 arguments of 6 to
   `changeIncentiveFractions`.
9. A proposal made through the first governor, such as that of
   `deploy_15_16_change_minter_and_drainer`, can no longer be executed once
   `proposal_02_governor_to_governorTwo` has taken its roles away, although it was made
   earlier. What the audits find at the end of each procedure is in
   `AuditsFind`. `deploy_18_governor_to_governorTwo.js`, named in a README, does not exist.
10. The price script subtracts from the reserve of ETH an amount computed from that
    of OLAS (`proposal_03...js:203`), so the reserve may become negative;
    proposes an OLAS price as an LP price (`:237`); throws when no swap was
    logged; and never ends when all swaps went one way.

## 6. Proofs

All theorems hold for every value of the constants under the assumptions named in
the modules; TLC evaluates the assumptions in every run. They

* are checks of the code: `StakingParamsAssumption` of `Staking` (`_initialize`),
  `EpochAssumption` (`changeTokenomicsParameters`, and `initializeTokenomics` for the time
  of initialization), `FractionAssumption` (`changeIncentiveFractions`);
* say that numbers are unsigned or counts are positive, or type the environment:
  `StakingParamsAssumption` of `Inflation`, `EnvironmentAssumption`, `BridgeAssumption`,
  `VotingAssumption`, `ScheduleAssumption`, `BondingAssumption`, `UnitAssumption`,
  `DispenserAssumption`, `BudgetAssumption`, `ServiceAssumption`, `TokenAssumption`,
  `WrapperAssumption`, `PricesAssumption`;
* name the bounds of the runs: `BoundsAssumption` of `DeployMachine`;
* state what the scripts have in common as they are written: `ScriptsAssumption` of
  `Deployment`, which has no parameter, so that TLC decides it.

None of them bounds the weights that VoteWeighting returns or the end of the first epoch: what
depends on these is a premise or a term of the property itself (§3.4). In each
case one invariant, or a few that rest on each other, is inductive:

* **`StakingProofs!InvHolds`**: `TypeOK`, `Solvency`, `StakedSetExact` and `Custody`
  together. Solvency needs the array to hold only services with a record, for
  shares are computed for the array but summed over records; exactness of the
  array needs that a record exists for what is staked and that inactivity is zero
  without one, which is custody. From it follow `TypeCorrect`, `AlwaysSolvent`,
  `StakedSetStaysExact`, `CustodyHolds`, and, with a lemma on what one checkpoint
  can emit, the action property `EmissionRateHolds`; `ReturnsToStaker`, as no step
  changes the owner of a record; and `CountsOnce`, that time is not both rewarded and
  counted towards an eviction, but for the less than one unit per slot that the
  rounding of a checkpoint leaves over (`LeftoverBound`). `EvictResult`
  shows that the loop of swaps leaves exactly the services that stay. The
  proof goes by calls: `checkpointInv`, `stakeInv`, `unstakeInv` and so on, and
  `unstake` uses the lemmas about checkpoints and about one removal in turn.
  `LifecycleImplemented` is the refinement: each call is a step of
  `StakingLifecycle` or changes nothing of it. What is still unpaid is a sum over records and
  over the stack of payouts, which a nested call extends and `_withdraw` shortens, so the
  mapping holds also in the middle of an `unstake`.
* **`StakingBridgeProofs!InvHolds`**: `TypeOK`, `Backed`, `Fresh` and `WholeUnits`. `Fresh` says
  that batches, nonces and syncs not yet used are empty; without it a new batch
  could overwrite an old one. `WholeUnits` says that, if the limits are multiples of the
  bridge's unit, all that is withheld or on its way is too (`WholeClosed`, `WholeTotal`); without it
  the exact part of `Backed` is not inductive, as a claim less a withheld rest would be
  rounded. `BatchSplits` shows that what arrives is paid, queued
  or withheld, and `BalanceLoop` that the loop never pays more than the balance.
  From these follow `TypeCorrect`, `IncentivesBacked` and the action property
  `PausedPaysNothingHolds`. `DeliveryImplemented` is the refinement: what is owed to a
  target is a sum over the batches on the way, lost and queued, a claim
  adds to it in one batch, and a delivery moves it to what was paid or to what is spare.
* **`VoteWeightingProofs!InvHolds`**: types of votes and changes, `PowerExact` and
  `ChangesExact`. Voting and revoking both replace one vote, cancel its change if
  the change is to come, and perhaps schedule another (`ReplacesInv`). From it
  follow `PowerConserved` and `ChangesConserved`: canceling can never underflow. `TypeCorrect`
  combines the types with the ids (`IdsHold`): an addition appends an id that is free, and a removal
  moves the last nominee to the place of the removed one (`AddIds`, `RemoveIds`).
* **`VoteWeightingProofs!TypedHolds` and `ExactHolds`**: `Fill` is characterised week by week: it
  writes the bias less the slope, then the slope less the change. So the last point of a nominee
  is what its votes are worth, and what is still scheduled is what is left of its slope;
  `ExactInv` says so of each nominee that is not removed and, before any removal, of the
  sum. The values at the last point determine those later, which gives `WeightsExact` and
  `SumsExact`; `NeverUnderflows` says that the subtractions of the loop, whose guards are
  `Fillable`, never fail. `PastFinal` holds because a fill starts at the last point,
  `RemovedWeightless` because a removal clears it.
* **`EconomyProofs!BondAlways`**: `BondInv` says how the credit comes about and what became
  of it. `CreditIsYield` is the heart: after the first epoch `maxBond` is what the current epoch
  yields if it is settled at its length, whatever years it touches, so that the correction
  can never be negative. The credit of the first epoch is `FirstCredit`, and what it exceeds the
  yield by remains in `BondBudgetKept` as `Overcredit`. Inflation grows with the later of its
  two times, also across the end of a year, so a settlement replaces the credit by the yield
  (`SettleStep`), and every other call moves OLAS between the terms of
  the budget.
* **`EconomyProofs`** has five more invariants on top of that one. `UnitInv`: rewards and
  top-ups of units, times 100 and before they are rounded down, stay within the
  donations and the inflation of their epochs; a unit's pending part of the current epoch
  is within the recorded sum by which it will be divided, and `SharesWithin` bounds the
  shares. `ScheduleInv`: settled epochs stay within the inflation of the
  years before and of the passed part of the current one, and the rate completes the year
  at most, which the split of an epoch over two years preserves. `StakingInv`: what was
  sent, refunded or missed, and what each nominee is still due for
  its unclaimed epochs, weighted and not yet divided, stays within the staking part plus
  what weights above 100% allocate (`Overallocated`); limits and decimals refund to the
  current epoch, and
  `StakingSettles` makes an epoch due to all nominees at once, with weights of any sum.
  `SupplyInv`: the supply is what the programmes have minted, so that the first three leave room under the cap
  for what the depository owes (`BondsFit`), as long as the premises of `BondsBacked`
  hold, which once false stay false. From them follow `RewardsAlwaysCovered`,
  `InflationAlwaysKept` (with `TopUpsAlwaysCovered` and `StakingAlwaysCovered`, its parts),
  `BondsAlwaysBacked` and `EconomyTypeCorrect`.
* **`EconomyProofs!StakingAlwaysConserved`** is the other direction: nothing is lost. What was
  handed out, sent back or missed, waits for the next epoch, or can still be claimed, share by
  share, and the staking part of the settled epochs differ by roundings only. Each share of
  an epoch that does not divide evenly leaves less than one unit (`IncentiveRounded`,
  `PaidRounded`); only `retain`, which rounds the sum of its epochs and not
  each of them, can return more than the shares, by a unit for each (`RetainedRounded`). An
  unclaimed share stays as it is while
  weights move, as a claim reads the vote at the end of the epoch (`SharesStay`); a nominee
  starts with nothing unclaimed (`ConservedAdded`). So `ConservedInv`
  is inductive on top of `StakingInv`, one lemma per action.
* **`ServicesProofs!InvariantHolds`**: types, `FundsHeld`, `BalancesAreBonds` and `InstancesCounted`
  together. An operator's refund is the sum of the bonds of its instances, read again
  at unbonding; that it is what was paid, less slashing, needs that bonds do not
  change while a service has instances, which `InstancesCounted` gives. So a
  refund empties the balance, and each call moves funds between the terms of one
  service's claim. That an instance is registered once, over all services, makes the
  table from instances to operators and the lists of the operators agree when one
  operator unbonds. From it follow `TypeCorrect`, `FundsKept`, `BalancesKept` and
  `InstancesKept`.
* **`LiquidityPricesProofs!SimulationHolds`**: averages are naturals, an upward swap leaves some
  OLAS (`SwapOut`), and the LP price of the simulated reserves has not passed the last noted
  one against its direction. The last part makes `AlwaysBrackets` inductive; it needs the
  reserves to be set back between the two loops. `ProductAlwaysGrows` follows from
  `SwapOut`: the fee and the rounding stay in the pool.
* **`DeploymentProofs!DeploymentTypeCorrect`**: for any number of interruptions and waiting
  proposals the files name only contracts that exist. `DeployInv` adds what a running script
  remembers: the file as it read it, with all of its keys, and the contract it deployed.
  Roles are granted on timelocks only, as whoever grants one must be an administrator, which
  a batch of any length preserves (`BatchKeeps`, by induction on its calls). `NoAddressLost`:
  a script writes the whole file back as it read it when it started; that this loses no
  address needs that nothing else has written the file since (`Fresh`), which holds because
  scripts run one after another, proposals write no file, and the operator copies addresses
  only between the scripts (`ScriptsAssumption`).
* **`DeploymentProofs!OrphansAlwaysPowerless`**: however often scripts are interrupted, a contract
  that was deployed and not recorded is in no field of a recorded one, and only a governor has a
  role. That recorded contracts refer to recorded ones is not inductive: the next write of a key
  could take a value out of its file. `LinksInv` says more: every reference and every holder of
  a role is an account that is not deployed here, or the value of a key that no script to come
  writes (`FinalValues`). Such values stay (`FinalStays`, by `Fresh`), a constructor or a setter
  stores what it is given (`ConstructorSafe`, `UpdatedSafe`), and so do the calls of waiting
  proposals, in batches of any length (`BatchLinks`). It rests on `ScriptsAssumption`: what
  a script gives to a contract or to a proposal was recorded by an earlier one, but for the
  roles the first governor is given before it is recorded.

`TotalsTheorems` derives the laws of sums that all of them use from the existence
of the recursive function (`RunningTotalExists`), by induction on sets of indices:
the library's induction theorems take an operator as parameter, which the
installed provers cannot instantiate.

**Only model-checked.** The liveness properties `QueuedIsRedeemed` and `BothEnd`, as liveness
and ENABLED are beyond the prover. Of `Deployment`, `StuckOnlyOnceOnly`, `RolesAtEnd`,
`ProposalsGoThrough`, `AuditsFind` and `DeployerKeeps`: they are about the data of the scripts,
sequences of up to 60 scripts with fixed keys and calls, which TLC enumerates and a proof would
have to repeat. The types of `LiquidityPrices` are a part of its invariant and have no run of their own.
No module declares a RECURSIVE operator, as the prover loses arithmetic there.

## 7. Not modelled

The components with status `not_modelled` in `PROJECT.json`, each with its reason;
what the modelled ones leave out is in their notes there and in §3. veOLAS, buOLAS and
the governance bridges could follow, see §2. The guard of the community multisig,
the signature checks of the managers, the multisig deployment, the Solana registry
and the encodings of each bridge work on bytes or accounts in a single step. The
test environments run the contracts, and were read for what they expect of them.
