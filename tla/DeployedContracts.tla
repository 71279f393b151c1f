---- MODULE DeployedContracts ----
(* What the deployment scripts leave of a contract: the addresses its constructor stores and
   the ones its setters replace, the roles of the timelock, the multisig implementations a
   registry permits. An address is a kind and a number: a contract's is its kind and the
   count of its deployments, that of an account that is not deployed here is its key and 0. *)
EXTENDS Naturals, Sequences, FiniteSets

EOA == <<"deployer", 0>>
Zero == <<"zero", 0>>
CM == <<"CM", 0>>
True == <<"true", 0>>
\* the value of a key that the globals file does not have
Undefined == <<"undefined", 0>>
Role(r) == <<r, 0>>

\* how many arguments the constructors take at this commit, and the contracts that scripts name
\* and no source file has any more. The proxy of tokenomics is given the implementation and the
\* call data of its initializer, here one list.
Arity(kind) ==
  CASE kind = "TokenomicsProxy" -> 11
    [] kind = "ArbitrumDepositProcessorL1" -> 8
    [] kind \in {"Dispenser", "WormholeDepositProcessorL1", "PolygonDepositProcessorL1",
         "WormholeTargetDispenserL2"} -> 7
    [] kind \in {"GovernorOLAS", "OptimismDepositProcessorL1", "GnosisTargetDispenserL2"} -> 6
    [] kind \in {"GnosisDepositProcessorL1", "ArbitrumTargetDispenserL2",
         "OptimismTargetDispenserL2", "PolygonTargetDispenserL2"} -> 5
    [] kind \in {"FxERC20RootTunnel", "AgentRegistry", "ServiceRegistry", "StakingVerifier",
         "Treasury", "Depository"} -> 4
    [] kind \in {"Timelock", "veOLAS", "buOLAS", "GuardCM", "BridgedERC20", "FxERC20ChildTunnel",
         "WormholeMessenger", "ComponentRegistry", "ServiceRegistryL2", "ServiceManagerToken"} -> 3
    [] kind \in {"wveOLAS", "FxGovernorTunnel", "HomeMediator", "OptimismMessenger",
         "RegistriesManager", "GnosisSafeMultisig", "GenericBondCalculator"} -> 2
    [] kind \in {"GnosisSafeSameAddressMultisig", "ServiceManager", "OperatorWhitelist",
         "ServiceRegistryTokenUtility", "StakingActivityChecker", "StakingFactory",
         "StakingTokenInstance", "StakingNativeTokenInstance", "HashCheckpoint",
         "MockStakingDispenser"} -> 1
    [] OTHER -> 0
NoArtifact == {"ServiceStakingFactory", "MockServiceStakingDispenser"}
Fits(kind, a) == kind \notin NoArtifact /\ DOMAIN a = 1..Arity(kind)

\* the same of the functions that scripts call and proposals encode
Arguments(fn) ==
  CASE fn = "changeIncentiveFractions" -> 6
    [] fn \in {"setTargetSelectorChainIds", "setBridgeMediatorL1BridgeParams",
         "execTransactionFromModule", "create"} -> 4
    [] fn = "changeManagers" -> 3
    [] fn \in {"grantRole", "revokeRole", "renounceRole", "mint", "changeMultisigPermission"} -> 2
    [] OTHER -> 1
NoFunction == {"setBridgeMediatorChainIds"}
Encodes(fn, a) == fn \notin NoFunction /\ DOMAIN a = 1..Arguments(fn)

\* ---- constructors of the governance repository; a is the list of arguments
DeploymentFactory(a) == [owner |-> EOA]
\* the factory hands the ownership and the minter's right to its caller
OLAS(a) == [owner |-> EOA, minter |-> EOA]
Timelock(a) == [proposer |-> a[2], executor |-> a[3]]
veOLAS(a) == [token |-> a[1]]
GovernorOLAS(a) == [token |-> a[1], timelock |-> a[2]]
buOLAS(a) == [token |-> a[1], owner |-> EOA]
wveOLAS(a) == [ve |-> a[1], token |-> a[2]]
GuardCM(a) == [owner |-> a[1], multisig |-> a[2], governor |-> a[3]]
BridgedERC20(a) == [owner |-> EOA]
FxERC20RootTunnel(a) == [checkpointManager |-> a[1], fxRoot |-> a[2], childToken |-> a[3],
                         rootToken |-> a[4], fxChildTunnel |-> Zero]
FxERC20ChildTunnel(a) == [fxChild |-> a[1], childToken |-> a[2], rootToken |-> a[3],
                          fxRootTunnel |-> Zero]
FxGovernorTunnel(a) == [fxChild |-> a[1], rootGovernor |-> a[2]]
HomeMediator(a) == [AMBContractProxyHome |-> a[1], foreignGovernor |-> a[2]]
OptimismMessenger(a) == [CDMContractProxyHome |-> a[1], sourceGovernor |-> a[2]]
WormholeMessenger(a) == [wormholeRelayer |-> a[1], sourceGovernor |-> a[2],
                         sourceGovernorChainId |-> a[3]]

\* ---- constructors of the registries repository
ComponentRegistry(a) == [owner |-> EOA, manager |-> Zero]
AgentRegistry(a) == [owner |-> EOA, manager |-> Zero, componentRegistry |-> a[4]]
RegistriesManager(a) == [owner |-> EOA, componentRegistry |-> a[1], agentRegistry |-> a[2]]
ServiceRegistry(a) == [owner |-> EOA, manager |-> Zero, drainer |-> Zero, agentRegistry |-> a[4]]
ServiceRegistryL2(a) == [owner |-> EOA, manager |-> Zero, drainer |-> Zero]
ServiceManager(a) == [owner |-> EOA, serviceRegistry |-> a[1]]
OperatorWhitelist(a) == [serviceRegistry |-> a[1]]
ServiceRegistryTokenUtility(a) == [owner |-> EOA, manager |-> Zero, drainer |-> Zero,
                                   serviceRegistry |-> a[1]]
ServiceManagerToken(a) == [owner |-> EOA, serviceRegistry |-> a[1],
                           serviceRegistryTokenUtility |-> a[2], operatorWhitelist |-> a[3]]
StakingVerifier(a) == [owner |-> EOA, olas |-> a[1]]
StakingFactory(a) == [owner |-> EOA, verifier |-> a[1]]
HashCheckpoint(a) == [owner |-> EOA]

\* ---- constructors of the tokenomics repository
DonatorBlacklist(a) == [owner |-> EOA]
\* the proxy calls initializeTokenomics of the implementation
TokenomicsProxy(a) == [owner |-> EOA, implementation |-> a[1], olas |-> a[2], treasury |-> a[3],
                       depository |-> a[4], dispenser |-> a[5], donatorBlacklist |-> a[11]]
Treasury(a) == [owner |-> EOA, olas |-> a[1], tokenomics |-> a[2], depository |-> a[3],
                dispenser |-> a[4]]
GenericBondCalculator(a) == [olas |-> a[1], tokenomics |-> a[2]]
Depository(a) == [owner |-> EOA, olas |-> a[1], tokenomics |-> a[2], treasury |-> a[3],
                  bondCalculator |-> a[4]]
Dispenser(a) == [owner |-> EOA, olas |-> a[1], tokenomics |-> a[2], treasury |-> a[3],
                 voteWeighting |-> a[4]]
DefaultDepositProcessorL1(a) == [owner |-> EOA, olas |-> a[1], l1Dispenser |-> a[2]]
DefaultTargetDispenserL2(a) == [owner |-> EOA, olas |-> a[1], stakingFactory |-> a[2]]

Processors == {"ArbitrumDepositProcessorL1", "GnosisDepositProcessorL1",
  "OptimismDepositProcessorL1", "WormholeDepositProcessorL1", "PolygonDepositProcessorL1"}
TargetDispensers == {"ArbitrumTargetDispenserL2", "GnosisTargetDispenserL2",
  "OptimismTargetDispenserL2", "WormholeTargetDispenserL2", "PolygonTargetDispenserL2"}

\* the storage of a new contract of this kind; a kind not listed stores no address of interest
ConstructedTokenomics(kind, a) ==
  CASE kind = "DonatorBlacklist" -> DonatorBlacklist(a)
    [] kind = "TokenomicsProxy" -> TokenomicsProxy(a) [] kind = "Treasury" -> Treasury(a)
    [] kind = "GenericBondCalculator" -> GenericBondCalculator(a)
    [] kind = "Depository" -> Depository(a)           [] kind = "Dispenser" -> Dispenser(a)
    [] kind \in Processors -> DefaultDepositProcessorL1(a)
    [] kind \in TargetDispensers -> DefaultTargetDispenserL2(a)
    [] OTHER -> [created |-> Zero]
ConstructedRegistries(kind, a) ==
  CASE kind = "ComponentRegistry" -> ComponentRegistry(a)
    [] kind = "AgentRegistry" -> AgentRegistry(a)
    [] kind = "RegistriesManager" -> RegistriesManager(a)
    [] kind = "ServiceRegistry" -> ServiceRegistry(a)
    [] kind = "ServiceRegistryL2" -> ServiceRegistryL2(a)
    [] kind = "ServiceManager" -> ServiceManager(a)
    [] kind = "OperatorWhitelist" -> OperatorWhitelist(a)
    [] kind = "ServiceRegistryTokenUtility" -> ServiceRegistryTokenUtility(a)
    [] kind = "ServiceManagerToken" -> ServiceManagerToken(a)
    [] kind = "StakingVerifier" -> StakingVerifier(a) [] kind = "StakingFactory" -> StakingFactory(a)
    [] kind = "HashCheckpoint" -> HashCheckpoint(a)
    [] OTHER -> ConstructedTokenomics(kind, a)
ConstructedBridges(kind, a) ==
  CASE kind = "BridgedERC20" -> BridgedERC20(a)
    [] kind = "FxERC20RootTunnel" -> FxERC20RootTunnel(a)
    [] kind = "FxERC20ChildTunnel" -> FxERC20ChildTunnel(a)
    [] kind = "FxGovernorTunnel" -> FxGovernorTunnel(a)
    [] kind = "HomeMediator" -> HomeMediator(a)
    [] kind = "OptimismMessenger" -> OptimismMessenger(a)
    [] kind = "WormholeMessenger" -> WormholeMessenger(a)
    [] OTHER -> ConstructedRegistries(kind, a)
Constructed(kind, a) ==
  CASE kind = "DeploymentFactory" -> DeploymentFactory(a)
    [] kind = "OLAS" -> OLAS(a)                       [] kind = "Timelock" -> Timelock(a)
    [] kind = "veOLAS" -> veOLAS(a)                   [] kind = "GovernorOLAS" -> GovernorOLAS(a)
    [] kind = "buOLAS" -> buOLAS(a)                   [] kind = "wveOLAS" -> wveOLAS(a)
    [] kind = "GuardCM" -> GuardCM(a)
    [] OTHER -> ConstructedBridges(kind, a)

\* ---- the chain: contracts by address, the roles of timelocks, the permitted multisigs, the
\* number of mints to each account
NoContracts == [contracts |-> <<>>, roles |-> {}, permitted |-> {}, minted |-> <<>>]
Kind(c) == c[1]
With(f, key, value) == [k \in DOMAIN f \cup {key} |-> IF k = key THEN value ELSE f[k]]
OfKind(chain, kind) == {c \in DOMAIN chain.contracts : Kind(c) = kind}
NextAddress(chain, kind) == <<kind, Cardinality(OfKind(chain, kind)) + 1>>

\* a timelock is its own administrator, as is its deployer
InitialRoles(self, a) ==
  {<<self, Role("TIMELOCK_ADMIN_ROLE"), account>> : account \in {EOA, self}}
  \cup {<<self, Role(r), a[2]>> : r \in {"PROPOSER_ROLE", "CANCELLER_ROLE"}}
  \cup {<<self, Role("EXECUTOR_ROLE"), a[3]>>}

Created(chain, kind, a) ==
  LET self == NextAddress(chain, kind) IN
  [chain EXCEPT !.contracts = With(@, self, Constructed(kind, a)),
                !.roles = IF kind = "Timelock" THEN @ \cup InitialRoles(self, a) ELSE @]

\* ---- setters: the new storage of the contract c, or of the chain
changeOwner(c, a) == [c EXCEPT !.owner = a[1]]
changeManager(c, a) == [c EXCEPT !.manager = a[1]]
changeDrainer(c, a) == [c EXCEPT !.drainer = a[1]]
changeMinter(c, a) == [c EXCEPT !.minter = a[1]]
changeTokenomicsImplementation(c, a) == [c EXCEPT !.implementation = a[1]]
changeDonatorBlacklist(c, a) == [c EXCEPT !.donatorBlacklist = a[1]]
setFxChildTunnel(c, a) == [c EXCEPT !.fxChildTunnel = a[1]]
setFxRootTunnel(c, a) == [c EXCEPT !.fxRootTunnel = a[1]]
\* a zero argument leaves a manager in place; the first manager of the treasury is tokenomics
Kept(old, new) == IF new = Zero THEN old ELSE new
Tokenomics_changeManagers(c, a) ==
  [c EXCEPT !.treasury = Kept(@, a[1]), !.depository = Kept(@, a[2]), !.dispenser = Kept(@, a[3])]
Treasury_changeManagers(c, a) ==
  [c EXCEPT !.tokenomics = Kept(@, a[1]), !.depository = Kept(@, a[2]), !.dispenser = Kept(@, a[3])]

\* the storage of the contract `to`, of storage c, after the call
Updated(c, to, fn, a) ==
  CASE fn = "changeOwner" -> changeOwner(c, a)     [] fn = "changeManager" -> changeManager(c, a)
    [] fn = "changeDrainer" -> changeDrainer(c, a) [] fn = "changeMinter" -> changeMinter(c, a)
    [] fn = "changeTokenomicsImplementation" -> changeTokenomicsImplementation(c, a)
    [] fn = "changeDonatorBlacklist" -> changeDonatorBlacklist(c, a)
    [] fn = "setFxChildTunnel" -> setFxChildTunnel(c, a)
    [] fn = "setFxRootTunnel" -> setFxRootTunnel(c, a)
    [] fn = "changeManagers" /\ Kind(to) = "TokenomicsProxy" -> Tokenomics_changeManagers(c, a)
    [] fn = "changeManagers" /\ Kind(to) = "Treasury" -> Treasury_changeManagers(c, a)
    [] OTHER -> c

\* the contract accepts the call of `from`: an account not deployed here accepts any call
Accepted(chain, from, to, fn, a) ==
  to \in DOMAIN chain.contracts =>
    CASE fn \in {"grantRole", "revokeRole"} -> <<to, Role("TIMELOCK_ADMIN_ROLE"), from>> \in chain.roles
      [] fn = "renounceRole" -> a[2] = from
      [] fn = "mint" -> chain.contracts[to].minter = from
      [] fn = "setFxChildTunnel" -> chain.contracts[to].fxChildTunnel = Zero
      [] fn = "setFxRootTunnel" -> chain.contracts[to].fxRootTunnel = Zero
      [] OTHER -> chain.contracts[to].owner = from

\* mint above the cap of the supply does nothing; the amounts of the scripts are counted, not capped
Called(chain, to, fn, a) ==
  IF to \notin DOMAIN chain.contracts THEN chain
  ELSE CASE fn = "grantRole" -> [chain EXCEPT !.roles = @ \cup {<<to, a[1], a[2]>>}]
         [] fn \in {"revokeRole", "renounceRole"} -> [chain EXCEPT !.roles = @ \ {<<to, a[1], a[2]>>}]
         [] fn = "changeMultisigPermission" ->
              [chain EXCEPT !.permitted = IF a[2] = True THEN @ \cup {<<to, a[1]>>}
                                          ELSE @ \ {<<to, a[1]>>}]
         [] fn = "mint" -> [chain EXCEPT !.minted =
              With(@, a[1], (IF a[1] \in DOMAIN @ THEN @[a[1]] ELSE 0) + 1)]
         [] OTHER -> [chain EXCEPT !.contracts[to] = Updated(@, to, fn, a)]
====
