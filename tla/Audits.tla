---- MODULE Audits ----
(* The audit_contracts_setup.js scripts of the three repositories: each check reads the storage
   of a deployed contract and compares it with the globals file. The scripts log every
   difference and go on; here a check is the set of the differences it finds. The address of
   a contract is that of docs/configuration.json, filled in from the globals file. Bytecode,
   versions, constants and the amounts of voting parameters are left out. *)
EXTENDS DeployedContracts

\* the names of the comparisons that fail, under the name of the contract
Failing(contract, checks) == {<<contract, f>> : f \in {f \in DOMAIN checks : ~checks[f]}}

\* ---- governance; ch is the chain, g the globals file
checkOLAS(ch, g) ==
  LET olas == ch.contracts[g["olasAddress"]] IN
  Failing("OLAS", [owner |-> olas.owner = g["timelockAddress"],
                   minter |-> olas.minter = g["treasuryAddress"]])
checkTimelock(ch, g) ==
  LET timelock == g["timelockAddress"]
      HasRole(r, a) == <<timelock, Role(r), a>> \in ch.roles
      governor == g["governorTwoAddress"] IN
  Failing("Timelock",
    [governorAdmin |-> HasRole("TIMELOCK_ADMIN_ROLE", governor),
     governorProposer |-> HasRole("PROPOSER_ROLE", governor),
     governorExecutor |-> HasRole("EXECUTOR_ROLE", governor),
     governorCanceller |-> HasRole("CANCELLER_ROLE", governor),
     CMAdmin |-> ~HasRole("TIMELOCK_ADMIN_ROLE", CM),
     CMProposer |-> HasRole("PROPOSER_ROLE", CM), CMExecutor |-> HasRole("EXECUTOR_ROLE", CM),
     CMCanceller |-> ~HasRole("CANCELLER_ROLE", CM),
     ownAdmin |-> HasRole("TIMELOCK_ADMIN_ROLE", timelock)])
checkVEOLAS(ch, g) ==
  Failing("veOLAS", [token |-> ch.contracts[g["veOLASAddress"]].token = g["olasAddress"]])
checkBUOLAS(ch, g) ==
  LET locked == ch.contracts[g["buOLASAddress"]] IN
  Failing("buOLAS", [token |-> locked.token = g["olasAddress"],
                     owner |-> locked.owner = g["timelockAddress"]])
checkWrappedVEOLAS(ch, g) ==
  LET wrapper == ch.contracts[g["wveOLASAddress"]] IN
  Failing("wveOLAS", [token |-> wrapper.token = g["olasAddress"],
                      ve |-> wrapper.ve = g["veOLASAddress"]])
checkGovernorOLAS(ch, g) ==
  LET governor == ch.contracts[g["governorTwoAddress"]] IN
  Failing("GovernorOLAS", [token |-> governor.token = g["wveOLASAddress"],
                           timelock |-> governor.timelock = g["timelockAddress"]])
checkGuardCM(ch, g) ==
  LET guard == ch.contracts[g["guardCMAddress"]] IN
  Failing("GuardCM", [governor |-> guard.governor = g["governorTwoAddress"],
                      owner |-> guard.owner = g["timelockAddress"], multisig |-> guard.multisig = CM])
checkBridgedERC20(ch, g) ==
  Failing("BridgedERC20", [owner |-> ch.contracts[g["bridgedERC20Address"]].owner
                                       = g["fxERC20RootTunnelAddress"]])
checkFxERC20RootTunnel(ch, g) ==
  LET tunnel == ch.contracts[g["fxERC20RootTunnelAddress"]] IN
  Failing("FxERC20RootTunnel",
    [childToken |-> tunnel.childToken = <<"childTokenAddress", 0>>,
     rootToken |-> tunnel.rootToken = g["bridgedERC20Address"],
     fxRoot |-> tunnel.fxRoot = <<"fxRootAddress", 0>>,
     fxChildTunnel |-> tunnel.fxChildTunnel = g["fxERC20ChildTunnelAddress"],
     checkpointManager |-> tunnel.checkpointManager = <<"checkpointManagerAddress", 0>>])
checkFxERC20ChildTunnel(ch, g) ==
  LET tunnel == ch.contracts[g["fxERC20ChildTunnelAddress"]] IN
  Failing("FxERC20ChildTunnel",
    [childToken |-> tunnel.childToken = <<"childTokenAddress", 0>>,
     rootToken |-> tunnel.rootToken = g["bridgedERC20Address"],
     fxChild |-> tunnel.fxChild = <<"fxChildAddress", 0>>,
     fxRootTunnel |-> tunnel.fxRootTunnel = g["fxERC20RootTunnelAddress"]])
checkFxGovernorTunnel(ch, g) ==
  LET tunnel == ch.contracts[g["fxGovernorTunnelAddress"]] IN
  Failing("FxGovernorTunnel", [rootGovernor |-> tunnel.rootGovernor = <<"timelockAddress", 0>>,
                               fxChild |-> tunnel.fxChild = <<"fxChildAddress", 0>>])
checkHomeMediator(ch, g) ==
  LET mediator == ch.contracts[g["homeMediatorAddress"]] IN
  Failing("HomeMediator",
    [foreignGovernor |-> mediator.foreignGovernor = <<"timelockAddress", 0>>,
     AMBContractProxyHome |-> mediator.AMBContractProxyHome = <<"AMBContractProxyHomeAddress", 0>>])
checkOptimismMessenger(ch, g) ==
  LET messenger == ch.contracts[g["optimismMessengerAddress"]] IN
  Failing("OptimismMessenger",
    [sourceGovernor |-> messenger.sourceGovernor = <<"timelockAddress", 0>>,
     CDMContractProxyHome |->
       messenger.CDMContractProxyHome = <<"L2CrossDomainMessengerAddress", 0>>])
checkWormholeMessenger(ch, g) ==
  LET messenger == ch.contracts[g["wormholeMessengerAddress"]] IN
  Failing("WormholeMessenger",
    [sourceGovernor |-> messenger.sourceGovernor = <<"timelockAddress", 0>>,
     wormholeRelayer |-> messenger.wormholeRelayer = <<"L2WormholeRelayerAddress", 0>>,
     sourceGovernorChainId |->
       messenger.sourceGovernorChainId = <<"sourceGovernorChainId", 0>>])

\* main() of the governance audit: the contracts of Ethereum, and of each other chain
AuditGovernance(ch, g) ==
  checkOLAS(ch, g) \cup checkTimelock(ch, g) \cup checkVEOLAS(ch, g) \cup checkBUOLAS(ch, g)
    \cup checkWrappedVEOLAS(ch, g) \cup checkGovernorOLAS(ch, g) \cup checkGuardCM(ch, g)
AuditBridgedERC20(ch, g) == checkBridgedERC20(ch, g) \cup checkFxERC20RootTunnel(ch, g)
AuditMediator(ch, g) ==
  CASE "fxGovernorTunnelAddress" \in DOMAIN g -> checkFxGovernorTunnel(ch, g)
    [] "homeMediatorAddress" \in DOMAIN g -> checkHomeMediator(ch, g)
    [] "optimismMessengerAddress" \in DOMAIN g -> checkOptimismMessenger(ch, g)
    [] "wormholeMessengerAddress" \in DOMAIN g -> checkWormholeMessenger(ch, g)

\* ---- registries; l1 tells Ethereum from the other chains
Governing(g, l1) == IF l1 THEN g["timelockAddress"] ELSE g["bridgeMediatorAddress"]
checkOwner(contract, g, l1) == contract.owner = Governing(g, l1)
checkComponentRegistry(ch, g) ==
  LET registry == ch.contracts[g["componentRegistryAddress"]] IN
  Failing("ComponentRegistry", [owner |-> checkOwner(registry, g, TRUE),
                                manager |-> registry.manager = g["registriesManagerAddress"]])
checkAgentRegistry(ch, g) ==
  LET registry == ch.contracts[g["agentRegistryAddress"]] IN
  Failing("AgentRegistry",
    [owner |-> checkOwner(registry, g, TRUE),
     manager |-> registry.manager = g["registriesManagerAddress"],
     componentRegistry |-> registry.componentRegistry = g["componentRegistryAddress"]])
checkServiceRegistry(ch, g, l1) ==
  LET address == g["serviceRegistryAddress"]
      registry == ch.contracts[address] IN
  Failing("ServiceRegistry",
    [owner |-> checkOwner(registry, g, l1),
     manager |-> registry.manager = g["serviceManagerTokenAddress"],
     drainer |-> registry.drainer = IF l1 THEN g["treasuryAddress"] ELSE Governing(g, l1),
     agentRegistry |-> l1 => registry.agentRegistry = g["agentRegistryAddress"],
     safeMultisig |->
       <<address, g["gnosisSafeMultisigImplementationAddress"]>> \in ch.permitted,
     safeSameAddressMultisig |->
       <<address, g["gnosisSafeSameAddressMultisigImplementationAddress"]>> \in ch.permitted])
checkServiceManager(ch, g, l1) ==
  LET manager == ch.contracts[g["serviceManagerTokenAddress"]] IN
  Failing("ServiceManagerToken",
    [owner |-> checkOwner(manager, g, l1),
     serviceRegistry |-> manager.serviceRegistry = g["serviceRegistryAddress"],
     serviceRegistryTokenUtility |->
       manager.serviceRegistryTokenUtility = g["serviceRegistryTokenUtilityAddress"],
     operatorWhitelist |-> manager.operatorWhitelist = g["operatorWhitelistAddress"]])
checkServiceRegistryTokenUtility(ch, g, l1) ==
  LET utility == ch.contracts[g["serviceRegistryTokenUtilityAddress"]] IN
  Failing("ServiceRegistryTokenUtility",
    [owner |-> checkOwner(utility, g, l1),
     manager |-> utility.manager = g["serviceManagerTokenAddress"],
     drainer |-> utility.drainer = Governing(g, l1),
     serviceRegistry |-> utility.serviceRegistry = g["serviceRegistryAddress"]])
checkOperatorWhitelist(ch, g) ==
  Failing("OperatorWhitelist", [serviceRegistry |->
    ch.contracts[g["operatorWhitelistAddress"]].serviceRegistry = g["serviceRegistryAddress"]])

\* main() of the registries audit
AuditRegistries(ch, g, l1) ==
  (IF l1 THEN checkComponentRegistry(ch, g) \cup checkAgentRegistry(ch, g) ELSE {})
    \cup checkServiceRegistry(ch, g, l1) \cup checkServiceManager(ch, g, l1)
    \cup checkServiceRegistryTokenUtility(ch, g, l1) \cup checkOperatorWhitelist(ch, g)

\* ---- tokenomics
checkDonatorBlacklist(ch, g) ==
  Failing("DonatorBlacklist",
    [owner |-> ch.contracts[g["donatorBlacklistAddress"]].owner = g["timelockAddress"]])
checkTokenomicsProxy(ch, g) ==
  LET tokenomics == ch.contracts[g["tokenomicsProxyAddress"]] IN
  Failing("TokenomicsProxy",
    [owner |-> tokenomics.owner = g["timelockAddress"], olas |-> tokenomics.olas = g["olasAddress"],
     treasury |-> tokenomics.treasury = g["treasuryAddress"],
     depository |-> tokenomics.depository = g["depositoryTwoAddress"],
     dispenser |-> tokenomics.dispenser = g["dispenserAddress"],
     PROXY_TOKENOMICS |-> tokenomics.implementation = g["tokenomicsTwoAddress"]])
checkTreasury(ch, g) ==
  LET treasury == ch.contracts[g["treasuryAddress"]] IN
  Failing("Treasury",
    [owner |-> treasury.owner = g["timelockAddress"], olas |-> treasury.olas = g["olasAddress"],
     tokenomics |-> treasury.tokenomics = g["tokenomicsProxyAddress"],
     depository |-> treasury.depository = g["depositoryTwoAddress"],
     dispenser |-> treasury.dispenser = g["dispenserAddress"]])
checkGenericBondCalculator(ch, g) ==
  LET calculator == ch.contracts[g["genericBondCalculatorAddress"]] IN
  Failing("GenericBondCalculator", [olas |-> calculator.olas = g["olasAddress"],
                                    tokenomics |-> calculator.tokenomics = g["tokenomicsProxyAddress"]])
checkDispenser(ch, g) ==
  LET dispenser == ch.contracts[g["dispenserAddress"]] IN
  Failing("Dispenser", [owner |-> dispenser.owner = g["timelockAddress"],
                        tokenomics |-> dispenser.tokenomics = g["tokenomicsProxyAddress"],
                        treasury |-> dispenser.treasury = g["treasuryAddress"]])
checkDepository(ch, g) ==
  LET depository == ch.contracts[g["depositoryTwoAddress"]] IN
  Failing("Depository",
    [owner |-> depository.owner = g["timelockAddress"], olas |-> depository.olas = g["olasAddress"],
     tokenomics |-> depository.tokenomics = g["tokenomicsProxyAddress"],
     treasury |-> depository.treasury = g["treasuryAddress"],
     bondCalculator |-> depository.bondCalculator = g["genericBondCalculatorAddress"]])

\* main() of the tokenomics audit
AuditTokenomics(ch, g) ==
  checkDonatorBlacklist(ch, g) \cup checkTokenomicsProxy(ch, g) \cup checkTreasury(ch, g)
    \cup checkGenericBondCalculator(ch, g) \cup checkDispenser(ch, g) \cup checkDepository(ch, g)
====
