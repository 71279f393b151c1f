---- MODULE GovernanceScripts ----
(* The deployment scripts, the files with the verified constructor arguments and the
   proposals of the governance repository, one definition per file and named after it. *)
EXTENDS ScriptSteps

\* the verified constructor arguments
verify_05_timelock == <<"timelockMinDelay", "CM", "CM">>
verify_07_veolas == <<"olasAddress", "Voting Escrow OLAS", "veOLAS">>
VotingParameters == <<"initialVotingDelay", "initialVotingPeriod", "initialProposalThreshold", "quorum">>
verify_08_09_governor_and_roles == <<"veOLASAddress", "timelockAddress">> \o VotingParameters
\* faulty: the address of another token
verify_10_buolas_otherToken == <<"veOLASAddress", "Burnable Locked OLAS", "buOLAS">>
verify_10_buolas == <<"olasAddress", "Burnable Locked OLAS", "buOLAS">>
verify_16_wveolas == <<"veOLASAddress", "olasAddress">>
verify_17_governorTwo == <<"wveOLASAddress", "timelockAddress">> \o VotingParameters
verify_18_guardCM == <<"timelockAddress", "CM", "governorTwoAddress">>
verify_19_bridged_erc20 == <<"name", "symbol", "decimals">>
verify_20_erc20_root_tunnel ==
  <<"checkpointManagerAddress", "fxRootAddress", "childTokenAddress", "bridgedERC20Address">>
verify_01_home_mediator == <<"AMBContractProxyHomeAddress", "timelockAddress">>
verify_01_optimism_messenger == <<"L2CrossDomainMessengerAddress", "timelockAddress">>
verify_01_governor_tunnel == <<"fxChildAddress", "timelockAddress">>
verify_03_erc20_child_tunnel == <<"fxChildAddress", "childTokenAddress", "bridgedERC20Address">>
verify_01_wormhole_messenger ==
  <<"L2WormholeRelayerAddress", "timelockAddress", "sourceGovernorChainId">>

Roles == <<"TIMELOCK_ADMIN_ROLE", "EXECUTOR_ROLE", "PROPOSER_ROLE", "CANCELLER_ROLE">>
\* one call per role to the timelock
OnRoles(fn, roles, account) ==
  [i \in 1..Len(roles) |-> Call("timelockAddress", fn, <<roles[i], account>>)]

\* ---- the original contracts
deploy_02_deployment_factory ==
  Deploy("DeploymentFactory", <<>>) \o Expect("self", "owner", "deployer")
    \o Verify(<<>>) \o Write("deploymentFactory")

deploy_04_olas ==
  Create2("OLAS", <<>>) \o Expect("self", "owner", "deployer")
    \o Expect("self", "minter", "deployer") \o Verify(<<>>) \o Write("olasAddress")

deploy_05_timelock ==
  Deploy("Timelock", <<"timelockMinDelay", "CM", "CM">>)
    \o ExpectRole("TIMELOCK_ADMIN_ROLE", "deployer", TRUE)
    \o ExpectRole("TIMELOCK_ADMIN_ROLE", "self", TRUE)
    \o ExpectRole("TIMELOCK_ADMIN_ROLE", "CM", FALSE) \o ExpectRole("EXECUTOR_ROLE", "CM", TRUE)
    \o ExpectRole("PROPOSER_ROLE", "CM", TRUE) \o ExpectRole("CANCELLER_ROLE", "CM", TRUE)
    \o Verify(verify_05_timelock) \o Write("timelockAddress")

\* the factory adds the name and the symbol
deploy_07_veolas ==
  Create2("veOLAS", <<"olasAddress", "Voting Escrow OLAS", "veOLAS">>)
    \o Expect("self", "token", "olasAddress") \o Verify(verify_07_veolas) \o Write("veOLASAddress")

\* the roles are granted to the new governor before its address is recorded
deploy_08_09_governor_and_roles ==
  Deploy("GovernorOLAS", <<"veOLASAddress", "timelockAddress">> \o VotingParameters)
    \o Expect("self", "timelock", "timelockAddress") \o OnRoles("grantRole", Roles, "self")
    \o ExpectRole("TIMELOCK_ADMIN_ROLE", "self", TRUE) \o ExpectRole("EXECUTOR_ROLE", "self", TRUE)
    \o ExpectRole("PROPOSER_ROLE", "self", TRUE) \o ExpectRole("CANCELLER_ROLE", "self", TRUE)
    \o Verify(verify_08_09_governor_and_roles) \o Write("governorAddress")

deploy_10_buolas ==
  Deploy("buOLAS", <<"olasAddress", "Burnable Locked OLAS", "buOLAS">>)
    \o Expect("self", "token", "olasAddress")
    \o Expect("self", "owner", "deployer") \o Verify(verify_10_buolas) \o Write("buOLASAddress")

Mint(to, amount) == Do("olasAddress", "mint", <<to, amount>>)
deploy_11_mint_olas ==
  Mint("timelockAddress", "timelockSupply") \o Mint("saleAddress", "saleSupply")
    \o Mint("valoryMultisig", "valorySupply") \o ExpectSupply

deploy_12_15_ownerships ==
  Do("olasAddress", "changeMinter", <<"timelockAddress">>)
    \o Each(<<"olasAddress", "buOLASAddress">>, "changeOwner", <<"timelockAddress">>)
    \o Expect("olasAddress", "owner", "timelockAddress")
    \o Expect("olasAddress", "minter", "timelockAddress")
    \o Expect("buOLASAddress", "owner", "timelockAddress")
    \o Do("timelockAddress", "renounceRole", <<"TIMELOCK_ADMIN_ROLE", "deployer">>)
    \o ExpectRole("TIMELOCK_ADMIN_ROLE", "deployer", FALSE)
    \o Do("deploymentFactory", "changeOwner", <<"dEaD">>)
    \o Expect("deploymentFactory", "owner", "dEaD")

\* ---- the supplemental contracts
deploy_16_wveolas ==
  Deploy("wveOLAS", <<"veOLASAddress", "olasAddress">>) \o Expect("self", "ve", "veOLASAddress")
    \o Verify(verify_16_wveolas) \o Write("wveOLASAddress")

deploy_17_governorTwo ==
  Deploy("GovernorOLAS", <<"wveOLASAddress", "timelockAddress">> \o VotingParameters)
    \o Write("governorTwoAddress") \o Expect("self", "timelock", "timelockAddress") \o Verify(verify_17_governorTwo)

deploy_18_guardCM ==
  WriteThenVerify("GuardCM", "guardCMAddress", <<"timelockAddress", "CM", "governorTwoAddress">>,
                  verify_18_guardCM)

\* ---- the bridging of an ERC20 between Polygon and Ethereum
deploy_19_bridged_erc20 ==
  WriteThenVerify("BridgedERC20", "bridgedERC20Address", <<"name", "symbol", "decimals">>,
                  verify_19_bridged_erc20)

deploy_20_erc20_root_tunnel ==
  WriteThenVerify("FxERC20RootTunnel", "fxERC20RootTunnelAddress",
    <<"checkpointManagerAddress", "fxRootAddress", "childTokenAddress", "bridgedERC20Address">>,
    verify_20_erc20_root_tunnel)

deploy_21_22_bridged_erc20_change_owners ==
  Do("bridgedERC20Address", "changeOwner", <<"fxERC20RootTunnelAddress">>)
    \o Do("fxERC20RootTunnelAddress", "setFxChildTunnel", <<"fxERC20ChildTunnelAddress">>)

deploy_03_erc20_child_tunnel ==
  WriteThenVerify("FxERC20ChildTunnel", "fxERC20ChildTunnelAddress",
    <<"fxChildAddress", "childTokenAddress", "bridgedERC20Address">>, verify_03_erc20_child_tunnel)

deploy_04_set_root_tunnel ==
  Do("fxERC20ChildTunnelAddress", "setFxRootTunnel", <<"fxERC20RootTunnelAddress">>)

\* ---- the mediators that carry the timelock's transactions to the other chains
deploy_01_governor_tunnel ==
  WriteThenVerify("FxGovernorTunnel", "fxGovernorTunnelAddress",
                  <<"fxChildAddress", "timelockAddress">>, verify_01_governor_tunnel)
deploy_01_home_mediator ==
  WriteThenVerify("HomeMediator", "homeMediatorAddress",
                  <<"AMBContractProxyHomeAddress", "timelockAddress">>, verify_01_home_mediator)
deploy_01_optimism_messenger ==
  WriteThenVerify("OptimismMessenger", "optimismMessengerAddress",
                  <<"L2CrossDomainMessengerAddress", "timelockAddress">>,
                  verify_01_optimism_messenger)
deploy_01_wormhole_messenger ==
  WriteThenVerify("WormholeMessenger", "wormholeMessengerAddress",
    <<"L2WormholeRelayerAddress", "timelockAddress", "sourceGovernorChainId">>,
    verify_01_wormhole_messenger)

\* ---- the proposals, run by the timelock
\* faulty: one role of the first governor is forgotten
GovernorSwap_threeRevoked ==
  OnRoles("revokeRole", SubSeq(Roles, 1, 3), "governorAddress")
    \o OnRoles("grantRole", Roles, "governorTwoAddress")
GovernorSwap ==
  OnRoles("revokeRole", Roles, "governorAddress") \o OnRoles("grantRole", Roles, "governorTwoAddress")
proposal_02_governor_to_governorTwo == Propose("timelockAddress", GovernorSwap)

proposal_01_goerli_sync_mainnet ==
  Propose("timelockAddress",
          Append(GovernorSwap, Call("olasAddress", "changeMinter", <<"treasuryAddress">>)))

proposal_03_revoke_CM ==
  Propose("timelockAddress",
          OnRoles("revokeRole", <<"EXECUTOR_ROLE", "PROPOSER_ROLE", "CANCELLER_ROLE">>, "CM"))

\* the mediators and selectors of the guard are constants of the file; the guard of this commit
\* has no function of the first name
Selectors == Call("guardCMAddress", "setTargetSelectorChainIds",
                  <<"targets", "selectors", "chainIds", "statuses">>)
GuardSetup ==
  <<Call("guardCMAddress", "setBridgeMediatorChainIds", <<"bridgeMediatorL1s", "bridgeMediatorL2s",
                                                          "chainIds">>), Selectors>>
proposal_04_CM_guard == Propose("timelockAddress", GuardSetup)
proposal_04_CM_guard_goerli == Propose("timelockAddress", GuardSetup)
\* what replaces it
mended_04_CM_guard ==
  Propose("timelockAddress",
    <<Call("guardCMAddress", "setBridgeMediatorL1BridgeParams",
           <<"bridgeMediatorL1s", "verifierL2s", "chainIds", "bridgeMediatorL2s">>), Selectors>>)

\* the multisig sets its guard when the timelock, a module of it, asks it to
proposal_05_CM_guard ==
  Propose("timelockAddress", <<Call("CM", "execTransactionFromModule",
                                <<"CM", "no value", "guardCMAddress", "operation">>)>>)
====
