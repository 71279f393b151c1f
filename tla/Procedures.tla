---- MODULE Procedures ----
(* The procedures of the three repositories: which scripts are run, in which order and on which
   globals file. The order is that of the numbers in the file names and of the README files
   beside them; between the repositories it is that of the addresses they need. *)
EXTENDS ScriptSteps

Gov == INSTANCE GovernanceScripts
Reg == INSTANCE RegistriesScripts
RegL2 == INSTANCE RegistriesL2Scripts
Tok == INSTANCE TokenomicsScripts
Stk == INSTANCE StakingScripts

Run(name, file, steps) == <<[name |-> name, file |-> file, steps |-> steps]>>
\* a script that no longer fits the contracts of this commit, and the one run in its place
\* after it has failed
Outdated(name, file, steps, mended) == Run(name, file, steps) \o Run("mended", file, mended)
\* an action of the operator between two scripts
ByHand(steps) == Run("by hand", "gov", steps)

\* ---- Ethereum
Governance ==
  Run("deploy_02_deployment_factory", "gov", Gov!deploy_02_deployment_factory)
  \o Run("deploy_04_olas", "gov", Gov!deploy_04_olas)
  \o Run("deploy_05_timelock", "gov", Gov!deploy_05_timelock)
  \o Run("deploy_07_veolas", "gov", Gov!deploy_07_veolas)
  \o Run("deploy_08_09_governor_and_roles", "gov", Gov!deploy_08_09_governor_and_roles)
  \o Run("deploy_10_buolas", "gov", Gov!deploy_10_buolas)
  \o Run("deploy_11_mint_olas", "gov", Gov!deploy_11_mint_olas)
  \o Run("deploy_12_15_ownerships", "gov", Gov!deploy_12_15_ownerships)

Registries ==
  ByHand(Copy("gov", "reg", {"timelockAddress"}))
  \o Run("deploy_01_component_registry", "reg", Reg!deploy_01_component_registry)
  \o Run("deploy_02_agent_registry", "reg", Reg!deploy_02_agent_registry)
  \o Run("deploy_03_registries_manager", "reg", Reg!deploy_03_registries_manager)
  \o Run("deploy_04_service_registry", "reg", Reg!deploy_04_service_registry)
  \o Run("deploy_05_service_manager", "reg", Reg!deploy_05_service_manager)
  \o Run("deploy_06a_gnosis_safe_multisig", "reg", Reg!deploy_06a_gnosis_safe_multisig)
  \o Run("deploy_06b_gnosis_safe_same_address_multisig", "reg",
         Reg!deploy_06b_gnosis_safe_same_address_multisig)
  \o Run("deploy_07_09_change_managers", "reg", Reg!deploy_07_09_change_managers)
  \o Run("deploy_10_14_change_ownerships", "reg", Reg!deploy_10_14_change_ownerships)

Tokenomics_ ==
  ByHand(Copy("gov", "tok", {"olasAddress", "timelockAddress", "veOLASAddress"})
    \o Copy("reg", "tok", {"componentRegistryAddress", "agentRegistryAddress",
                           "serviceRegistryAddress"}))
  \o Run("deploy_01_donator_blacklist", "tok", Tok!deploy_01_donator_blacklist)
  \o Run("deploy_02_tokenomics", "tok", Tok!deploy_02_tokenomics)
  \o Run("deploy_03_tokenomics_proxy", "tok", Tok!deploy_03_tokenomics_proxy)
  \o Run("deploy_04_treasury", "tok", Tok!deploy_04_treasury)
  \o Run("deploy_05_generic_bond_calculator", "tok", Tok!deploy_05_generic_bond_calculator)
  \o Run("deploy_06_depository", "tok", Tok!deploy_06_depository)
  \o Outdated("deploy_07_dispenser", "tok", Tok!deploy_07_dispenser, Tok!mended_07_dispenser)
  \o Run("deploy_08_09_change_managers", "tok", Tok!deploy_08_09_change_managers)
  \o Run("deploy_10_14_change_ownerships", "tok", Tok!deploy_10_14_change_ownerships)
  \o ByHand(Copy("tok", "gov", {"treasuryAddress"}) \o Copy("tok", "reg", {"treasuryAddress"}))

\* the contracts added after the first release
Supplements ==
  Run("deploy_16_wveolas", "gov", Gov!deploy_16_wveolas)
  \o Run("deploy_17_governorTwo", "gov", Gov!deploy_17_governorTwo)
SupplementsTwo ==
  Run("deploy_18_guardCM", "gov", Gov!deploy_18_guardCM)
  \o Run("deploy_15_operator_whitelist", "reg", Reg!deploy_15_operator_whitelist)
  \o Run("deploy_16_service_registry_token_utility", "reg",
         Reg!deploy_16_service_registry_token_utility)
  \o Run("deploy_17_service_manager_token", "reg", Reg!deploy_17_service_manager_token)
  \o Run("deploy_18_change_managers", "reg", Reg!deploy_18_change_managers)
  \o Run("deploy_19_20_change_ownerships", "reg", Reg!deploy_19_20_change_ownerships)
  \o Outdated("deploy_21_service_staking_factory", "reg", Reg!deploy_21_service_staking_factory, <<>>)
  \o Run("deploy_17_depositoryTwo", "tok", Tok!deploy_17_depositoryTwo)

Proposals ==
  Run("proposal_07_service_registry_change_multisig_permission_goerli_mainnet", "reg",
      Reg!proposal_07_service_registry_change_multisig_permission_goerli_mainnet)
  \o Run("proposal_01_change_tokenomics_implementation", "tok",
         Tok!proposal_01_change_tokenomics_implementation)
  \o Run("proposal_02_enable_OLAS_ETH_token", "tok", Tok!proposal_02_enable_OLAS_ETH_token)
  \o Run("proposal_04_change_depository_and_manage_products", "tok",
         Tok!proposal_04_change_depository_and_manage_products)
  \o Run("proposal_05_create_bonding_products", "tok", Tok!proposal_05_create_bonding_products)
  \o Outdated("proposal_06_change_fractions_and_manage_products", "tok",
              Tok!proposal_06_change_fractions_and_manage_products,
              Tok!mended_06_change_fractions_and_manage_products)
  \o Run("proposal_03_revoke_CM", "gov", Gov!proposal_03_revoke_CM)
  \o Outdated("proposal_04_CM_guard", "gov", Gov!proposal_04_CM_guard, Gov!mended_04_CM_guard)
  \o Run("proposal_05_CM_guard", "gov", Gov!proposal_05_CM_guard)
ProposalsGoerli ==
  Run("proposal_03_service_registry_change_drainer_goerli", "reg",
      Reg!proposal_03_service_registry_change_drainer_goerli)
  \o Outdated("proposal_04_CM_guard_goerli", "gov", Gov!proposal_04_CM_guard_goerli,
              Gov!mended_04_CM_guard)
  \o Run("proposal_07_goerli_sync_mainnet", "tok", Tok!proposal_07_goerli_sync_mainnet)

\* the second depository given to the timelock, which no script does
HandOver == Run("by hand", "tok", Do("depositoryTwoAddress", "changeOwner", <<"timelockAddress">>))

Base == Governance \o Registries \o Tokenomics_
Mainnet ==
  Base \o Run("deploy_15_16_change_minter_and_drainer", "tok", Tok!deploy_15_16_change_minter_and_drainer)
  \o Supplements
  \o Run("proposal_02_governor_to_governorTwo", "gov", Gov!proposal_02_governor_to_governorTwo)
  \o SupplementsTwo
MainnetAsScripted == Mainnet \o Proposals
MainnetHandedOver == Mainnet \o HandOver \o Proposals
Goerli ==
  Base \o Supplements
  \o Run("proposal_01_goerli_sync_mainnet", "gov", Gov!proposal_01_goerli_sync_mainnet)
  \o SupplementsTwo \o ProposalsGoerli

\* ---- an ERC20 bridged from Polygon
BridgeERC20 ==
  Run("deploy_19_bridged_erc20", "gov", Gov!deploy_19_bridged_erc20)
  \o ByHand(Copy("gov", "bridge", {"bridgedERC20Address"}))
  \o Run("deploy_03_erc20_child_tunnel", "bridge", Gov!deploy_03_erc20_child_tunnel)
  \o ByHand(Copy("bridge", "gov", {"fxERC20ChildTunnelAddress"}))
  \o Run("deploy_20_erc20_root_tunnel", "gov", Gov!deploy_20_erc20_root_tunnel)
  \o Run("deploy_21_22_bridged_erc20_change_owners", "gov",
         Gov!deploy_21_22_bridged_erc20_change_owners)
  \o ByHand(Copy("gov", "bridge", {"fxERC20RootTunnelAddress"}))
  \o Run("deploy_04_set_root_tunnel", "bridge", Gov!deploy_04_set_root_tunnel)

\* ---- the other chains
LightProtocol ==
  Run("deploy_01_service_registry_l2", "l2", RegL2!deploy_01_service_registry_l2)
  \o Run("deploy_02_operator_whitelist", "l2", RegL2!deploy_02_operator_whitelist)
  \o Run("deploy_03_service_registry_token_utility", "l2",
         RegL2!deploy_03_service_registry_token_utility)
  \o Run("deploy_04_service_manager_token", "l2", RegL2!deploy_04_service_manager_token)
  \o Run("deploy_05_gnosis_safe_multisig", "l2", RegL2!deploy_05_gnosis_safe_multisig)
  \o Run("deploy_06_gnosis_safe_same_address_multisig", "l2",
         RegL2!deploy_06_gnosis_safe_same_address_multisig)
  \o Run("deploy_07_10_change_managers_and_permissions", "l2",
         RegL2!deploy_07_10_change_managers_and_permissions)
  \o Run("deploy_11_12_change_drainers", "l2", RegL2!deploy_11_12_change_drainers)
  \o Run("deploy_13_15_change_ownerships", "l2", RegL2!deploy_13_15_change_ownerships)
StakingContracts ==
  Run("deploy_16_service_staking_token", "l2", RegL2!deploy_16_service_staking_token)
  \o Run("deploy_17_service_staking_native_token", "l2", RegL2!deploy_17_service_staking_native_token)
  \o Run("deploy_18_service_staking_activity_checker", "l2",
         RegL2!deploy_18_service_staking_activity_checker)
  \o Run("deploy_19_service_staking_verifier", "l2", RegL2!deploy_19_service_staking_verifier)
  \o Run("deploy_20_service_staking_factory", "l2", RegL2!deploy_20_service_staking_factory)
  \o Run("deploy_21_service_staking_token_instance", "l2",
         RegL2!deploy_21_service_staking_token_instance)
  \o Run("deploy_22_service_staking_native_token_instance", "l2",
         RegL2!deploy_22_service_staking_native_token_instance)
  \o Run("deploy_23_hash_checkpoint_l2", "l2", RegL2!deploy_23_hash_checkpoint_l2)
Mediator(name, key, steps) ==
  Run(name, "bridge", steps)
  \o ByHand(CopyAs("bridge", key, "l2", "bridgeMediatorAddress"))
Polygon ==
  Mediator("deploy_01_governor_tunnel", "fxGovernorTunnelAddress", Gov!deploy_01_governor_tunnel)
  \o LightProtocol
  \o Run("proposal_01_service_registry_l2_change_drainer_polygon", "l2",
         RegL2!proposal_01_service_registry_l2_change_drainer_polygon)
  \o Run("proposal_06_service_registry_l2_change_multisig_permission_polygon", "l2",
         RegL2!proposal_06_service_registry_l2_change_multisig_permission_polygon)
  \o Run("proposal_08_service_registry_l2_change_manager_polygon", "l2",
         RegL2!proposal_08_service_registry_l2_change_manager_polygon)
  \o StakingContracts
Gnosis ==
  Mediator("deploy_01_home_mediator", "homeMediatorAddress", Gov!deploy_01_home_mediator)
  \o LightProtocol
  \o Run("proposal_02_service_registry_l2_change_drainer_gnosis", "l2",
         RegL2!proposal_02_service_registry_l2_change_drainer_gnosis)
  \o Run("proposal_04_service_registry_l2_change_manager_gnosis", "l2",
         RegL2!proposal_04_service_registry_l2_change_manager_gnosis)
  \o Run("proposal_05_service_registry_l2_change_multisig_permission_gnosis", "l2",
         RegL2!proposal_05_service_registry_l2_change_multisig_permission_gnosis)
  \o StakingContracts
Optimism ==
  Mediator("deploy_01_optimism_messenger", "optimismMessengerAddress",
           Gov!deploy_01_optimism_messenger)
  \o LightProtocol \o StakingContracts
Celo ==
  Mediator("deploy_01_wormhole_messenger", "wormholeMessengerAddress",
           Gov!deploy_01_wormhole_messenger)
  \o LightProtocol

\* ---- the messages that carry staking incentives
TargetDispenser(key, script) == ByHand(Copy("staking", "stakingL2", {key})) \o script
StakingMessages ==
  Run("deploy_00_mock_olas_as_erc20_ownerless", "staking", Stk!deploy_00_mock_olas_as_erc20_ownerless)
  \o Outdated("deploy_01_mock_dispenser", "staking", Stk!deploy_01_mock_dispenser,
              Stk!mended_01_mock_dispenser)
  \o Run("deploy_02_arbitrum_deposit_processor", "staking", Stk!deploy_02_arbitrum_deposit_processor)
  \o Run("deploy_03_gnosis_deposit_processor", "staking", Stk!deploy_03_gnosis_deposit_processor)
  \o Run("deploy_04_optimism_deposit_processor", "staking", Stk!deploy_04_optimism_deposit_processor)
  \o Run("deploy_05_celo_wormhole_deposit_processor", "staking",
         Stk!deploy_05_celo_wormhole_deposit_processor)
  \o Run("deploy_06_polygon_deposit_processor", "staking", Stk!deploy_06_polygon_deposit_processor)
  \o TargetDispenser("arbitrumDepositProcessorL1Address",
       Run("deploy_02_arbitrum_targer_dispenser", "stakingL2",
           Stk!deploy_02_arbitrum_targer_dispenser))
  \o TargetDispenser("gnosisDepositProcessorL1Address",
       Outdated("deploy_03_gnosis_targer_dispenser", "stakingL2",
                Stk!deploy_03_gnosis_targer_dispenser, Stk!mended_03_gnosis_targer_dispenser))
  \o TargetDispenser("optimismDepositProcessorL1Address",
       Run("deploy_04_optimism_targer_dispenser", "stakingL2",
           Stk!deploy_04_optimism_targer_dispenser))
  \o TargetDispenser("polygonDepositProcessorL1Address",
       Run("deploy_06_polygon_targer_dispenser", "stakingL2",
           Stk!deploy_06_polygon_targer_dispenser))
StakingMessagesCelo ==
  Run("deploy_00_mock_olas_as_erc20_ownerless_w", "staking",
      Stk!deploy_00_mock_olas_as_erc20_ownerless_w)
  \o Outdated("deploy_01_mock_dispenser_w", "staking", Stk!deploy_01_mock_dispenser_w,
              Stk!mended_01_mock_dispenser)
  \o Run("deploy_05_celo_wormhole_deposit_processor_w", "staking",
         Stk!deploy_05_celo_wormhole_deposit_processor_w)
  \o TargetDispenser("celoWormholeDepositProcessorL1Address",
       Outdated("deploy_05_celo_wormhole_targer_dispenser", "stakingL2",
                Stk!deploy_05_celo_wormhole_targer_dispenser,
                Stk!mended_05_celo_wormhole_targer_dispenser))

Scripts == [MainnetAsScripted |-> MainnetAsScripted, MainnetHandedOver |-> MainnetHandedOver,
            Goerli |-> Goerli, BridgeERC20 |-> BridgeERC20, Polygon |-> Polygon, Gnosis |-> Gnosis,
            Optimism |-> Optimism, Celo |-> Celo, StakingMessages |-> StakingMessages,
            StakingMessagesCelo |-> StakingMessagesCelo]
====
