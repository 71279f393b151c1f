---- MODULE RegistriesScripts ----
(* The deployment scripts and proposals of the registries repository for Ethereum, one
   definition per file and named after it. *)
EXTENDS ScriptSteps

\* the verified constructor arguments
Named == <<"name", "symbol", "baseURI">>
verify_01_component_registry == Named
verify_02_agent_registry == Named \o <<"componentRegistryAddress">>
verify_03_registries_manager == <<"componentRegistryAddress", "agentRegistryAddress">>
verify_04_service_registry == Named \o <<"agentRegistryAddress">>
verify_05_service_manager == <<"serviceRegistryAddress">>
verify_06a_gnosis_safe_multisig == <<"gnosisSafeAddress", "gnosisSafeProxyFactoryAddress">>
verify_06b_gnosis_safe_same_address_multisig == <<"multisigProxyHash130">>
verify_15_operator_whitelist == <<"serviceRegistryAddress">>
verify_16_service_registry_token_utility == <<"serviceRegistryAddress">>
verify_17_service_manager_token ==
  <<"serviceRegistryAddress", "serviceRegistryTokenUtilityAddress", "operatorWhitelistAddress">>

\* ---- the original contracts
deploy_01_component_registry ==
  VerifyThenWrite("ComponentRegistry", "componentRegistryAddress", Named,
                  verify_01_component_registry)
deploy_02_agent_registry ==
  VerifyThenWrite("AgentRegistry", "agentRegistryAddress",
                  Named \o <<"componentRegistryAddress">>, verify_02_agent_registry)
deploy_03_registries_manager ==
  VerifyThenWrite("RegistriesManager", "registriesManagerAddress",
    <<"componentRegistryAddress", "agentRegistryAddress">>, verify_03_registries_manager)
deploy_04_service_registry ==
  VerifyThenWrite("ServiceRegistry", "serviceRegistryAddress",
                  Named \o <<"agentRegistryAddress">>, verify_04_service_registry)
deploy_05_service_manager ==
  VerifyThenWrite("ServiceManager", "serviceManagerAddress", <<"serviceRegistryAddress">>,
                  verify_05_service_manager)
deploy_06a_gnosis_safe_multisig ==
  WriteThenVerify("GnosisSafeMultisig", "gnosisSafeMultisigImplementationAddress",
    <<"gnosisSafeAddress", "gnosisSafeProxyFactoryAddress">>, verify_06a_gnosis_safe_multisig)
deploy_06b_gnosis_safe_same_address_multisig ==
  WriteThenVerify("GnosisSafeSameAddressMultisig",
    "gnosisSafeSameAddressMultisigImplementationAddress", <<"multisigProxyHash130">>,
    verify_06b_gnosis_safe_same_address_multisig)

deploy_07_09_change_managers ==
  Each(<<"componentRegistryAddress", "agentRegistryAddress">>, "changeManager",
       <<"registriesManagerAddress">>)
    \o Do("serviceRegistryAddress", "changeManager", <<"serviceManagerAddress">>)
    \o Do("serviceRegistryAddress", "changeMultisigPermission",
          <<"gnosisSafeMultisigImplementationAddress", "true">>)
    \o ExpectMultisig("serviceRegistryAddress", "gnosisSafeMultisigImplementationAddress")

Originals == <<"componentRegistryAddress", "agentRegistryAddress", "serviceRegistryAddress",
               "registriesManagerAddress", "serviceManagerAddress">>
deploy_10_14_change_ownerships ==
  Each(Originals, "changeOwner", <<"timelockAddress">>)
    \o ExpectEach(Originals, "owner", "timelockAddress")

\* ---- the supplemental contracts
deploy_15_operator_whitelist ==
  WriteThenVerify("OperatorWhitelist", "operatorWhitelistAddress", <<"serviceRegistryAddress">>,
                  verify_15_operator_whitelist)
deploy_16_service_registry_token_utility ==
  WriteThenVerify("ServiceRegistryTokenUtility", "serviceRegistryTokenUtilityAddress",
                  <<"serviceRegistryAddress">>, verify_16_service_registry_token_utility)
deploy_17_service_manager_token ==
  WriteThenVerify("ServiceManagerToken", "serviceManagerTokenAddress",
    <<"serviceRegistryAddress", "serviceRegistryTokenUtilityAddress", "operatorWhitelistAddress">>,
    verify_17_service_manager_token)
deploy_18_change_managers ==
  Do("serviceRegistryTokenUtilityAddress", "changeManager", <<"serviceManagerTokenAddress">>)
deploy_19_20_change_ownerships ==
  Each(<<"serviceRegistryTokenUtilityAddress", "serviceManagerTokenAddress">>, "changeOwner",
       <<"timelockAddress">>)
\* the repository has no such contract any more
deploy_21_service_staking_factory ==
  WriteThenVerify("ServiceStakingFactory", "stakingFactoryAddress", <<>>, <<>>)

\* ---- proposals for Ethereum, run by the timelock
proposal_03_service_registry_change_drainer_goerli ==
  Propose("timelockAddress", <<Call("serviceRegistryAddress", "changeDrainer", <<"treasuryAddress">>)>>)

SwapSameAddressMultisig ==
  <<Call("serviceRegistryAddress", "changeMultisigPermission",
         <<"the previous same-address multisig", "false">>),
    Call("serviceRegistryAddress", "changeMultisigPermission",
         <<"gnosisSafeSameAddressMultisigImplementationAddress", "true">>)>>
proposal_07_service_registry_change_multisig_permission_goerli_mainnet ==
  Propose("timelockAddress", SwapSameAddressMultisig)
====
