---- MODULE RegistriesL2Scripts ----
(* The deployment scripts of the registries repository for the other chains and the
   proposals that reach them: such a proposal makes the timelock send a message that the
   chain's bridge mediator unpacks and runs as one transaction. *)
EXTENDS ScriptSteps

\* the verified constructor arguments
verify_01_service_registry_l2 == <<"name", "symbol", "baseURI">>
verify_02_operator_whitelist == <<"serviceRegistryAddress">>
verify_03_service_registry_token_utility == <<"serviceRegistryAddress">>
verify_04_service_manager_token ==
  <<"serviceRegistryAddress", "serviceRegistryTokenUtilityAddress", "operatorWhitelistAddress">>
verify_05_gnosis_safe_multisig == <<"gnosisSafeAddress", "gnosisSafeProxyFactoryAddress">>
verify_06_gnosis_safe_same_address_multisig == <<"multisigProxyHash130">>
verify_18_service_staking_activity_checker == <<"livenessRatio">>
verify_19_service_staking_verifier ==
  <<"olasAddress", "rewardsPerSecondLimit", "timeForEmissionsLimit", "numServicesLimit">>
verify_20_service_staking_factory == <<"stakingVerifierAddress">>
verify_21_service_staking_token_instance == <<"stakingTokenAddress">>
verify_22_service_staking_native_token_instance == <<"stakingNativeTokenAddress">>
verify_23_hash_checkpoint == <<"baseURI">>

\* ---- the light protocol
deploy_01_service_registry_l2 ==
  WriteThenVerify("ServiceRegistryL2", "serviceRegistryAddress", <<"name", "symbol", "baseURI">>,
                  verify_01_service_registry_l2)
deploy_02_operator_whitelist ==
  WriteThenVerify("OperatorWhitelist", "operatorWhitelistAddress", <<"serviceRegistryAddress">>,
                  verify_02_operator_whitelist)
deploy_03_service_registry_token_utility ==
  WriteThenVerify("ServiceRegistryTokenUtility", "serviceRegistryTokenUtilityAddress",
                  <<"serviceRegistryAddress">>, verify_03_service_registry_token_utility)
deploy_04_service_manager_token ==
  WriteThenVerify("ServiceManagerToken", "serviceManagerTokenAddress",
    <<"serviceRegistryAddress", "serviceRegistryTokenUtilityAddress", "operatorWhitelistAddress">>,
    verify_04_service_manager_token)
deploy_05_gnosis_safe_multisig ==
  WriteThenVerify("GnosisSafeMultisig", "gnosisSafeMultisigImplementationAddress",
    <<"gnosisSafeAddress", "gnosisSafeProxyFactoryAddress">>, verify_05_gnosis_safe_multisig)
deploy_06_gnosis_safe_same_address_multisig ==
  WriteThenVerify("GnosisSafeSameAddressMultisig",
    "gnosisSafeSameAddressMultisigImplementationAddress", <<"multisigProxyHash130">>,
    verify_06_gnosis_safe_same_address_multisig)
Permit(multisig) == Do("serviceRegistryAddress", "changeMultisigPermission", <<multisig, "true">>)
\* faulty: the second multisig is not permitted
deploy_07_10_change_managers_and_permissions_onePermit ==
  Each(<<"serviceRegistryAddress", "serviceRegistryTokenUtilityAddress">>, "changeManager",
       <<"serviceManagerTokenAddress">>)
    \o Permit("gnosisSafeMultisigImplementationAddress")
deploy_07_10_change_managers_and_permissions ==
  Each(<<"serviceRegistryAddress", "serviceRegistryTokenUtilityAddress">>, "changeManager",
       <<"serviceManagerTokenAddress">>)
    \o Permit("gnosisSafeMultisigImplementationAddress")
    \o Permit("gnosisSafeSameAddressMultisigImplementationAddress")
deploy_11_12_change_drainers ==
  Each(<<"serviceRegistryAddress", "serviceRegistryTokenUtilityAddress">>, "changeDrainer",
       <<"bridgeMediatorAddress">>)
\* faulty: the service manager is forgotten
deploy_13_15_change_ownerships_noManager ==
  Each(<<"serviceRegistryAddress", "serviceRegistryTokenUtilityAddress">>, "changeOwner",
       <<"bridgeMediatorAddress">>)
deploy_13_15_change_ownerships ==
  Each(<<"serviceRegistryAddress", "serviceRegistryTokenUtilityAddress",
         "serviceManagerTokenAddress">>, "changeOwner", <<"bridgeMediatorAddress">>)

\* ---- staking; a staking instance is created by the factory at the address a static call
\* has predicted, and keeps no owner
deploy_16_service_staking_token == WriteThenVerify("StakingToken", "stakingTokenAddress", <<>>, <<>>)
deploy_17_service_staking_native_token ==
  WriteThenVerify("StakingNativeToken", "stakingNativeTokenAddress", <<>>, <<>>)
deploy_18_service_staking_activity_checker ==
  WriteThenVerify("StakingActivityChecker", "stakingActivityCheckerAddress", <<"livenessRatio">>,
                  verify_18_service_staking_activity_checker)
deploy_19_service_staking_verifier ==
  WriteThenVerify("StakingVerifier", "stakingVerifierAddress",
    <<"olasAddress", "rewardsPerSecondLimit", "timeForEmissionsLimit", "numServicesLimit">>,
    verify_19_service_staking_verifier)
deploy_20_service_staking_factory ==
  WriteThenVerify("StakingFactory", "stakingFactoryAddress", <<"stakingVerifierAddress">>,
                  verify_20_service_staking_factory)
deploy_21_service_staking_token_instance ==
  WriteThenVerify("StakingTokenInstance", "stakingTokenInstanceAddress", <<"stakingTokenAddress">>,
                  verify_21_service_staking_token_instance)
deploy_22_service_staking_native_token_instance ==
  WriteThenVerify("StakingNativeTokenInstance", "stakingNativeTokenInstanceAddress",
    <<"stakingNativeTokenAddress">>, verify_22_service_staking_native_token_instance)
deploy_23_hash_checkpoint_l2 ==
  WriteThenVerify("HashCheckpoint", "hashCheckpoint", <<"baseURI">>, verify_23_hash_checkpoint)

\* ---- the proposals, run by the mediator of the chain
ToRegistry(fn, args) == Call("serviceRegistryAddress", fn, args)
proposal_01_service_registry_l2_change_drainer_polygon ==
  Propose("bridgeMediatorAddress", <<ToRegistry("changeDrainer", <<"bridgeMediatorAddress">>)>>)
proposal_02_service_registry_l2_change_drainer_gnosis ==
  Propose("bridgeMediatorAddress", <<ToRegistry("changeDrainer", <<"bridgeMediatorAddress">>)>>)
proposal_04_service_registry_l2_change_manager_gnosis ==
  Propose("bridgeMediatorAddress", <<ToRegistry("changeManager", <<"serviceManagerTokenAddress">>)>>)
proposal_08_service_registry_l2_change_manager_polygon ==
  Propose("bridgeMediatorAddress", <<ToRegistry("changeManager", <<"serviceManagerTokenAddress">>)>>)
\* the address of the previous multisig is a constant of the file
SwapSameAddressMultisig ==
  <<ToRegistry("changeMultisigPermission", <<"the previous same-address multisig", "false">>),
    ToRegistry("changeMultisigPermission",
               <<"gnosisSafeSameAddressMultisigImplementationAddress", "true">>)>>
proposal_05_service_registry_l2_change_multisig_permission_gnosis ==
  Propose("bridgeMediatorAddress", SwapSameAddressMultisig)
proposal_06_service_registry_l2_change_multisig_permission_polygon ==
  Propose("bridgeMediatorAddress", SwapSameAddressMultisig)
====
