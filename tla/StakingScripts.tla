---- MODULE StakingScripts ----
(* The scripts of the tokenomics repository that deploy the deposit processors on Ethereum and
   the target dispensers on the other chains, one definition per file and named after it; a
   file of the wormhole directory whose name is taken has the suffix _w. The scripts that
   send trial messages and map a token on a bridge are left out. *)
EXTENDS ScriptSteps

\* the verified constructor arguments
verify_01_mock_dispenser == <<"olasAddress">>
verify_01_mock_dispenser_w == <<"olasAddress">>
verify_02_arbitrum_deposit_processor ==
  <<"olasAddress", "dispenserAddress", "arbitrumL1ERC20GatewayRouterAddress",
    "arbitrumInboxAddress", "arbitrumL2TargetChainId", "arbitrumL1ERC20GatewayAddress",
    "arbitrumOutboxAddress", "arbitrumBridgeAddress">>
verify_03_gnosis_deposit_processor ==
  <<"olasAddress", "dispenserAddress", "gnosisOmniBridgeAddress", "gnosisAMBForeignAddress",
    "gnosisL2TargetChainId">>
verify_04_optimism_deposit_processor ==
  <<"olasAddress", "dispenserAddress", "optimisticL1StandardBridgeProxyAddress",
    "optimisticL1CrossDomainMessengerProxyAddress", "optimisticL2TargetChainId",
    "optimisticOLASAddress">>
verify_05_wormhole_deposit_processor ==
  <<"olasAddress", "dispenserAddress", "wormholeL1TokenRelayerAddress",
    "wormholeL1MessageRelayerAddress", "celoL2TargetChainId", "wormholeL1CoreAddress",
    "celoWormholeL2TargetChainId">>
verify_05_wormhole_deposit_processor_w == verify_05_wormhole_deposit_processor
verify_06_polygon_deposit_processor ==
  <<"olasAddress", "dispenserAddress", "polygonRootChainManagerProxyAddress",
    "polygonFXRootAddress", "polygonL2TargetChainId", "polygonCheckpointManagerAddress",
    "polygonERC20PredicateAddress">>

verify_02_arbitrum_target_dispenser ==
  <<"olasAddress", "serviceStakingFactoryAddress", "arbitrumArbSysAddress",
    "arbitrumDepositProcessorL1Address", "l1ChainId">>
verify_03_gnosis_target_dispenser ==
  <<"olasAddress", "serviceStakingFactoryAddress", "gnosisAMBHomeAddress",
    "gnosisDepositProcessorL1Address", "l1ChainId">>
verify_04_optimism_target_dispenser ==
  <<"olasAddress", "serviceStakingFactoryAddress", "optimisticL2CrossDomainMessengerAddress",
    "optimismDepositProcessorL1Address", "l1ChainId">>
verify_05_celo_wormhole_target_dispenser ==
  <<"olasAddress", "serviceStakingFactoryAddress", "wormholeL2MessageRelayer",
    "celoWormholeDepositProcessorL1Address", "wormholel1ChainId", "wormholeL2CoreAddress",
    "wormholeL2TokenRelayerAddress">>
verify_06_polygon_target_dispenser ==
  <<"olasAddress", "serviceStakingFactoryAddress", "polygonFXChildAddress",
    "polygonDepositProcessorL1Address", "l1ChainId">>

\* ---- Ethereum: stand-ins for OLAS and the dispenser on a test network, the deposit processors
deploy_00_mock_olas_as_erc20_ownerless ==
  WriteThenVerify("ERC20TokenOwnerless", "olasAddress", <<>>, <<>>)
deploy_00_mock_olas_as_erc20_ownerless_w == deploy_00_mock_olas_as_erc20_ownerless
\* the repository has no such contract any more; MockStakingDispenser replaces it
deploy_01_mock_dispenser ==
  WriteThenVerify("MockServiceStakingDispenser", "dispenserAddress", <<"olasAddress">>,
                  verify_01_mock_dispenser)
deploy_01_mock_dispenser_w ==
  WriteThenVerify("MockServiceStakingDispenser", "dispenserAddress", <<"olasAddress">>,
                  verify_01_mock_dispenser_w)
mended_01_mock_dispenser ==
  WriteThenVerify("MockStakingDispenser", "dispenserAddress", <<"olasAddress">>,
                  verify_01_mock_dispenser)
deploy_02_arbitrum_deposit_processor ==
  WriteThenVerify("ArbitrumDepositProcessorL1", "arbitrumDepositProcessorL1Address",
    <<"olasAddress", "dispenserAddress", "arbitrumL1ERC20GatewayRouterAddress",
      "arbitrumInboxAddress", "arbitrumL2TargetChainId", "arbitrumL1ERC20GatewayAddress",
      "arbitrumOutboxAddress", "arbitrumBridgeAddress">>, verify_02_arbitrum_deposit_processor)
deploy_03_gnosis_deposit_processor ==
  WriteThenVerify("GnosisDepositProcessorL1", "gnosisDepositProcessorL1Address",
    <<"olasAddress", "dispenserAddress", "gnosisOmniBridgeAddress", "gnosisAMBForeignAddress",
      "gnosisL2TargetChainId">>, verify_03_gnosis_deposit_processor)
deploy_04_optimism_deposit_processor ==
  WriteThenVerify("OptimismDepositProcessorL1", "optimismDepositProcessorL1Address",
    <<"olasAddress", "dispenserAddress", "optimisticL1StandardBridgeProxyAddress",
      "optimisticL1CrossDomainMessengerProxyAddress", "optimisticL2TargetChainId",
      "optimisticOLASAddress">>, verify_04_optimism_deposit_processor)
WormholeArgs ==
  <<"olasAddress", "dispenserAddress", "wormholeL1TokenRelayerAddress",
    "wormholeL1MessageRelayerAddress", "celoL2TargetChainId", "wormholeL1CoreAddress",
    "celoWormholeL2TargetChainId">>
deploy_05_celo_wormhole_deposit_processor ==
  WriteThenVerify("WormholeDepositProcessorL1", "wormholeDepositProcessorL1Address", WormholeArgs,
                  verify_05_wormhole_deposit_processor)
\* verified with the file of the parent directory
deploy_05_celo_wormhole_deposit_processor_w ==
  WriteThenVerify("WormholeDepositProcessorL1", "celoWormholeDepositProcessorL1Address",
                  WormholeArgs, verify_05_wormhole_deposit_processor)
deploy_06_polygon_deposit_processor ==
  WriteThenVerify("PolygonDepositProcessorL1", "polygonDepositProcessorL1Address",
    <<"olasAddress", "dispenserAddress", "polygonRootChainManagerProxyAddress",
      "polygonFXRootAddress", "polygonL2TargetChainId", "polygonCheckpointManagerAddress",
      "polygonERC20PredicateAddress">>, verify_06_polygon_deposit_processor)

\* ---- the other chains
deploy_02_arbitrum_targer_dispenser ==
  WriteThenVerify("ArbitrumTargetDispenserL2", "arbitrumTargetDispenserL2Address",
    <<"olasAddress", "serviceStakingFactoryAddress", "arbitrumArbSysAddress",
      "arbitrumDepositProcessorL1Address", "l1ChainId">>, verify_02_arbitrum_target_dispenser)
\* without the token relayer, the last argument of the constructor; then with it
deploy_03_gnosis_targer_dispenser ==
  WriteThenVerify("GnosisTargetDispenserL2", "gnosisTargetDispenserL2Address",
    <<"olasAddress", "serviceStakingFactoryAddress", "gnosisAMBHomeAddress",
      "gnosisDepositProcessorL1Address", "l1ChainId">>, verify_03_gnosis_target_dispenser)
GnosisTargetArgs == Append(verify_03_gnosis_target_dispenser, "HomeOmniBridgeProxy")
mended_03_gnosis_targer_dispenser ==
  WriteThenVerify("GnosisTargetDispenserL2", "gnosisTargetDispenserL2Address", GnosisTargetArgs,
                  GnosisTargetArgs)
deploy_04_optimism_targer_dispenser ==
  WriteThenVerify("OptimismTargetDispenserL2", "optimismTargetDispenserL2Address",
    <<"olasAddress", "serviceStakingFactoryAddress", "optimisticL2CrossDomainMessengerAddress",
      "optimismDepositProcessorL1Address", "l1ChainId">>, verify_04_optimism_target_dispenser)
\* passes the timelock too, which neither the constructor nor the verify file lists; then without
deploy_05_celo_wormhole_targer_dispenser ==
  WriteThenVerify("WormholeTargetDispenserL2", "celoWormholeTargetDispenserL2Address",
    <<"olasAddress", "serviceStakingFactoryAddress", "timelockAddress",
      "wormholeL2MessageRelayer", "celoWormholeDepositProcessorL1Address", "wormholel1ChainId",
      "wormholeL2CoreAddress", "wormholeL2TokenRelayerAddress">>,
    verify_05_celo_wormhole_target_dispenser)
mended_05_celo_wormhole_targer_dispenser ==
  WriteThenVerify("WormholeTargetDispenserL2", "celoWormholeTargetDispenserL2Address",
                  verify_05_celo_wormhole_target_dispenser,
                  verify_05_celo_wormhole_target_dispenser)
deploy_06_polygon_targer_dispenser ==
  WriteThenVerify("PolygonTargetDispenserL2", "polygonTargetDispenserL2Address",
    <<"olasAddress", "serviceStakingFactoryAddress", "polygonFXChildAddress",
      "polygonDepositProcessorL1Address", "l1ChainId">>, verify_06_polygon_target_dispenser)
====
