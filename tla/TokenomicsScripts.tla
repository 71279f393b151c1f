---- MODULE TokenomicsScripts ----
(* The deployment scripts and proposals of the tokenomics repository for Ethereum, one
   definition per file and named after it. The two scripts that only compute the price of
   a liquidity token (proposals 3 and 8) are left out. *)
EXTENDS ScriptSteps

\* the implementation, followed by the arguments of initializeTokenomics: three managers that
\* do not exist yet stand in for by the timelock. The verify file reads the call data from a
\* file that the script has just written.
ProxyData == <<"tokenomicsAddress", "olasAddress", "timelockAddress", "timelockAddress",
  "timelockAddress", "veOLASAddress", "epochLen", "componentRegistryAddress",
  "agentRegistryAddress", "serviceRegistryAddress", "donatorBlacklistAddress">>
verify_03_tokenomics_proxy == ProxyData
verify_04_treasury ==
  <<"olasAddress", "tokenomicsProxyAddress", "timelockAddress", "timelockAddress">>
verify_05_generic_bond_calculator == <<"olasAddress", "tokenomicsProxyAddress">>
verify_06_depository ==
  <<"olasAddress", "tokenomicsProxyAddress", "treasuryAddress", "genericBondCalculatorAddress">>
verify_07_dispenser == <<"tokenomicsProxyAddress", "treasuryAddress">>

\* ---- the contracts
deploy_01_donator_blacklist ==
  VerifyThenWrite("DonatorBlacklist", "donatorBlacklistAddress", <<>>, <<>>)
deploy_02_tokenomics == WriteThenVerify("Tokenomics", "tokenomicsTwoAddress", <<>>, <<>>)
deploy_03_tokenomics_proxy ==
  VerifyThenWrite("TokenomicsProxy", "tokenomicsProxyAddress", ProxyData,
                  verify_03_tokenomics_proxy)
deploy_04_treasury ==
  VerifyThenWrite("Treasury", "treasuryAddress",
    <<"olasAddress", "tokenomicsProxyAddress", "timelockAddress", "timelockAddress">>,
    verify_04_treasury)
deploy_05_generic_bond_calculator ==
  VerifyThenWrite("GenericBondCalculator", "genericBondCalculatorAddress",
                  <<"olasAddress", "tokenomicsProxyAddress">>, verify_05_generic_bond_calculator)
DepositoryArgs ==
  <<"olasAddress", "tokenomicsProxyAddress", "treasuryAddress", "genericBondCalculatorAddress">>
deploy_06_depository ==
  VerifyThenWrite("Depository", "depositoryAddress", DepositoryArgs, verify_06_depository)
\* the arguments of an earlier constructor
deploy_07_dispenser ==
  VerifyThenWrite("Dispenser", "dispenserAddress",
                  <<"tokenomicsProxyAddress", "treasuryAddress">>, verify_07_dispenser)
\* what replaces it: all the arguments of the constructor
DispenserArgs ==
  <<"olasAddress", "tokenomicsProxyAddress", "treasuryAddress", "voteWeightingAddress", "retainer",
    "maxNumClaimingEpochs", "maxNumStakingTargets">>
mended_07_dispenser ==
  VerifyThenWrite("Dispenser", "dispenserAddress", DispenserArgs, DispenserArgs)
deploy_08_09_change_managers ==
  Do("tokenomicsProxyAddress", "changeManagers",
     <<"treasuryAddress", "depositoryAddress", "dispenserAddress">>)
    \o Do("treasuryAddress", "changeManagers", <<"zero", "depositoryAddress", "dispenserAddress">>)
\* faulty: the treasury is forgotten
deploy_10_14_change_ownerships_noTreasury ==
  Each(<<"donatorBlacklistAddress", "tokenomicsProxyAddress", "depositoryAddress",
         "dispenserAddress">>, "changeOwner", <<"timelockAddress">>)
deploy_10_14_change_ownerships ==
  Each(<<"donatorBlacklistAddress", "tokenomicsProxyAddress", "treasuryAddress",
         "depositoryAddress", "dispenserAddress">>, "changeOwner", <<"timelockAddress">>)
deploy_15_16_change_minter_and_drainer ==
  Propose("timelockAddress", <<Call("olasAddress", "changeMinter", <<"treasuryAddress">>),
                               Call("serviceRegistryAddress", "changeDrainer", <<"treasuryAddress">>)>>)
deploy_17_depositoryTwo ==
  WriteThenVerify("Depository", "depositoryTwoAddress", DepositoryArgs, verify_06_depository)

\* ---- the proposals, run by the timelock; a batch of products is one call
CloseProducts == Call("depositoryTwoAddress", "close", <<"productIds">>)
CreateProducts(token) ==
  Call("depositoryTwoAddress", "create", <<token, "priceLP", "supply", "vesting">>)
proposal_01_change_tokenomics_implementation ==
  Propose("timelockAddress", <<Call("tokenomicsProxyAddress", "changeTokenomicsImplementation",
                                    <<"tokenomicsTwoAddress">>)>>)
proposal_02_enable_OLAS_ETH_token ==
  Propose("timelockAddress", <<Call("treasuryAddress", "enableToken", <<"OLAS_ETH_PairAddress">>)>>)
proposal_04_change_depository_and_manage_products ==
  Propose("timelockAddress",
    <<Call("depositoryAddress", "close", <<"productIds">>),
      Call("tokenomicsProxyAddress", "changeManagers", <<"zero", "depositoryTwoAddress", "zero">>),
      Call("treasuryAddress", "changeManagers", <<"zero", "depositoryTwoAddress", "zero">>),
      CreateProducts("OLAS_ETH_PairAddress")>>)
proposal_05_create_bonding_products ==
  Propose("timelockAddress", <<CloseProducts, CreateProducts("OLAS_WXDAI_PairAddress")>>)
\* five of the six fractions, then all of them
ProductsWithFractions(fractions) ==
  Propose("timelockAddress",
    <<CloseProducts, Call("tokenomicsProxyAddress", "changeIncentiveFractions", fractions),
      CreateProducts("OLAS_ETH_PairAddress")>>)
Fractions == <<"rewardComponentFraction", "rewardAgentFraction", "maxBondFraction",
               "topUpComponentFraction", "topUpAgentFraction">>
proposal_06_change_fractions_and_manage_products == ProductsWithFractions(Fractions)
mended_06_change_fractions_and_manage_products ==
  ProductsWithFractions(Append(Fractions, "stakingFraction"))
proposal_07_goerli_sync_mainnet ==
  Propose("timelockAddress",
    <<Call("tokenomicsProxyAddress", "changeTokenomicsImplementation", <<"tokenomicsTwoAddress">>),
      Call("tokenomicsProxyAddress", "changeDonatorBlacklist", <<"donatorBlacklistAddress">>),
      Call("tokenomicsProxyAddress", "changeManagers", <<"zero", "depositoryTwoAddress", "zero">>),
      Call("treasuryAddress", "changeManagers", <<"zero", "depositoryTwoAddress", "zero">>)>>)
====
