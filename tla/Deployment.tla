---- MODULE Deployment ----
(* The deployment from its first script on, and what holds of the contracts while the scripts
   run and at their end. *)
EXTENDS DeployMachine, Audits

\* the keys that the scripts and the operator write in a file; others are shipped with it
KeysOf(script, f) ==
  {script.steps[j].key : j \in {j \in DOMAIN script.steps :
     script.file = f /\ script.steps[j].op = "write"}}
  \cup UNION {DOMAIN script.steps[j].keys : j \in {j \in DOMAIN script.steps :
     script.steps[j].op = "copy" /\ script.steps[j].to = f}}
Keys(p, f) == UNION {KeysOf(p[i], f) : i \in DOMAIN p}

\* before the first script: no contract, and no key in the files
Files == {"gov", "reg", "tok", "bridge", "l2", "staking", "stakingL2"}
Init ==
  /\ procedure \in DOMAIN Scripts
  /\ at = 1 /\ run = Idle
  /\ globals = [f \in Files |-> [k \in Keys(Scripts[procedure], f) |-> Undefined]]
  /\ chain = NoContracts
  /\ pending = <<>> /\ interrupts = 0 /\ failed = {}

Spec == Init /\ [][Next]_vars

\* What the scripts of every procedure have in common. They read and write files that exist; the
\* operator copies keys that are written in the file he takes them from, and does nothing else in
\* between. What is given to a contract is shipped with the file or was recorded by an earlier
\* script; only the first governor is given roles before it is recorded.
IsSequence(s) == Len(s) \in Nat /\ DOMAIN s = 1..Len(s)
RecordedBefore(p, i, key) ==
  key # "self" /\ \A w \in DOMAIN p : key \in KeysOf(p[w], p[i].file) => w < i
GivesRoleToSelf(script, call) ==
  /\ call.fn = "grantRole" /\ 2 \in DOMAIN call.args /\ call.args[2] = "self"
  /\ \A j \in DOMAIN script.steps :
       script.steps[j].op \in {"deploy", "create2"} => script.steps[j].kind = "GovernorOLAS"
ArgsOK(p, i, args) == \A j \in DOMAIN args : RecordedBefore(p, i, args[j])
StepOK(p, i, step) ==
  /\ step.op \in {"deploy", "create2"} => ArgsOK(p, i, step.args)
  /\ step.op = "call" => ArgsOK(p, i, step.args) \/ GivesRoleToSelf(p[i], step)
  /\ step.op = "propose" => /\ IsSequence(step.calls)
                            /\ \A c \in DOMAIN step.calls : ArgsOK(p, i, step.calls[c].args)
  /\ step.op = "copy" => /\ {step.from, step.to} \subseteq Files
                         /\ Range(step.keys) \subseteq Keys(p, step.from)
                         /\ \A j \in DOMAIN p[i].steps : p[i].steps[j].op = "copy"
ASSUME ScriptsAssumption ==
  \A name \in DOMAIN Scripts :
    LET p == Scripts[name] IN
    /\ IsSequence(p)
    /\ \A i \in DOMAIN p : /\ p[i].file \in Files
                           /\ IsSequence(p[i].steps)
                           /\ \A j \in DOMAIN p[i].steps : StepOK(p, i, p[i].steps[j])

----
OnEthereum == procedure \in {"MainnetAsScripted", "MainnetHandedOver", "Goerli"}
\* contracts a globals file names, contracts no file names, and those an account of ours owns
Recorded == DOMAIN chain.contracts \cap UNION {Range(globals[f]) : f \in Files}
Orphans == DOMAIN chain.contracts \ Recorded
OwnedBy(account) ==
  {c \in DOMAIN chain.contracts :
     "owner" \in DOMAIN chain.contracts[c] /\ chain.contracts[c].owner = account}
\* nothing is left to do
Settled == Finished /\ \A i \in DOMAIN pending : ~CanExecute(pending[i])
\* a proposal of a governor that has lost its roles since
Stranded(p) == p.governor # EOA /\ ~HasRoles(p.governor)

Names == {Procedure[i].name : i \in DOMAIN Procedure}
TypeOK ==
  /\ at \in 1..(Len(Procedure) + 1)
  /\ run.pc \in Nat /\ (Running => at <= Len(Procedure))
  /\ \A f \in Files : \A k \in DOMAIN globals[f] :
       globals[f][k] \in DOMAIN chain.contracts \cup {Undefined}
  /\ \A r \in chain.roles : r[1] \in OfKind(chain, "Timelock")
  /\ interrupts \in 0..MaxInterrupts /\ failed \subseteq Names

\* Running an interrupted script again completes it, but for the scripts that give a right away
\* or use it up half-way: a contract at a fixed address, a mint, an ownership, a tunnel that is
\* set once. Without an interruption nine scripts fail, and always: those that name a contract or
\* a function this commit no longer has, or give one another number of arguments. Every other
\* script that is not interrupted does all its steps, with the checks and verifications among them.
OnceOnly == {"deploy_04_olas", "deploy_07_veolas", "deploy_11_mint_olas", "deploy_12_15_ownerships",
  "deploy_10_14_change_ownerships", "deploy_19_20_change_ownerships",
  "deploy_13_15_change_ownerships", "deploy_21_22_bridged_erc20_change_owners"}
OutdatedScripts == {"deploy_07_dispenser", "deploy_21_service_staking_factory",
  "deploy_01_mock_dispenser", "deploy_01_mock_dispenser_w", "deploy_03_gnosis_targer_dispenser",
  "deploy_05_celo_wormhole_targer_dispenser", "proposal_04_CM_guard",
  "proposal_04_CM_guard_goerli", "proposal_06_change_fractions_and_manage_products"}
StuckOnlyOnceOnly ==
  /\ \A name \in failed : (name \in OnceOnly /\ interrupts > 0) \/ name \in OutdatedScripts
  /\ \A i \in 1..(at - 1) : Procedure[i].name \in OutdatedScripts => Procedure[i].name \in failed

\* A contract that an interrupted script has deployed and not recorded stays without effect: no
\* recorded contract refers to it and it has no role, but for a governor, which is given its
\* roles in the script that deploys it.
RolesOf(account) == {r \in chain.roles : r[1] \in Recorded /\ r[3] = account}
OrphansPowerless ==
  \A c \in Orphans \ {run.self} :
    /\ \A r \in Recorded : c \notin Range(chain.contracts[r])
    /\ RolesOf(c) # {} => Kind(c) = "GovernorOLAS"

\* A governor that was never recorded has roles only if the script was interrupted after it had
\* deployed it. At the end the timelock answers to itself and to the second governor, and to the
\* community multisig where its roles are not revoked: the first governor, the deployer and every
\* other contract have lost theirs, but for such a governor.
RolesAtEnd ==
  /\ \A c \in Orphans \ {run.self} :
       RolesOf(c) # {} => c \in {<<"GovernorOLAS", i>> : i \in 1..interrupts}
  /\ Settled /\ OnEthereum =>
       \A r \in {r \in chain.roles : r[1] \in Recorded} :
         \/ r[3] \in {r[1], globals["gov"]["governorTwoAddress"]}
         \/ r[3] = CM /\ (procedure = "Goerli" \/ \E i \in DOMAIN pending : Stranded(pending[i]))
         \/ r[3] \in Orphans

\* A proposal that cannot be carried out was made through a governor that lost its roles before
\* the vote ended, or needs the second depository, which its deployer still owns.
ProposalsGoThrough ==
  \A i \in DOMAIN pending :
    ~CanExecute(pending[i]) =>
      \/ Stranded(pending[i])
      \/ \E j \in DOMAIN pending[i].calls :
           pending[i].calls[j].to \in OwnedBy(EOA) \cap OfKind(chain, "Depository")

\* What the audits of the three repositories find at the end is known: on Ethereum the registry
\* keeps its first manager and the token utility gets no drainer, the guard of the multisig
\* replaces roles the audit still expects, and the second depository is put in place only if
\* its deployer hands it over. On the other chains they find nothing.
CMGaps == IF procedure = "Goerli" THEN {<<"Timelock", "CMCanceller">>}
          ELSE {<<"Timelock", "CMProposer">>, <<"Timelock", "CMExecutor">>}
RegistryGaps ==
  {<<"ServiceRegistry", "manager">>, <<"ServiceRegistryTokenUtility", "drainer">>}
  \cup (IF procedure = "Goerli" THEN {<<"ServiceRegistry", "safeSameAddressMultisig">>} ELSE {})
DepositoryGaps ==
  CASE procedure = "MainnetHandedOver" -> {}
    [] procedure = "Goerli" -> {<<"Depository", "owner">>}
    [] procedure = "MainnetAsScripted" ->
         {<<"Depository", "owner">>, <<"TokenomicsProxy", "depository">>, <<"Treasury", "depository">>}
AuditsFind ==
  Settled /\ (\A i \in DOMAIN pending : ~Stranded(pending[i])) =>
    CASE OnEthereum ->
           /\ AuditGovernance(chain, globals["gov"]) = CMGaps
           /\ AuditRegistries(chain, globals["reg"], TRUE) = RegistryGaps
           /\ AuditTokenomics(chain, globals["tok"]) = DepositoryGaps
      [] procedure = "BridgeERC20" ->
           /\ AuditBridgedERC20(chain, globals["gov"]) = {}
           /\ checkFxERC20ChildTunnel(chain, globals["bridge"]) = {}
      [] procedure \in {"Polygon", "Gnosis", "Optimism", "Celo"} ->
           /\ AuditMediator(chain, globals["bridge"]) = {}
           /\ AuditRegistries(chain, globals["l2"], FALSE) = {}
      [] OTHER -> TRUE

\* The recorded contracts the deployer still owns at the end: the second depository where it is
\* not handed over, the staking contracts and the message contracts, for which no script
\* changes the owner.
KeptByDeployer == {"StakingVerifier", "StakingFactory", "HashCheckpoint"}
  \cup Processors \cup TargetDispensers
  \cup (IF procedure = "MainnetHandedOver" THEN {} ELSE {"Depository"})
DeployerKeeps ==
  Finished => \A c \in OwnedBy(EOA) \cap Recorded :
    Kind(c) \in KeptByDeployer /\ (Kind(c) = "Depository" => globals["tok"]["depositoryTwoAddress"] = c)
================================================================================
