------------------------------ MODULE Services ------------------------------
(***************************************************************************)
(* The registry and the token ledger as registries/contracts/                *)
(* ServiceManagerToken.sol drives them.  A service secured by a token keeps   *)
(* its deposit and bonds in the ledger and a nominal one, BondWrapper, in the  *)
(* registry.  Each call of the manager is one transaction: a revert of the     *)
(* registry takes back what the ledger did before it.                         *)
(***************************************************************************)
EXTENDS TokenLedger

CONSTANT BondWrapper    \* 1 wei

ASSUME WrapperAssumption == BondWrapper \in Nat \ {0}

vars == <<lifeVars, tokenVars>>

Init == LifeInit /\ TokenInit

\* The list that the registry sees of a service secured by a token.
Wrapped(l) ==
    [a \in DOMAIN l |-> [l[a] EXCEPT !.bond = IF l[a].slots > 0 THEN BondWrapper ELSE @]]

create(s, t, l) ==
    IF t = NoToken
    THEN Create(s, l) /\ UNCHANGED tokenVars
    ELSE /\ \A a \in DOMAIN l : l[a].bond > 0
         /\ Create(s, Wrapped(l))
         /\ CreateWithToken(s, t, DOMAIN l, l)

update(s, t, l) ==
    /\ \A a \in Kept(l) : l[a].bond > 0
    /\ IF t = NoToken
       THEN Update(s, l) /\ ResetServiceToken(s)
       ELSE Update(s, Wrapped(l)) /\ CreateWithToken(s, t, Kept(l), l)

activateRegistration(s, value) ==
    /\ ActivateRegistration(s, IF Secured(s) THEN BondWrapper ELSE value)
    /\ ActivateRegistrationTokenDeposit(s)

registerAgents(o, s, batch, value) ==
    /\ RegisterAgents(o, s, batch, IF Secured(s) THEN Len(batch) * BondWrapper ELSE value)
    /\ RegisterAgentsTokenDeposit(o, s, batch)

deploy(s) == Deploy(s) /\ UNCHANGED tokenVars

terminate(s) == Terminate(s) /\ TerminateTokenRefund(s)

unbond(o, s) == Unbond(o, s) /\ UnbondTokenRefund(o, s)

\* The multisig of a service slashes in the registry and in the ledger by separate calls.
slash(s, i, amount) == Slash(s, i, amount) /\ UNCHANGED tokenVars
slashTokens(s, i, amount) == SlashTokens(s, i, amount) /\ UNCHANGED lifeVars

drain == Drain /\ UNCHANGED tokenVars
drainToken(t) == DrainToken(t) /\ UNCHANGED lifeVars

Batches == UNION {[1..n -> Registration] : n \in 1..MaxBatch}

Next ==
    \/ \E s \in Services : \E t \in Securities[s], l \in AgentLists[s] : create(s, t, l)
    \/ \E s \in Services : \E t \in Securities[s], l \in AgentLists[s] : update(s, t, l)
    \/ \E s \in Services, value \in Values : activateRegistration(s, value)
    \/ \E o \in Operators, s \in Services, batch \in Batches, value \in Values :
         registerAgents(o, s, batch, value)
    \/ \E s \in Services : deploy(s)
    \/ \E s \in Services, i \in Instances, amount \in Amounts : slash(s, i, amount)
    \/ \E s \in Services, i \in Instances, amount \in Amounts : slashTokens(s, i, amount)
    \/ \E s \in Services : terminate(s)
    \/ \E o \in Operators, s \in Services : unbond(o, s)
    \/ drain
    \/ \E t \in Tokens : drainToken(t)

Spec == Init /\ [][Next]_vars

(***************************************************************************)
(* Properties                                                              *)
(***************************************************************************)

TypeOK ==
    /\ state \in [Services -> States]
    /\ agentIds \in [Services -> SUBSET AgentIds]
    /\ securityDeposit \in [Services -> Nat]
    /\ maxNumAgentInstances \in [Services -> Nat]
    /\ numAgentInstances \in [Services -> Nat]
    /\ agentParams \in [Services -> [AgentIds -> AgentParams]]
    /\ listed \in [Services -> [AgentIds -> [Instances -> Nat]]]
    /\ instancesOf \in [Services -> [Operators -> Seq(Registration)]]
    /\ operatorOf \in [Instances \cup Operators -> Operators \cup {NoOperator}]
    /\ balance \in [Services -> [Operators -> Nat]]
    /\ slashedFunds \in Nat /\ held \in Nat
    /\ tokenOf \in [Services -> Tokens \cup {NoToken}]
    /\ tokenDeposit \in [Services -> Nat]
    /\ agentBond \in [Services -> [AgentIds -> Nat]]
    /\ tokenBalance \in [Services -> [Operators -> Nat]]
    /\ tokenSlashed \in [Tokens -> Nat] /\ tokenHeld \in [Tokens -> Nat]

Activated(s) == state[s] \in {"ActiveRegistration", "FinishedRegistration", "Deployed"}

\* What a service and its operators may still claim in ETH, and in the token t.
Claim(s) ==
    (IF Activated(s) THEN securityDeposit[s] ELSE 0) + Total(balance[s], NumOperators)
TokenClaim(t, s) ==
    IF tokenOf[s] # t THEN 0
    ELSE (IF Activated(s) THEN tokenDeposit[s] ELSE 0) + Total(tokenBalance[s], NumOperators)

Claims == [s \in Services |-> Claim(s)]
TokenClaims(t) == [s \in Services |-> TokenClaim(t, s)]

\* Each contract holds exactly the deposits of activated services, the balances of operators
\* and the slashed funds, in ETH and in every token: no refund is short and nothing is left
\* behind, through slashing, termination in any state, a change of token between two lives,
\* and refunds that the registry caps and the ledger does not (ServiceRegistry.sol:724,
\* ServiceRegistryTokenUtility.sol:523).
FundsHeld ==
    /\ held = slashedFunds + Total(Claims, NumServices)
    /\ \A t \in Tokens : tokenHeld[t] = tokenSlashed[t] + Total(TokenClaims(t), NumServices)

BalanceAgrees(s, o) ==
    LET bonds == BondSum(Bonds(s), instancesOf[s][o])
        tokenBonds == IF Secured(s) THEN BondSum(agentBond[s], instancesOf[s][o]) ELSE 0
    IN  /\ balance[s][o] <= bonds /\ tokenBalance[s][o] <= tokenBonds
        /\ state[s] \notin {"Deployed", "TerminatedBonded"} =>
             balance[s][o] = bonds /\ tokenBalance[s][o] = tokenBonds

\* An operator's balance, in the registry and in the ledger, is the sum of the bonds of the
\* instances it has registered, less what it was slashed after the deployment: bonds are read
\* again at the unbonding, and must still be those that were paid, although updates leave the
\* bonds of earlier agents behind (ServiceRegistryTokenUtility.sol:326); a service without a
\* token has no balance in the ledger.
BalancesAreBonds == \A s \in Services, o \in Operators : BalanceAgrees(s, o)

Counted(s) ==
    /\ numAgentInstances[s] = Total([o \in Operators |-> Len(instancesOf[s][o])], NumOperators)
    /\ state[s] \in {"NonExistent", "PreRegistration"} => numAgentInstances[s] = 0
    /\ state[s] \in {"FinishedRegistration", "Deployed"} =>
         numAgentInstances[s] = maxNumAgentInstances[s]

RegisteredOnce ==
    /\ \A s \in Services, o \in Operators : \A j \in DOMAIN instancesOf[s][o] :
         LET i == instancesOf[s][o][j].instance
         IN  /\ operatorOf[i] = o
             /\ \A r \in Services : \A k \in DOMAIN instancesOf[r][o] :
                  instancesOf[r][o][k].instance = i => r = s /\ k = j
    /\ \A i \in DOMAIN operatorOf : operatorOf[i] # NoOperator =>
         \E s \in Services : \E k \in DOMAIN instancesOf[s][operatorOf[i]] :
           instancesOf[s][operatorOf[i]][k].instance = i

\* The number of instances of a service is that of its operators' registrations, none before
\* the registration and all that fit it when the registration is finished; an instance is
\* registered once, over all services and operators, by the operator that answers for it
\* (ServiceRegistry.sol:449, :697): slashing, which finds the operator by the instance, and
\* unbonding, which finds the instances by the operator, never disagree.
InstancesCounted == (\A s \in Services : Counted(s)) /\ RegisteredOnce
=============================================================================
