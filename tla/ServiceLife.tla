----------------------------- MODULE ServiceLife -----------------------------
(***************************************************************************)
(* The life of a service: registries/contracts/ServiceRegistry.sol.  A       *)
(* service is created with a number of slots and a bond for each canonical    *)
(* agent, activated against a security deposit, filled with agent instances   *)
(* by operators who bond ETH, deployed, possibly slashed, terminated and      *)
(* unbonded, after which its next life may begin.                             *)
(***************************************************************************)
EXTENDS Totals, Sequences, FiniteSets, FiniteSetsExt

CONSTANTS
    NumServices, NumOperators, NumAgents,   \* bounds on the numbers of each
    Instances,          \* addresses of agent instances; an operator may be among them
    AgentLists,         \* of each service, what create and update are called with: the slots
                        \* and the bond of some agents
    Values,             \* of ETH sent along with a call
    Amounts,            \* to slash
    MaxBatch,           \* bound on the instances registered in one call
    MaxListed,          \* bound on the length of an agent's list of instances
    MaxSlashed          \* bound on the slashed funds that wait for the drainer

Services == 1..NumServices
Operators == 1..NumOperators
AgentIds == 1..NumAgents
NoOperator == 0
AgentParams == [slots : Nat, bond : Nat]

ASSUME ServiceAssumption ==
    /\ NumServices \in Nat /\ NumOperators \in Nat /\ NumAgents \in Nat
    /\ NoOperator \notin Instances
    /\ \A s \in Services : \A l \in AgentLists[s] :
         \E A \in SUBSET AgentIds : A # {} /\ l \in [A -> AgentParams]
    /\ Values \subseteq Nat /\ Amounts \subseteq Nat
    /\ MaxBatch \in Nat /\ MaxListed \in Nat /\ MaxSlashed \in Nat

VARIABLES
    state,              \* of each service
    agentIds, securityDeposit, maxNumAgentInstances, numAgentInstances,
    agentParams,        \* mapServiceAndAgentIdAgentParams
    listed,             \* mapServiceAndAgentIdAgentInstances: how often it holds an instance
    instancesOf,        \* mapOperatorAndServiceIdAgentInstances
    operatorOf,         \* mapAgentInstanceOperators
    balance,            \* mapOperatorAndServiceIdOperatorBalances
    slashedFunds,
    held                \* the contract's ETH

listVars == <<agentIds, securityDeposit, maxNumAgentInstances, agentParams>>
instanceVars == <<numAgentInstances, listed, instancesOf, operatorOf>>
fundVars == <<balance, slashedFunds, held>>
lifeVars == <<state, listVars, instanceVars, fundVars>>

States == {"NonExistent", "PreRegistration", "ActiveRegistration", "FinishedRegistration",
           "Deployed", "TerminatedBonded"}
Registration == [instance : Instances, agentId : AgentIds]
NoInstances == [i \in Instances |-> 0]

LifeInit ==
    /\ state = [s \in Services |-> "NonExistent"]
    /\ agentIds = [s \in Services |-> {}]
    /\ securityDeposit = [s \in Services |-> 0]
    /\ maxNumAgentInstances = [s \in Services |-> 0]
    /\ numAgentInstances = [s \in Services |-> 0]
    /\ agentParams = [s \in Services |-> [a \in AgentIds |-> [slots |-> 0, bond |-> 0]]]
    /\ listed = [s \in Services |-> [a \in AgentIds |-> NoInstances]]
    /\ instancesOf = [s \in Services |-> [o \in Operators |-> <<>>]]
    /\ operatorOf = [i \in Instances \cup Operators |-> NoOperator]
    /\ balance = [s \in Services |-> [o \in Operators |-> 0]]
    /\ slashedFunds = 0 /\ held = 0

-----------------------------------------------------------------------------
\* The largest bond of the agents A of the list l.
Deposit(A, l) == CHOOSE b \in {l[a].bond : a \in A} : \A a \in A : l[a].bond <= b

\* _setServiceData for the agents A of the list l: the parameters of an agent that is on
\* neither list stay what they were.
SetServiceData(s, A, l) ==
    /\ agentIds' = [agentIds EXCEPT ![s] = A]
    /\ agentParams' = [agentParams EXCEPT ![s] =
         [a \in AgentIds |-> IF a \in A THEN l[a]
                             ELSE IF a \in DOMAIN l THEN [slots |-> 0, bond |-> 0] ELSE @[a]]]
    /\ maxNumAgentInstances' = [maxNumAgentInstances EXCEPT ![s] =
         TotalOver(LAMBDA a : IF a \in A THEN l[a].slots ELSE 0, NumAgents)]
    /\ securityDeposit' = [securityDeposit EXCEPT ![s] = Deposit(A, l)]

Create(s, l) ==
    /\ state[s] = "NonExistent" /\ \A r \in 1..(s - 1) : state[r] # "NonExistent"
    /\ \A a \in DOMAIN l : l[a].slots > 0 /\ l[a].bond > 0
    /\ state' = [state EXCEPT ![s] = "PreRegistration"]
    /\ SetServiceData(s, DOMAIN l, l)
    /\ UNCHANGED <<instanceVars, fundVars>>

Kept(l) == {a \in DOMAIN l : l[a].slots > 0}

Update_terminated(s, l) ==
    /\ state[s] \in {"PreRegistration", "TerminatedBonded"}
    /\ Kept(l) # {}
    /\ SetServiceData(s, Kept(l), l)
    /\ UNCHANGED <<state, instanceVars, fundVars>>

\* An agent listed without slots is removed; no threshold fits a service without slots.
Update(s, l) ==
    /\ state[s] = "PreRegistration"
    /\ Kept(l) # {}
    /\ SetServiceData(s, Kept(l), l)
    /\ UNCHANGED <<state, instanceVars, fundVars>>

ActivateRegistration(s, value) ==
    /\ state[s] = "PreRegistration"
    /\ value = securityDeposit[s]
    /\ state' = [state EXCEPT ![s] = "ActiveRegistration"]
    /\ held' = held + value
    /\ UNCHANGED <<listVars, instanceVars, balance, slashedFunds>>

\* The bonds of a sequence of registrations, by a table of bonds by agent.
BondSum(bond, registrations) ==
    TotalOver(LAMBDA k : bond[registrations[k].agentId], Len(registrations))

Bonds(s) == [a \in AgentIds |-> agentParams[s][a].bond]

LengthOf(list) == MapThenSumSet(LAMBDA i : list[i], Instances)

\* Every instance of the batch finds a slot when it is added: the check is for equality.
SlotsFor(s, batch) ==
    \A a \in AgentIds :
      LET added == Cardinality({k \in DOMAIN batch : batch[k].agentId = a})
      IN  /\ \A n \in 0..(added - 1) : LengthOf(listed[s][a]) + n # agentParams[s][a].slots
          /\ LengthOf(listed[s][a]) + added <= MaxListed

Free_engaged(o, batch) ==
    /\ operatorOf[o] = NoOperator
    /\ \A k \in DOMAIN batch : batch[k].instance # o
    /\ \A j, k \in DOMAIN batch : j # k => batch[j].instance # batch[k].instance

\* The operator must not be an instance itself and the instances must be registered nowhere;
\* whether an instance is an operator elsewhere is not asked.
Free(o, batch) ==
    /\ operatorOf[o] = NoOperator
    /\ \A k \in DOMAIN batch : batch[k].instance # o /\ operatorOf[batch[k].instance] = NoOperator
    /\ \A j, k \in DOMAIN batch : j # k => batch[j].instance # batch[k].instance

RegisterAgents(o, s, batch, value) ==
    /\ state[s] = "ActiveRegistration"
    /\ \A k \in DOMAIN batch : agentParams[s][batch[k].agentId].slots > 0
    /\ value = BondSum(Bonds(s), batch)
    /\ Free(o, batch)
    /\ SlotsFor(s, batch)
    /\ listed' = [listed EXCEPT ![s] = [a \in AgentIds |-> [i \in Instances |->
         listed[s][a][i] + IF \E k \in DOMAIN batch : batch[k] = [instance |-> i, agentId |-> a]
                           THEN 1 ELSE 0]]]
    /\ instancesOf' = [instancesOf EXCEPT ![s][o] = @ \o batch]
    /\ operatorOf' = [i \in DOMAIN operatorOf |->
         IF \E k \in DOMAIN batch : batch[k].instance = i THEN o ELSE operatorOf[i]]
    /\ numAgentInstances' = [numAgentInstances EXCEPT ![s] = @ + Len(batch)]
    /\ state' = [state EXCEPT ![s] =
         IF numAgentInstances[s] + Len(batch) = maxNumAgentInstances[s]
         THEN "FinishedRegistration" ELSE @]
    /\ balance' = [balance EXCEPT ![s][o] = @ + value]
    /\ held' = held + value
    /\ UNCHANGED <<listVars, slashedFunds>>

\* The owners of the multisig are gathered from the lists of the service's agents into an array
\* of numAgentInstances addresses: a longer list does not fit it, and a multisig with missing or
\* repeated owners is refused.
MultisigFits(s) ==
    /\ TotalOver(LAMBDA a : IF a \in agentIds[s] THEN LengthOf(listed[s][a]) ELSE 0, NumAgents)
         = numAgentInstances[s]
    /\ \A a, b \in agentIds[s], i \in Instances :
         listed[s][a][i] > 0 /\ listed[s][b][i] > 0 => a = b /\ listed[s][a][i] = 1

Deploy(s) ==
    /\ state[s] = "FinishedRegistration"
    /\ MultisigFits(s)
    /\ state' = [state EXCEPT ![s] = "Deployed"]
    /\ UNCHANGED <<listVars, instanceVars, fundVars>>

Least(x, y) == IF x <= y THEN x ELSE y

Slash_uncapped(s, i, amount) ==
    LET o == operatorOf[i]
    IN  /\ state[s] = "Deployed" /\ slashedFunds < MaxSlashed
        /\ o # NoOperator
        /\ slashedFunds' = slashedFunds + amount
        /\ balance' = [balance EXCEPT ![s][o] = @ - amount]
        /\ UNCHANGED <<state, listVars, instanceVars, held>>

\* The service's multisig may name any instance: its operator pays from what it has bonded for
\* this service.  An address that nobody registered has no balance to slash.
Slash(s, i, amount) ==
    LET o == operatorOf[i]
        slashed == Least(amount, balance[s][o])
    IN  /\ state[s] = "Deployed" /\ slashedFunds < MaxSlashed
        /\ o # NoOperator
        /\ slashedFunds' = slashedFunds + slashed
        /\ balance' = [balance EXCEPT ![s][o] = @ - slashed]
        /\ UNCHANGED <<state, listVars, instanceVars, held>>

\* Of the lists of instances only those of the service's present agents are deleted.
Terminate(s) ==
    /\ state[s] \notin {"NonExistent", "PreRegistration", "TerminatedBonded"}
    /\ state' = [state EXCEPT ![s] = IF numAgentInstances[s] > 0 THEN "TerminatedBonded"
                                     ELSE "PreRegistration"]
    /\ listed' = [listed EXCEPT ![s] =
         [a \in AgentIds |-> IF a \in agentIds[s] THEN NoInstances ELSE @[a]]]
    /\ held' = held - securityDeposit[s]
    /\ UNCHANGED <<listVars, numAgentInstances, instancesOf, operatorOf, balance, slashedFunds>>

Refund_uncapped(o, s) == BondSum(Bonds(s), instancesOf[s][o])

\* The refund is what was bonded, or what slashing has left of it.
Refund(o, s) == Least(BondSum(Bonds(s), instancesOf[s][o]), balance[s][o])

Unbond(o, s) ==
    LET mine == {instancesOf[s][o][k].instance : k \in DOMAIN instancesOf[s][o]}
        left == numAgentInstances[s] - Len(instancesOf[s][o])
    IN  /\ state[s] = "TerminatedBonded"
        /\ instancesOf[s][o] # <<>>
        /\ numAgentInstances' = [numAgentInstances EXCEPT ![s] = left]
        /\ state' = [state EXCEPT ![s] = IF left = 0 THEN "PreRegistration" ELSE @]
        /\ operatorOf' = [i \in DOMAIN operatorOf |-> IF i \in mine THEN NoOperator ELSE operatorOf[i]]
        /\ instancesOf' = [instancesOf EXCEPT ![s][o] = <<>>]
        /\ balance' = [balance EXCEPT ![s][o] = IF Refund(o, s) > 0 THEN 0 ELSE @]
        /\ held' = held - Refund(o, s)
        /\ UNCHANGED <<listVars, listed, slashedFunds>>

Drain ==
    /\ slashedFunds > 0
    /\ slashedFunds' = 0
    /\ held' = held - slashedFunds
    /\ UNCHANGED <<state, listVars, instanceVars, balance>>
=============================================================================
