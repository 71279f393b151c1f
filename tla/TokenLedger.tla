----------------------------- MODULE TokenLedger -----------------------------
(***************************************************************************)
(* Deposits and bonds in tokens:                                             *)
(* registries/contracts/ServiceRegistryTokenUtility.sol.  The ledger trusts   *)
(* its manager to call it in step with the registry, whose states and         *)
(* operators it reads only to slash.                                          *)
(***************************************************************************)
EXTENDS ServiceLife

CONSTANTS
    Tokens,             \* ERC20 tokens that secure services
    NoToken,            \* of a service that is secured by ETH
    Securities          \* of each service, the tokens, or none, that its owner chooses from

ASSUME TokenAssumption ==
    NoToken \notin Tokens /\ \A s \in Services : Securities[s] \subseteq Tokens \cup {NoToken}

VARIABLES
    tokenOf, tokenDeposit,  \* mapServiceIdTokenDeposit: token and security deposit
    agentBond,              \* mapServiceAndAgentIdAgentBond
    tokenBalance,           \* mapOperatorAndServiceIdOperatorBalances
    tokenSlashed,           \* mapSlashedFunds
    tokenHeld               \* the contract's balance in each token

tokenVars == <<tokenOf, tokenDeposit, agentBond, tokenBalance, tokenSlashed, tokenHeld>>

TokenInit ==
    /\ tokenOf = [s \in Services |-> NoToken]
    /\ tokenDeposit = [s \in Services |-> 0]
    /\ agentBond = [s \in Services |-> [a \in AgentIds |-> 0]]
    /\ tokenBalance = [s \in Services |-> [o \in Operators |-> 0]]
    /\ tokenSlashed = [t \in Tokens |-> 0]
    /\ tokenHeld = [t \in Tokens |-> 0]

Secured(s) == tokenOf[s] # NoToken

\* The agents A of the list get their bonds; those of other agents are not cleared.
CreateWithToken(s, t, A, l) ==
    /\ agentBond' = [agentBond EXCEPT ![s] =
         [a \in AgentIds |-> IF a \in A THEN l[a].bond ELSE @[a]]]
    /\ tokenOf' = [tokenOf EXCEPT ![s] = t]
    /\ tokenDeposit' = [tokenDeposit EXCEPT ![s] = Deposit(A, l)]
    /\ UNCHANGED <<tokenBalance, tokenSlashed, tokenHeld>>

ResetServiceToken(s) ==
    /\ tokenOf' = [tokenOf EXCEPT ![s] = NoToken]
    /\ tokenDeposit' = [tokenDeposit EXCEPT ![s] = 0]
    /\ UNCHANGED <<agentBond, tokenBalance, tokenSlashed, tokenHeld>>

ActivateRegistrationTokenDeposit(s) ==
    IF Secured(s)
    THEN /\ tokenHeld' = [tokenHeld EXCEPT ![tokenOf[s]] = @ + tokenDeposit[s]]
         /\ UNCHANGED <<tokenOf, tokenDeposit, agentBond, tokenBalance, tokenSlashed>>
    ELSE UNCHANGED tokenVars

RegisterAgentsTokenDeposit(o, s, batch) ==
    IF Secured(s)
    THEN /\ tokenBalance' = [tokenBalance EXCEPT ![s][o] = @ + BondSum(agentBond[s], batch)]
         /\ tokenHeld' = [tokenHeld EXCEPT ![tokenOf[s]] = @ + BondSum(agentBond[s], batch)]
         /\ UNCHANGED <<tokenOf, tokenDeposit, agentBond, tokenSlashed>>
    ELSE UNCHANGED tokenVars

TerminateTokenRefund(s) ==
    IF Secured(s)
    THEN /\ tokenHeld' = [tokenHeld EXCEPT ![tokenOf[s]] = @ - tokenDeposit[s]]
         /\ UNCHANGED <<tokenOf, tokenDeposit, agentBond, tokenBalance, tokenSlashed>>
    ELSE UNCHANGED tokenVars

\* The refund is the whole balance, whatever the bonds.
UnbondTokenRefund(o, s) ==
    IF Secured(s)
    THEN /\ tokenBalance' = [tokenBalance EXCEPT ![s][o] = 0]
         /\ tokenHeld' = [tokenHeld EXCEPT ![tokenOf[s]] = @ - tokenBalance[s][o]]
         /\ UNCHANGED <<tokenOf, tokenDeposit, agentBond, tokenSlashed>>
    ELSE UNCHANGED tokenVars

\* Called by the multisig apart from the registry's slash, or without it.
SlashTokens(s, i, amount) ==
    LET o == operatorOf[i]
        slashed == Least(amount, tokenBalance[s][o])
    IN  /\ state[s] = "Deployed" /\ Secured(s)
        /\ o # NoOperator /\ tokenSlashed[tokenOf[s]] < MaxSlashed
        /\ tokenBalance' = [tokenBalance EXCEPT ![s][o] = @ - slashed]
        /\ tokenSlashed' = [tokenSlashed EXCEPT ![tokenOf[s]] = @ + slashed]
        /\ UNCHANGED <<tokenOf, tokenDeposit, agentBond, tokenHeld>>

DrainToken(t) ==
    /\ tokenSlashed[t] > 0
    /\ tokenSlashed' = [tokenSlashed EXCEPT ![t] = 0]
    /\ tokenHeld' = [tokenHeld EXCEPT ![t] = @ - tokenSlashed[t]]
    /\ UNCHANGED <<tokenOf, tokenDeposit, agentBond, tokenBalance>>
=============================================================================
