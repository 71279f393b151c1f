--------------------------- MODULE ServicesProofs ---------------------------
(***************************************************************************)
(* Proofs about the funds of services.  The argument: bonds are added up a    *)
(* second time when an operator unbonds, and this is what it paid, less what   *)
(* it was slashed, because a service has instances only while its lists are     *)
(* frozen; hence a refund empties the balance, and each step moves funds        *)
(* between the terms of FundsHeld of one service.                              *)
(***************************************************************************)
EXTENDS Services, TotalsTheorems, TLAPS

-----------------------------------------------------------------------------
(* Sums                                                                      *)

\* The total of an array that is two arrays in a row.
LEMMA TotalConcat ==
  ASSUME NEW N \in Nat, NEW M \in Nat, NEW f \in [1..N -> Int], NEW g \in [1..M -> Int],
         NEW h \in [1..(N + M) -> Int],
         \A i \in 1..N : h[i] = f[i], \A i \in 1..M : h[N + i] = g[i]
  PROVE  Total(h, N + M) = Total(f, N) + Total(g, M)
<1> DEFINE sf == RunningTotal(f, N)
           sg == RunningTotal(g, M)
           sh == RunningTotal(h, N + M)
           S == {n \in Nat : n <= N => sh[n] = sf[n]}
           T == {m \in Nat : m <= M => sh[N + m] = sf[N] + sg[m]}
<1>1. /\ sf \in [0..N -> Int] /\ sf[0] = 0
      /\ \A n \in 1..N : sf[n] = sf[n - 1] + f[n]
  BY RunningTotalRecursion
<1>2. /\ sg \in [0..M -> Int] /\ sg[0] = 0
      /\ \A m \in 1..M : sg[m] = sg[m - 1] + g[m]
  BY RunningTotalRecursion
<1>3. /\ sh \in [0..(N + M) -> Int] /\ sh[0] = 0
      /\ \A n \in 1..(N + M) : sh[n] = sh[n - 1] + h[n]
  <2>1. N + M \in Nat
    OBVIOUS
  <2> QED BY <2>1, RunningTotalRecursion
<1> HIDE DEF sf, sg, sh
<1>4. Nat \subseteq S
  <2>1. 0 \in S
    BY <1>1, <1>3
  <2>2. ASSUME NEW n \in Nat, n \in S
        PROVE  n + 1 \in S
    <3> SUFFICES ASSUME n + 1 <= N
                 PROVE  sh[n + 1] = sf[n + 1]
      OBVIOUS
    <3>1. n + 1 \in 1..N /\ n + 1 \in 1..(N + M) /\ (n + 1) - 1 = n
      OBVIOUS
    <3>2. sh[n] = sf[n]
      BY <2>2
    <3> QED BY <3>1, <3>2, <1>1, <1>3
  <2> QED BY <2>1, <2>2, SetInduction
<1>5. sh[N] = sf[N]
  BY <1>4
<1>6. Nat \subseteq T
  <2>1. 0 \in T
    BY <1>1, <1>2, <1>5
  <2>2. ASSUME NEW m \in Nat, m \in T
        PROVE  m + 1 \in T
    <3> SUFFICES ASSUME m + 1 <= M
                 PROVE  sh[N + (m + 1)] = sf[N] + sg[m + 1]
      OBVIOUS
    <3>1. /\ m + 1 \in 1..M /\ N + (m + 1) \in 1..(N + M)
          /\ (N + (m + 1)) - 1 = N + m /\ (m + 1) - 1 = m
      OBVIOUS
    <3>2. sh[N + m] = sf[N] + sg[m]
      BY <2>2
    <3>3. sh[N + (m + 1)] = sh[N + m] + g[m + 1]
      BY <3>1, <1>3
    <3>4. sg[m + 1] = sg[m] + g[m + 1]
      BY <3>1, <1>2
    <3>5. sf[N] \in Int /\ sg[m] \in Int /\ g[m + 1] \in Int
      BY <3>1, <1>1, <1>2
    <3> QED BY <3>2, <3>3, <3>4, <3>5
  <2> QED BY <2>1, <2>2, SetInduction
<1>7. sh[N + M] = sf[N] + sg[M]
  BY <1>6
<1> QED BY <1>7 DEF sf, sg, sh, Total

\* The bonds of registrations: a natural number, none for no registration.
LEMMA BondSumType ==
  ASSUME NEW bond \in [AgentIds -> Nat], NEW q \in Seq(Registration)
  PROVE  /\ [k \in 1..Len(q) |-> bond[q[k].agentId]] \in [1..Len(q) -> Nat]
         /\ BondSum(bond, q) = Total([k \in 1..Len(q) |-> bond[q[k].agentId]], Len(q))
         /\ BondSum(bond, q) \in Nat
<1>1. Len(q) \in Nat /\ \A k \in 1..Len(q) : q[k] \in Registration
  OBVIOUS
<1>2. [k \in 1..Len(q) |-> bond[q[k].agentId]] \in [1..Len(q) -> Nat]
  BY <1>1 DEF Registration
<1>3. BondSum(bond, q) = Total([k \in 1..Len(q) |-> bond[q[k].agentId]], Len(q))
  BY DEF BondSum, TotalOver
<1> QED BY <1>1, <1>2, <1>3, TotalNonNegative

LEMMA BondSumEmpty ==
  ASSUME NEW bond \in [AgentIds -> Nat]
  PROVE  BondSum(bond, <<>>) = 0
<1> DEFINE f == [k \in 1..Len(<<>>) |-> bond[(<<>>)[k].agentId]]
<1>1. f \in [1..0 -> Int] /\ \A k \in 1..0 : f[k] = 0
  OBVIOUS
<1>2. BondSum(bond, <<>>) = Total(f, 0)
  BY DEF BondSum, TotalOver
<1> HIDE DEF f
<1>3. Total(f, 0) = 0
  BY <1>1, TotalZero
<1> QED BY <1>2, <1>3

LEMMA BondSumConcat ==
  ASSUME NEW bond \in [AgentIds -> Nat], NEW q \in Seq(Registration), NEW r \in Seq(Registration)
  PROVE  BondSum(bond, q \o r) = BondSum(bond, q) + BondSum(bond, r)
<1> DEFINE F(x) == [k \in 1..Len(x) |-> bond[x[k].agentId]]
<1>1. q \o r \in Seq(Registration) /\ Len(q \o r) = Len(q) + Len(r)
  OBVIOUS
<1>2. /\ F(q) \in [1..Len(q) -> Nat] /\ F(r) \in [1..Len(r) -> Nat]
      /\ F(q \o r) \in [1..Len(q \o r) -> Nat]
  BY <1>1, BondSumType
<1>3. \A i \in 1..Len(q) : F(q \o r)[i] = F(q)[i]
  <2> SUFFICES ASSUME NEW i \in 1..Len(q)
               PROVE  F(q \o r)[i] = F(q)[i]
    OBVIOUS
  <2>1. (q \o r)[i] = q[i] /\ i \in 1..Len(q \o r)
    BY <1>1
  <2> QED BY <2>1
<1>4. \A i \in 1..Len(r) : F(q \o r)[Len(q) + i] = F(r)[i]
  <2> SUFFICES ASSUME NEW i \in 1..Len(r)
               PROVE  F(q \o r)[Len(q) + i] = F(r)[i]
    OBVIOUS
  <2>1. (q \o r)[Len(q) + i] = r[i] /\ Len(q) + i \in 1..Len(q \o r)
    BY <1>1
  <2> QED BY <2>1
<1>5. /\ BondSum(bond, q) = Total(F(q), Len(q)) /\ BondSum(bond, r) = Total(F(r), Len(r))
      /\ BondSum(bond, q \o r) = Total(F(q \o r), Len(q) + Len(r))
  BY <1>1, BondSumType
<1> HIDE DEF F
<1>6. Total(F(q \o r), Len(q) + Len(r)) = Total(F(q), Len(q)) + Total(F(r), Len(r))
  <2>1. /\ F(q) \in [1..Len(q) -> Int] /\ F(r) \in [1..Len(r) -> Int]
        /\ F(q \o r) \in [1..(Len(q) + Len(r)) -> Int] /\ Len(q) \in Nat /\ Len(r) \in Nat
    BY <1>1, <1>2
  <2> QED BY <2>1, <1>3, <1>4, TotalConcat
<1> QED BY <1>5, <1>6

\* When one summand changes, the total changes by as much.
LEMMA OneChanges ==
  ASSUME NEW N \in Nat, NEW f \in [1..N -> Int], NEW g \in [1..N -> Int], NEW s \in 1..N,
         \A r \in 1..N : r # s => g[r] = f[r]
  PROVE  Total(g, N) = Total(f, N) - f[s] + g[s]
<1>1. g = [f EXCEPT ![s] = g[s]] /\ g[s] \in Int
  OBVIOUS
<1>2. Total([f EXCEPT ![s] = g[s]], N) = Total(f, N) - f[s] + g[s]
  BY <1>1, TotalExcept
<1> QED BY <1>1, <1>2

\* Of finitely many bonds one is the largest.
LEMMA DepositType ==
  ASSUME NEW A \in SUBSET AgentIds, A # {}, NEW l, \A a \in A : l[a].bond \in Nat
  PROVE  Deposit(A, l) \in Nat
<1> DEFINE f == [a \in 1..NumAgents |-> IF a \in A THEN l[a].bond ELSE 0]
           T == {n \in Nat : \A a \in A : l[a].bond <= n}
<1>1. f \in [1..NumAgents -> Nat] /\ NumAgents \in Nat /\ A \subseteq 1..NumAgents
  BY ServiceAssumption DEF AgentIds
<1> HIDE DEF f
<1>2. Total(f, NumAgents) \in T
  <2>1. Total(f, NumAgents) \in Nat /\ \A i \in 1..NumAgents : f[i] <= Total(f, NumAgents)
    BY <1>1, TotalNonNegative
  <2>2. \A a \in A : f[a] = l[a].bond
    BY <1>1 DEF f
  <2> QED BY <1>1, <2>1, <2>2
<1>3. PICK m \in T : \A n \in T : m <= n
  BY <1>2, LeastMember
<1>4. \E a \in A : l[a].bond = m
  <2> SUFFICES ASSUME \A a \in A : l[a].bond # m
               PROVE  FALSE
    OBVIOUS
  <2>1. \A a \in A : l[a].bond < m
    BY <1>3
  <2>2. m - 1 \in Nat
    BY <1>3, <2>1
  <2>3. m - 1 \in T
    BY <1>3, <2>1, <2>2
  <2> QED BY <1>3, <2>3
<1>5. \E b \in {l[a].bond : a \in A} : \A a \in A : l[a].bond <= b
  BY <1>3, <1>4
<1>6. Deposit(A, l) \in {l[a].bond : a \in A}
  BY <1>5 DEF Deposit
<1> QED BY <1>6

-----------------------------------------------------------------------------
(* The invariant                                                             *)

\* TypeOK without the signs of the contracts' holdings, which follow from FundsHeld.
Types ==
    /\ state \in [Services -> States]
    /\ agentIds \in [Services -> SUBSET AgentIds]
    /\ securityDeposit \in [Services -> Nat]
    /\ maxNumAgentInstances \in [Services -> Nat]
    /\ numAgentInstances \in [Services -> Nat]
    /\ agentParams \in [Services -> [AgentIds -> AgentParams]]
    /\ listed \in [Services -> [AgentIds -> [Instances -> Nat]]]
    /\ instancesOf \in [Services -> [Operators -> Seq(Registration)]]
    /\ operatorOf \in [Instances \cup Operators -> Operators \cup {NoOperator}]
    /\ balance \in [Services -> [Operators -> Nat]]
    /\ slashedFunds \in Nat /\ held \in Int
    /\ tokenOf \in [Services -> Tokens \cup {NoToken}]
    /\ tokenDeposit \in [Services -> Nat]
    /\ agentBond \in [Services -> [AgentIds -> Nat]]
    /\ tokenBalance \in [Services -> [Operators -> Nat]]
    /\ tokenSlashed \in [Tokens -> Nat] /\ tokenHeld \in [Tokens -> Int]

Inv == Types /\ FundsHeld /\ BalancesAreBonds /\ InstancesCounted

\* The tables of bonds are natural numbers.
LEMMA BondsType ==
  ASSUME Types, NEW s \in Services
  PROVE  Bonds(s) \in [AgentIds -> Nat] /\ agentBond[s] \in [AgentIds -> Nat]
BY DEF Types, Bonds, AgentParams

LEMMA ClaimType ==
  ASSUME Types, NEW s \in Services
  PROVE  /\ Total(balance[s], NumOperators) \in Nat
         /\ Total(tokenBalance[s], NumOperators) \in Nat
         /\ Claim(s) \in Nat /\ \A t \in Tokens : TokenClaim(t, s) \in Nat
<1>1. /\ NumOperators \in Nat /\ balance[s] \in [1..NumOperators -> Nat]
      /\ tokenBalance[s] \in [1..NumOperators -> Nat]
  BY ServiceAssumption DEF Types, Operators
<1>2. Total(balance[s], NumOperators) \in Nat /\ Total(tokenBalance[s], NumOperators) \in Nat
  BY <1>1, TotalNonNegative
<1>3. securityDeposit[s] \in Nat /\ tokenDeposit[s] \in Nat
  BY DEF Types
<1> QED BY <1>2, <1>3 DEF Claim, TokenClaim

\* What the contracts hold is never negative.
LEMMA FundsType ==
  ASSUME Types, FundsHeld
  PROVE  TypeOK
<1>1. /\ NumServices \in Nat /\ Claims \in [1..NumServices -> Nat]
      /\ \A t \in Tokens : TokenClaims(t) \in [1..NumServices -> Nat]
  BY ServiceAssumption, ClaimType DEF Services, Claims, TokenClaims
<1>2. /\ Total(Claims, NumServices) \in Nat
      /\ \A t \in Tokens : Total(TokenClaims(t), NumServices) \in Nat
  BY <1>1, TotalNonNegative
<1>3. held \in Nat
  BY <1>2 DEF FundsHeld, Types
<1>4. \A t \in Tokens : tokenHeld[t] \in Nat
  BY <1>2 DEF FundsHeld, Types
<1> QED BY <1>3, <1>4 DEF TypeOK, Types

\* A service that is not activated has no instances, and nobody has a balance in it.
LEMMA Unregistered ==
  ASSUME Types, BalancesAreBonds, InstancesCounted, NEW s \in Services,
         state[s] \in {"NonExistent", "PreRegistration"}
  PROVE  /\ \A o \in Operators : /\ instancesOf[s][o] = <<>>
                                 /\ balance[s][o] = 0 /\ tokenBalance[s][o] = 0
         /\ Total(balance[s], NumOperators) = 0 /\ Total(tokenBalance[s], NumOperators) = 0
<1> DEFINE f == [o \in Operators |-> Len(instancesOf[s][o])]
<1>1. NumOperators \in Nat /\ Operators = 1..NumOperators /\ f \in [1..NumOperators -> Nat]
  BY ServiceAssumption DEF Types, Operators
<1>2. Total(f, NumOperators) = 0
  BY DEF InstancesCounted, Counted
<1>3. ASSUME NEW o \in Operators
      PROVE  /\ instancesOf[s][o] = <<>>
             /\ balance[s][o] = 0 /\ tokenBalance[s][o] = 0
  <2>1. f[o] = Len(instancesOf[s][o]) /\ f[o] \in Nat
    BY <1>1
  <2> HIDE DEF f
  <2>2. f[o] <= 0
    BY <1>1, <1>2, TotalNonNegative
  <2>3. instancesOf[s][o] = <<>>
    BY <2>1, <2>2 DEF Types
  <2>4. BondSum(Bonds(s), <<>>) = 0 /\ BondSum(agentBond[s], <<>>) = 0
    BY BondsType, BondSumEmpty
  <2> QED BY <2>3, <2>4 DEF BalancesAreBonds, BalanceAgrees
<1>4. Total(balance[s], NumOperators) = 0
  <2>1. balance[s] \in [1..NumOperators -> Int] /\ \A o \in 1..NumOperators : balance[s][o] = 0
    BY <1>1, <1>3 DEF Types
  <2> QED BY <1>1, <2>1, TotalZero
<1>5. Total(tokenBalance[s], NumOperators) = 0
  <2>1. /\ tokenBalance[s] \in [1..NumOperators -> Int]
        /\ \A o \in 1..NumOperators : tokenBalance[s][o] = 0
    BY <1>1, <1>3 DEF Types
  <2> QED BY <1>1, <2>1, TotalZero
<1> QED BY <1>3, <1>4, <1>5

-----------------------------------------------------------------------------
(* Steps of one service                                                      *)

\* What the records of the other services are after a step of the service s.
Elsewhere(s) ==
    \A r \in Services \ {s} :
      /\ state'[r] = state[r] /\ securityDeposit'[r] = securityDeposit[r]
      /\ maxNumAgentInstances'[r] = maxNumAgentInstances[r]
      /\ numAgentInstances'[r] = numAgentInstances[r]
      /\ agentParams'[r] = agentParams[r] /\ instancesOf'[r] = instancesOf[r]
      /\ balance'[r] = balance[r] /\ tokenOf'[r] = tokenOf[r]
      /\ tokenDeposit'[r] = tokenDeposit[r] /\ agentBond'[r] = agentBond[r]
      /\ tokenBalance'[r] = tokenBalance[r]

\* Funds are held when those of the service and its claims change by the same amounts.
LEMMA FundsStep ==
  ASSUME Types, Types', FundsHeld, NEW s \in Services, Elsewhere(s),
         held' - slashedFunds' - Claim(s)' = held - slashedFunds - Claim(s),
         \A t \in Tokens : tokenHeld'[t] - tokenSlashed'[t] - TokenClaim(t, s)' =
                             tokenHeld[t] - tokenSlashed[t] - TokenClaim(t, s)
  PROVE  FundsHeld'
<1>1. NumServices \in Nat /\ NumOperators \in Nat /\ Services = 1..NumServices /\ Operators = 1..NumOperators
  BY ServiceAssumption DEF Services, Operators
<1>2. /\ Claims \in [1..NumServices -> Int]
      /\ \A t \in Tokens : TokenClaims(t) \in [1..NumServices -> Int]
  BY <1>1, ClaimType DEF Claims, TokenClaims
<1>3. /\ Claims' \in [1..NumServices -> Int]
      /\ \A t \in Tokens : TokenClaims(t)' \in [1..NumServices -> Int]
  <2>1. \A r \in Services : Total(balance'[r], NumOperators) \in Nat
    BY <1>1, TotalNonNegative DEF Types
  <2>2. \A r \in Services : Total(tokenBalance'[r], NumOperators) \in Nat
    BY <1>1, TotalNonNegative DEF Types
  <2>3. \A r \in Services : securityDeposit'[r] \in Nat /\ tokenDeposit'[r] \in Nat
    BY DEF Types
  <2>4. \A r \in Services : Claim(r)' \in Nat
    BY <2>1, <2>3 DEF Claim
  <2>5. \A t \in Tokens, r \in Services : TokenClaim(t, r)' \in Nat
    BY <2>2, <2>3 DEF TokenClaim
  <2> QED BY <1>1, <2>4, <2>5 DEF Claims, TokenClaims
<1>4. /\ \A r \in 1..NumServices : r # s => Claims'[r] = Claims[r]
      /\ \A t \in Tokens, r \in 1..NumServices : r # s => TokenClaims(t)'[r] = TokenClaims(t)[r]
  BY <1>1 DEF Elsewhere, Claims, TokenClaims, Claim, TokenClaim, Activated
<1>5. held' = slashedFunds' + Total(Claims', NumServices)
  <2>1. /\ Total(Claims', NumServices) = Total(Claims, NumServices) - Claims[s] + Claims'[s]
        /\ Total(Claims, NumServices) \in Int
    BY <1>1, <1>2, <1>3, <1>4, OneChanges, TotalType
  <2>2. Claims[s] = Claim(s) /\ Claims'[s] = Claim(s)' /\ Claims[s] \in Int /\ Claims'[s] \in Int
    BY <1>1, <1>2, <1>3 DEF Claims
  <2>3. held = slashedFunds + Total(Claims, NumServices)
    BY DEF FundsHeld
  <2>4. held \in Int /\ held' \in Int /\ slashedFunds \in Int /\ slashedFunds' \in Int
    BY DEF Types
  <2> QED BY <2>1, <2>2, <2>3, <2>4
<1>6. ASSUME NEW t \in Tokens
      PROVE  tokenHeld'[t] = tokenSlashed'[t] + Total(TokenClaims(t)', NumServices)
  <2>1. /\ Total(TokenClaims(t)', NumServices)
             = Total(TokenClaims(t), NumServices) - TokenClaims(t)[s] + TokenClaims(t)'[s]
        /\ Total(TokenClaims(t), NumServices) \in Int
    BY <1>1, <1>2, <1>3, <1>4, OneChanges, TotalType
  <2>2. /\ TokenClaims(t)[s] = TokenClaim(t, s) /\ TokenClaims(t)'[s] = TokenClaim(t, s)'
        /\ TokenClaims(t)[s] \in Int /\ TokenClaims(t)'[s] \in Int
    BY <1>1, <1>2, <1>3 DEF TokenClaims
  <2>3. tokenHeld[t] = tokenSlashed[t] + Total(TokenClaims(t), NumServices)
    BY DEF FundsHeld
  <2>4. /\ tokenHeld[t] \in Int /\ tokenHeld'[t] \in Int
        /\ tokenSlashed[t] \in Int /\ tokenSlashed'[t] \in Int
    BY DEF Types
  <2>5. tokenHeld'[t] - tokenSlashed'[t] - TokenClaims(t)'[s]
          = tokenHeld[t] - tokenSlashed[t] - TokenClaims(t)[s]
    BY <2>2
  <2> QED BY <2>1, <2>2, <2>3, <2>4, <2>5
<1> QED BY <1>5, <1>6 DEF FundsHeld

\* Balances agree when those of the service do.
LEMMA BalancesStep ==
  ASSUME BalancesAreBonds, NEW s \in Services, Elsewhere(s),
         \A o \in Operators : BalanceAgrees(s, o)'
  PROVE  BalancesAreBonds'
<1>1. \A r \in Services \ {s}, o \in Operators : BalanceAgrees(r, o)'
  <2> SUFFICES ASSUME NEW r \in Services \ {s}, NEW o \in Operators
               PROVE  BalanceAgrees(r, o)'
    OBVIOUS
  <2>1. Bonds(r)' = Bonds(r) /\ Secured(r)' = Secured(r)
    BY DEF Elsewhere, Bonds, Secured
  <2> QED BY <2>1 DEF BalancesAreBonds, BalanceAgrees, Elsewhere
<1> QED BY <1>1 DEF BalancesAreBonds

\* Instances are counted when those of the service are.
LEMMA CountsStep ==
  ASSUME InstancesCounted, NEW s \in Services, Elsewhere(s), Counted(s)', RegisteredOnce'
  PROVE  InstancesCounted'
<1>1. \A r \in Services \ {s} : Counted(r)'
  BY DEF InstancesCounted, Counted, Elsewhere
<1> QED BY <1>1 DEF InstancesCounted

\* A service outside of its registration gets its lists, in the registry and in the ledger.
Configured(s, A, l) ==
    /\ state' = [state EXCEPT ![s] = "PreRegistration"]
    /\ SetServiceData(s, A, l)
    /\ \E B \in [AgentIds -> Nat], t \in Tokens \cup {NoToken}, d \in Nat :
         /\ agentBond' = [agentBond EXCEPT ![s] = B]
         /\ tokenOf' = [tokenOf EXCEPT ![s] = t]
         /\ tokenDeposit' = [tokenDeposit EXCEPT ![s] = d]
    /\ UNCHANGED <<instanceVars, fundVars, tokenBalance, tokenSlashed, tokenHeld>>

LEMMA ConfigureStep ==
  ASSUME Inv, NEW s \in Services, state[s] \in {"NonExistent", "PreRegistration"},
         NEW A \in SUBSET AgentIds, A # {}, NEW l, \A a \in A : l[a] \in AgentParams,
         Configured(s, A, l)
  PROVE  Inv'
<1>1. Types /\ FundsHeld /\ BalancesAreBonds /\ InstancesCounted
  BY DEF Inv
<1>2. PICK B \in [AgentIds -> Nat], t \in Tokens \cup {NoToken}, d \in Nat :
        /\ agentBond' = [agentBond EXCEPT ![s] = B]
        /\ tokenOf' = [tokenOf EXCEPT ![s] = t]
        /\ tokenDeposit' = [tokenDeposit EXCEPT ![s] = d]
  BY DEF Configured
<1>3. /\ state' = [state EXCEPT ![s] = "PreRegistration"]
      /\ numAgentInstances' = numAgentInstances /\ listed' = listed
      /\ instancesOf' = instancesOf /\ operatorOf' = operatorOf
      /\ balance' = balance /\ slashedFunds' = slashedFunds /\ held' = held
      /\ tokenBalance' = tokenBalance /\ tokenSlashed' = tokenSlashed /\ tokenHeld' = tokenHeld
  BY DEF Configured, instanceVars, fundVars
<1>4. PICK P, m, e : /\ agentParams' = [agentParams EXCEPT ![s] = P] /\ P \in [AgentIds -> AgentParams]
                     /\ maxNumAgentInstances' = [maxNumAgentInstances EXCEPT ![s] = m] /\ m \in Nat
                     /\ securityDeposit' = [securityDeposit EXCEPT ![s] = e] /\ e \in Nat
                     /\ agentIds' = [agentIds EXCEPT ![s] = A]
  <2> DEFINE f == [a \in 1..NumAgents |-> IF a \in A THEN l[a].slots ELSE 0]
             P == [a \in AgentIds |-> IF a \in A THEN l[a]
                     ELSE IF a \in DOMAIN l THEN [slots |-> 0, bond |-> 0] ELSE agentParams[s][a]]
  <2>1. /\ agentParams' = [agentParams EXCEPT ![s] = P]
        /\ agentIds' = [agentIds EXCEPT ![s] = A]
        /\ maxNumAgentInstances' = [maxNumAgentInstances EXCEPT ![s] = Total(f, NumAgents)]
        /\ securityDeposit' = [securityDeposit EXCEPT ![s] = Deposit(A, l)]
    BY <1>1 DEF Configured, SetServiceData, TotalOver, Types
  <2>2. P \in [AgentIds -> AgentParams]
    <3>1. \A a \in AgentIds : agentParams[s][a] \in AgentParams /\ [slots |-> 0, bond |-> 0] \in AgentParams
      BY <1>1 DEF Types, AgentParams
    <3> QED BY <3>1
  <2>3. Deposit(A, l) \in Nat
    BY DepositType DEF AgentParams
  <2>4. Total(f, NumAgents) \in Nat
    <3>1. NumAgents \in Nat /\ f \in [1..NumAgents -> Nat]
      BY ServiceAssumption DEF AgentParams
    <3> QED BY <3>1, TotalNonNegative
  <2> HIDE DEF f, P
  <2> QED BY <2>1, <2>2, <2>3, <2>4
<1>5. Types'
  BY <1>1, <1>2, <1>3, <1>4 DEF Types, States
<1>6. Elsewhere(s)
  BY <1>1, <1>2, <1>3, <1>4 DEF Types, Elsewhere
<1>7. /\ \A o \in Operators : /\ instancesOf[s][o] = <<>>
                              /\ balance[s][o] = 0 /\ tokenBalance[s][o] = 0
      /\ Total(balance[s], NumOperators) = 0 /\ Total(tokenBalance[s], NumOperators) = 0
  BY <1>1, Unregistered
<1>8. state'[s] = "PreRegistration"
  BY <1>1, <1>3 DEF Types
<1>9. FundsHeld'
  <2>1. Claim(s) = 0 /\ Claim(s)' = 0
    BY <1>3, <1>7, <1>8 DEF Claim, Activated
  <2>2. \A u \in Tokens : TokenClaim(u, s) = 0 /\ TokenClaim(u, s)' = 0
    BY <1>3, <1>7, <1>8 DEF TokenClaim, Activated
  <2> QED BY <1>1, <1>3, <1>5, <1>6, <2>1, <2>2, FundsStep
<1>10. BalancesAreBonds'
  <2>1. Bonds(s)' \in [AgentIds -> Nat] /\ agentBond'[s] \in [AgentIds -> Nat]
    BY <1>5 DEF Types, Bonds, AgentParams
  <2>2. BondSum(Bonds(s)', <<>>) = 0 /\ BondSum(agentBond'[s], <<>>) = 0
    BY <2>1, BondSumEmpty
  <2>3. \A o \in Operators : BalanceAgrees(s, o)'
    BY <1>3, <1>7, <2>2 DEF BalanceAgrees
  <2> QED BY <1>1, <1>6, <2>3, BalancesStep
<1>11. InstancesCounted'
  <2>1. Counted(s)'
    BY <1>1, <1>3, <1>8 DEF InstancesCounted, Counted
  <2>2. RegisteredOnce'
    BY <1>1, <1>3 DEF InstancesCounted, RegisteredOnce
  <2> QED BY <1>1, <1>6, <2>1, <2>2, CountsStep
<1> QED BY <1>5, <1>9, <1>10, <1>11 DEF Inv

\* The lists that calls are made with.
LEMMA ListType ==
  ASSUME NEW s \in Services, NEW l \in AgentLists[s]
  PROVE  /\ DOMAIN l \in SUBSET AgentIds /\ DOMAIN l # {}
         /\ \A a \in DOMAIN l : l[a] \in AgentParams /\ Wrapped(l)[a] \in AgentParams
         /\ DOMAIN Wrapped(l) = DOMAIN l /\ Kept(Wrapped(l)) = Kept(l) /\ Kept(l) \subseteq DOMAIN l
<1>1. PICK A \in SUBSET AgentIds : A # {} /\ l \in [A -> AgentParams]
  BY ServiceAssumption
<1>2. \A a \in A : l[a] \in AgentParams
  BY <1>1
<1>3. \A a \in A : /\ Wrapped(l)[a] \in AgentParams
                   /\ Wrapped(l)[a].slots = l[a].slots
  <2> SUFFICES ASSUME NEW a \in A
               PROVE  Wrapped(l)[a] \in AgentParams /\ Wrapped(l)[a].slots = l[a].slots
    OBVIOUS
  <2>1. l[a] \in [slots : Nat, bond : Nat] /\ BondWrapper \in Nat
    BY <1>2, WrapperAssumption DEF AgentParams
  <2>2. Wrapped(l)[a] = [l[a] EXCEPT !.bond = IF l[a].slots > 0 THEN BondWrapper ELSE @]
    BY <1>1 DEF Wrapped
  <2> QED BY <2>1, <2>2 DEF AgentParams
<1>4. DOMAIN Wrapped(l) = A /\ DOMAIN l = A
  BY <1>1 DEF Wrapped
<1>5. Kept(Wrapped(l)) = Kept(l) /\ Kept(l) \subseteq A
  BY <1>3, <1>4 DEF Kept
<1> QED BY <1>1, <1>2, <1>3, <1>4, <1>5

LEMMA CreateStep ==
  ASSUME Inv, NEW s \in Services, NEW t \in Securities[s], NEW l \in AgentLists[s], create(s, t, l)
  PROVE  Inv'
<1>1. Types /\ t \in Tokens \cup {NoToken}
  BY TokenAssumption DEF Inv
<1>2. /\ DOMAIN l \in SUBSET AgentIds /\ DOMAIN l # {} /\ DOMAIN Wrapped(l) = DOMAIN l
      /\ \A a \in DOMAIN l : l[a] \in AgentParams /\ Wrapped(l)[a] \in AgentParams
  BY ListType
<1>3. CASE t = NoToken
  <2>1. Create(s, l) /\ UNCHANGED tokenVars
    BY <1>3 DEF create
  <2>2. /\ agentBond' = [agentBond EXCEPT ![s] = agentBond[s]] /\ agentBond[s] \in [AgentIds -> Nat]
        /\ tokenOf' = [tokenOf EXCEPT ![s] = tokenOf[s]] /\ tokenOf[s] \in Tokens \cup {NoToken}
        /\ tokenDeposit' = [tokenDeposit EXCEPT ![s] = tokenDeposit[s]] /\ tokenDeposit[s] \in Nat
    BY <1>1, <2>1 DEF tokenVars, Types
  <2>3. Configured(s, DOMAIN l, l) /\ state[s] = "NonExistent"
    BY <2>1, <2>2 DEF Configured, Create, tokenVars
  <2> QED BY <1>2, <2>3, ConfigureStep
<1>4. CASE t # NoToken
  <2>1. Create(s, Wrapped(l)) /\ CreateWithToken(s, t, DOMAIN l, l)
    BY <1>4 DEF create
  <2> DEFINE B == [a \in AgentIds |-> IF a \in DOMAIN l THEN l[a].bond ELSE agentBond[s][a]]
  <2>2. B \in [AgentIds -> Nat] /\ Deposit(DOMAIN l, l) \in Nat
    <3>1. \A a \in DOMAIN l : l[a].bond \in Nat
      BY <1>2 DEF AgentParams
    <3>2. agentBond[s] \in [AgentIds -> Nat]
      BY <1>1 DEF Types
    <3>3. Deposit(DOMAIN l, l) \in Nat
      BY <1>2, <3>1, DepositType
    <3> QED BY <3>1, <3>2, <3>3
  <2>3. /\ agentBond' = [agentBond EXCEPT ![s] = B]
        /\ tokenOf' = [tokenOf EXCEPT ![s] = t]
        /\ tokenDeposit' = [tokenDeposit EXCEPT ![s] = Deposit(DOMAIN l, l)]
    BY <1>1, <2>1 DEF CreateWithToken, Types
  <2> HIDE DEF B
  <2>4. \E C \in [AgentIds -> Nat], u \in Tokens \cup {NoToken}, d \in Nat :
          /\ agentBond' = [agentBond EXCEPT ![s] = C]
          /\ tokenOf' = [tokenOf EXCEPT ![s] = u]
          /\ tokenDeposit' = [tokenDeposit EXCEPT ![s] = d]
    BY <1>1, <2>2, <2>3
  <2>5. /\ state[s] = "NonExistent" /\ state' = [state EXCEPT ![s] = "PreRegistration"]
        /\ SetServiceData(s, DOMAIN l, Wrapped(l)) /\ UNCHANGED <<instanceVars, fundVars>>
        /\ UNCHANGED <<tokenBalance, tokenSlashed, tokenHeld>>
    BY <1>2, <2>1 DEF Create, CreateWithToken
  <2>6. Configured(s, DOMAIN l, Wrapped(l))
    BY <2>4, <2>5 DEF Configured
  <2> QED BY <1>2, <2>5, <2>6, ConfigureStep
<1> QED BY <1>3, <1>4

LEMMA UpdateStep ==
  ASSUME Inv, NEW s \in Services, NEW t \in Securities[s], NEW l \in AgentLists[s], update(s, t, l)
  PROVE  Inv'
<1>1. Types /\ t \in Tokens \cup {NoToken}
  BY TokenAssumption DEF Inv
<1>2. /\ \A a \in Kept(l) : l[a] \in AgentParams /\ Wrapped(l)[a] \in AgentParams
      /\ Kept(l) \in SUBSET AgentIds /\ Kept(Wrapped(l)) = Kept(l)
  BY ListType
<1>3. CASE t = NoToken
  <2>1. Update(s, l) /\ ResetServiceToken(s)
    BY <1>3 DEF update
  <2>2. /\ agentBond' = [agentBond EXCEPT ![s] = agentBond[s]] /\ agentBond[s] \in [AgentIds -> Nat]
        /\ state' = [state EXCEPT ![s] = "PreRegistration"]
    BY <1>1, <2>1 DEF ResetServiceToken, Update, Types
  <2>3. Configured(s, Kept(l), l) /\ state[s] = "PreRegistration" /\ Kept(l) # {}
    BY <2>1, <2>2 DEF Configured, Update, ResetServiceToken
  <2> QED BY <1>2, <2>3, ConfigureStep
<1>4. CASE t # NoToken
  <2>1. Update(s, Wrapped(l)) /\ CreateWithToken(s, t, Kept(l), l)
    BY <1>4 DEF update
  <2>2. Kept(l) # {} /\ state[s] = "PreRegistration"
    BY <1>2, <2>1 DEF Update
  <2> DEFINE B == [a \in AgentIds |-> IF a \in Kept(l) THEN l[a].bond ELSE agentBond[s][a]]
  <2>3. B \in [AgentIds -> Nat] /\ Deposit(Kept(l), l) \in Nat
    <3>1. \A a \in Kept(l) : l[a].bond \in Nat
      BY <1>2 DEF AgentParams
    <3>2. agentBond[s] \in [AgentIds -> Nat]
      BY <1>1 DEF Types
    <3>3. Deposit(Kept(l), l) \in Nat
      BY <1>2, <2>2, <3>1, DepositType
    <3> QED BY <3>1, <3>2, <3>3
  <2>4. /\ agentBond' = [agentBond EXCEPT ![s] = B]
        /\ tokenOf' = [tokenOf EXCEPT ![s] = t]
        /\ tokenDeposit' = [tokenDeposit EXCEPT ![s] = Deposit(Kept(l), l)]
        /\ state' = [state EXCEPT ![s] = "PreRegistration"]
    BY <1>1, <2>1 DEF CreateWithToken, Update, Types
  <2> HIDE DEF B
  <2>5. \E C \in [AgentIds -> Nat], u \in Tokens \cup {NoToken}, d \in Nat :
          /\ agentBond' = [agentBond EXCEPT ![s] = C]
          /\ tokenOf' = [tokenOf EXCEPT ![s] = u]
          /\ tokenDeposit' = [tokenDeposit EXCEPT ![s] = d]
    BY <1>1, <2>3, <2>4
  <2>6. /\ SetServiceData(s, Kept(l), Wrapped(l)) /\ UNCHANGED <<instanceVars, fundVars>>
        /\ UNCHANGED <<tokenBalance, tokenSlashed, tokenHeld>>
    BY <1>2, <2>1 DEF Update, CreateWithToken
  <2>7. Configured(s, Kept(l), Wrapped(l))
    BY <2>4, <2>5, <2>6 DEF Configured
  <2> QED BY <1>2, <2>2, <2>7, ConfigureStep
<1> QED BY <1>3, <1>4

-----------------------------------------------------------------------------
(* Activation, deployment and termination                                    *)

\* A step that moves the deposits of a service and leaves its registrations alone.
LEMMA DepositStep ==
  ASSUME Inv, NEW s \in Services, NEW x \in States,
         state' = [state EXCEPT ![s] = x],
         x # "NonExistent", x = "PreRegistration" => numAgentInstances[s] = 0,
         x \in {"FinishedRegistration", "Deployed"} => numAgentInstances[s] = maxNumAgentInstances[s],
         x \notin {"Deployed", "TerminatedBonded"} =>
           state[s] \notin {"Deployed", "TerminatedBonded"} \/ numAgentInstances[s] = 0,
         listed' \in [Services -> [AgentIds -> [Instances -> Nat]]],
         UNCHANGED <<listVars, numAgentInstances, instancesOf, operatorOf, balance, slashedFunds>>,
         UNCHANGED <<tokenOf, tokenDeposit, agentBond, tokenBalance, tokenSlashed>>,
         held' \in Int, tokenHeld' \in [Tokens -> Int],
         held' - slashedFunds' - Claim(s)' = held - slashedFunds - Claim(s),
         \A t \in Tokens : tokenHeld'[t] - tokenSlashed'[t] - TokenClaim(t, s)' =
                             tokenHeld[t] - tokenSlashed[t] - TokenClaim(t, s)
  PROVE  Inv'
<1>1. Types /\ FundsHeld /\ BalancesAreBonds /\ InstancesCounted
  BY DEF Inv
<1>2. Types'
  BY <1>1 DEF Types, listVars
<1>3. Elsewhere(s)
  BY <1>1 DEF Types, Elsewhere, listVars
<1>4. FundsHeld'
  BY <1>1, <1>2, <1>3, FundsStep
<1>5. BalancesAreBonds'
  <2> SUFFICES ASSUME NEW o \in Operators
               PROVE  BalanceAgrees(s, o)'
    BY <1>1, <1>3, BalancesStep
  <2>1. /\ Bonds(s)' = Bonds(s) /\ Secured(s)' = Secured(s) /\ BalanceAgrees(s, o)
        /\ instancesOf' = instancesOf /\ agentBond' = agentBond
        /\ balance' = balance /\ tokenBalance' = tokenBalance /\ state'[s] = x
    BY <1>1 DEF Bonds, Secured, listVars, BalancesAreBonds, Types
  <2>2. CASE state[s] \notin {"Deployed", "TerminatedBonded"} \/ x \in {"Deployed", "TerminatedBonded"}
    BY <2>1, <2>2 DEF BalanceAgrees
  <2>3. CASE numAgentInstances[s] = 0
    <3> DEFINE f == [p \in Operators |-> Len(instancesOf[s][p])]
    <3>1. NumOperators \in Nat /\ Operators = 1..NumOperators /\ f \in [1..NumOperators -> Nat]
      BY <1>1, ServiceAssumption DEF Types, Operators
    <3>2. Total(f, NumOperators) = 0 /\ f[o] = Len(instancesOf[s][o])
      BY <1>1, <2>3 DEF InstancesCounted, Counted
    <3> HIDE DEF f
    <3>3. f[o] <= 0 /\ f[o] \in Nat
      BY <3>1, <3>2, TotalNonNegative
    <3>4. instancesOf[s][o] = <<>>
      BY <1>1, <3>2, <3>3 DEF Types
    <3>5. BondSum(Bonds(s), <<>>) = 0 /\ BondSum(agentBond[s], <<>>) = 0
      BY <1>1, BondsType, BondSumEmpty
    <3>6. balance[s][o] \in Nat /\ tokenBalance[s][o] \in Nat
      BY <1>1 DEF Types
    <3> QED BY <2>1, <3>4, <3>5, <3>6 DEF BalanceAgrees
  <2> QED BY <2>2, <2>3
<1>6. Counted(s)'
  <2>1. state'[s] = x /\ numAgentInstances' = numAgentInstances /\ instancesOf' = instancesOf
        /\ maxNumAgentInstances' = maxNumAgentInstances
    BY <1>1 DEF Types, listVars
  <2>2. numAgentInstances[s] = Total([o \in Operators |-> Len(instancesOf[s][o])], NumOperators)
    BY <1>1 DEF InstancesCounted, Counted
  <2> QED BY <2>1, <2>2 DEF Counted
<1>7. RegisteredOnce'
  BY <1>1 DEF InstancesCounted, RegisteredOnce
<1> QED BY <1>1, <1>2, <1>3, <1>4, <1>5, <1>6, <1>7, CountsStep DEF Inv

LEMMA ActivateStep ==
  ASSUME Inv, NEW s \in Services, NEW value \in Values, activateRegistration(s, value)
  PROVE  Inv'
<1>1. Types /\ InstancesCounted
  BY DEF Inv
<1>2. /\ state[s] = "PreRegistration" /\ state' = [state EXCEPT ![s] = "ActiveRegistration"]
      /\ held' = held + securityDeposit[s]
      /\ UNCHANGED <<listVars, instanceVars, balance, slashedFunds>>
  BY DEF activateRegistration, ActivateRegistration
<1>3. /\ UNCHANGED <<tokenOf, tokenDeposit, agentBond, tokenBalance, tokenSlashed>>
      /\ tokenHeld' = IF Secured(s) THEN [tokenHeld EXCEPT ![tokenOf[s]] = @ + tokenDeposit[s]]
                      ELSE tokenHeld
  BY DEF activateRegistration, ActivateRegistrationTokenDeposit, tokenVars
<1>4. /\ held \in Int /\ slashedFunds \in Int /\ securityDeposit[s] \in Int /\ tokenDeposit[s] \in Int
      /\ tokenHeld \in [Tokens -> Int] /\ tokenSlashed \in [Tokens -> Int]
      /\ Total(balance[s], NumOperators) \in Int /\ Total(tokenBalance[s], NumOperators) \in Int
      /\ tokenOf[s] \in Tokens \cup {NoToken} /\ state'[s] = "ActiveRegistration"
  BY <1>1, <1>2, ClaimType DEF Types
<1>5. held' - slashedFunds' - Claim(s)' = held - slashedFunds - Claim(s)
  <2>1. Claim(s) = Total(balance[s], NumOperators)
    BY <1>2, <1>4 DEF Claim, Activated
  <2>2. Claim(s)' = securityDeposit[s] + Total(balance[s], NumOperators)
    BY <1>2, <1>4 DEF Claim, Activated, listVars
  <2> QED BY <1>2, <1>4, <2>1, <2>2
<1>6. ASSUME NEW t \in Tokens
      PROVE  tokenHeld'[t] - tokenSlashed'[t] - TokenClaim(t, s)' =
               tokenHeld[t] - tokenSlashed[t] - TokenClaim(t, s)
  <2>1. CASE tokenOf[s] = t
    <3>1. TokenClaim(t, s) = Total(tokenBalance[s], NumOperators)
      BY <1>2, <1>4, <2>1 DEF TokenClaim, Activated
    <3>2. TokenClaim(t, s)' = tokenDeposit[s] + Total(tokenBalance[s], NumOperators)
      BY <1>3, <1>4, <2>1 DEF TokenClaim, Activated
    <3>3. tokenHeld'[t] = tokenHeld[t] + tokenDeposit[s] /\ tokenSlashed'[t] = tokenSlashed[t]
      BY <1>3, <1>4, <2>1, TokenAssumption DEF Secured
    <3> QED BY <1>4, <3>1, <3>2, <3>3
  <2>2. CASE tokenOf[s] # t
    BY <1>3, <1>4, <2>2 DEF TokenClaim, Secured
  <2> QED BY <2>1, <2>2
<1>7. held' \in Int /\ tokenHeld' \in [Tokens -> Int]
  BY <1>2, <1>3, <1>4 DEF Secured
<1>8. listed' \in [Services -> [AgentIds -> [Instances -> Nat]]] /\ "ActiveRegistration" \in States
  BY <1>1, <1>2 DEF Types, instanceVars, States
<1>9. UNCHANGED <<listVars, numAgentInstances, instancesOf, operatorOf, balance, slashedFunds>>
  BY <1>2 DEF instanceVars
<1> QED BY <1>2, <1>3, <1>5, <1>6, <1>7, <1>8, <1>9, DepositStep

LEMMA DeployStep ==
  ASSUME Inv, NEW s \in Services, deploy(s)
  PROVE  Inv'
<1>1. Types /\ InstancesCounted
  BY DEF Inv
<1>2. /\ state[s] = "FinishedRegistration" /\ state' = [state EXCEPT ![s] = "Deployed"]
      /\ UNCHANGED <<listVars, instanceVars, fundVars, tokenVars>>
  BY DEF deploy, Deploy
<1>3. /\ state'[s] = "Deployed" /\ numAgentInstances[s] = maxNumAgentInstances[s]
      /\ "Deployed" \in States
  BY <1>1, <1>2 DEF Types, InstancesCounted, Counted, States
<1>4. /\ Claim(s)' = Claim(s) /\ \A t \in Tokens : TokenClaim(t, s)' = TokenClaim(t, s)
      /\ held' = held /\ slashedFunds' = slashedFunds
      /\ tokenHeld' = tokenHeld /\ tokenSlashed' = tokenSlashed /\ listed' = listed
  BY <1>2, <1>3 DEF Claim, TokenClaim, Activated, listVars, fundVars, tokenVars, instanceVars
<1>5. /\ UNCHANGED <<listVars, numAgentInstances, instancesOf, operatorOf, balance, slashedFunds>>
      /\ UNCHANGED <<tokenOf, tokenDeposit, agentBond, tokenBalance, tokenSlashed>>
  BY <1>2 DEF fundVars, tokenVars, instanceVars
<1>6. /\ held' \in Int /\ tokenHeld' \in [Tokens -> Int]
      /\ listed' \in [Services -> [AgentIds -> [Instances -> Nat]]]
  BY <1>1, <1>4 DEF Types
<1> QED BY <1>2, <1>3, <1>4, <1>5, <1>6, DepositStep

LEMMA TerminateStep ==
  ASSUME Inv, NEW s \in Services, terminate(s)
  PROVE  Inv'
<1>1. Types /\ InstancesCounted
  BY DEF Inv
<1> DEFINE x == IF numAgentInstances[s] > 0 THEN "TerminatedBonded" ELSE "PreRegistration"
<1>2. /\ state[s] \notin {"NonExistent", "PreRegistration", "TerminatedBonded"}
      /\ state' = [state EXCEPT ![s] = x]
      /\ held' = held - securityDeposit[s]
      /\ UNCHANGED <<listVars, numAgentInstances, instancesOf, operatorOf, balance, slashedFunds>>
  BY DEF terminate, Terminate
<1>3. /\ UNCHANGED <<tokenOf, tokenDeposit, agentBond, tokenBalance, tokenSlashed>>
      /\ tokenHeld' = IF Secured(s) THEN [tokenHeld EXCEPT ![tokenOf[s]] = @ - tokenDeposit[s]]
                      ELSE tokenHeld
  BY DEF terminate, TerminateTokenRefund, tokenVars
<1>4. /\ held \in Int /\ slashedFunds \in Int /\ securityDeposit[s] \in Int /\ tokenDeposit[s] \in Int
      /\ tokenHeld \in [Tokens -> Int] /\ tokenSlashed \in [Tokens -> Int]
      /\ Total(balance[s], NumOperators) \in Int /\ Total(tokenBalance[s], NumOperators) \in Int
      /\ tokenOf[s] \in Tokens \cup {NoToken} /\ state'[s] = x /\ numAgentInstances[s] \in Nat
      /\ state[s] \in States
  BY <1>1, <1>2, ClaimType DEF Types
<1>5. Activated(s) /\ ~ Activated(s)'
  BY <1>2, <1>4 DEF Activated, States
<1>6. held' - slashedFunds' - Claim(s)' = held - slashedFunds - Claim(s)
  <2>1. Claim(s) = securityDeposit[s] + Total(balance[s], NumOperators)
    BY <1>5 DEF Claim
  <2>2. Claim(s)' = Total(balance[s], NumOperators)
    BY <1>2, <1>4, <1>5 DEF Claim
  <2> QED BY <1>2, <1>4, <2>1, <2>2
<1>7. ASSUME NEW t \in Tokens
      PROVE  tokenHeld'[t] - tokenSlashed'[t] - TokenClaim(t, s)' =
               tokenHeld[t] - tokenSlashed[t] - TokenClaim(t, s)
  <2>1. CASE tokenOf[s] = t
    <3>1. TokenClaim(t, s) = tokenDeposit[s] + Total(tokenBalance[s], NumOperators)
      BY <1>5, <2>1 DEF TokenClaim
    <3>2. TokenClaim(t, s)' = Total(tokenBalance[s], NumOperators)
      BY <1>3, <1>4, <1>5, <2>1 DEF TokenClaim
    <3>3. tokenHeld'[t] = tokenHeld[t] - tokenDeposit[s] /\ tokenSlashed'[t] = tokenSlashed[t]
      BY <1>3, <1>4, <2>1, TokenAssumption DEF Secured
    <3> QED BY <1>4, <3>1, <3>2, <3>3
  <2>2. CASE tokenOf[s] # t
    BY <1>3, <1>4, <2>2 DEF TokenClaim, Secured
  <2> QED BY <2>1, <2>2
<1>8. held' \in Int /\ tokenHeld' \in [Tokens -> Int]
  BY <1>2, <1>3, <1>4 DEF Secured
<1>9. listed' \in [Services -> [AgentIds -> [Instances -> Nat]]]
  <2>1. NoInstances \in [Instances -> Nat]
    BY DEF NoInstances
  <2>2. listed' = [listed EXCEPT ![s] =
          [a \in AgentIds |-> IF a \in agentIds[s] THEN NoInstances ELSE @[a]]]
    BY DEF terminate, Terminate
  <2> QED BY <1>1, <2>1, <2>2 DEF Types
<1>10. /\ x \in States /\ x # "NonExistent" /\ x \notin {"FinishedRegistration", "Deployed"}
       /\ x = "PreRegistration" => numAgentInstances[s] = 0
       /\ x \notin {"Deployed", "TerminatedBonded"} => numAgentInstances[s] = 0
  BY <1>4 DEF States
<1> HIDE DEF x
<1> QED BY <1>2, <1>3, <1>6, <1>7, <1>8, <1>9, <1>10, DepositStep

-----------------------------------------------------------------------------
(* Registration                                                              *)

\* The type of a table in which one entry changes.
LEMMA RowType ==
  ASSUME NEW S, NEW R, NEW D, NEW f \in [S -> [R -> D]], NEW s \in S, NEW o \in R, NEW v \in D
  PROVE  [f EXCEPT ![s] = [f[s] EXCEPT ![o] = v]] \in [S -> [R -> D]]
OBVIOUS

\* What a registration does to the registry.
LEMMA RegisterFacts ==
  ASSUME Inv, NEW o \in Operators, NEW s \in Services, NEW batch \in Batches, NEW value,
         registerAgents(o, s, batch, value)
  PROVE  /\ batch \in Seq(Registration) /\ Len(batch) \in Nat /\ DOMAIN batch = 1..Len(batch)
         /\ BondSum(Bonds(s), batch) \in Nat /\ BondSum(agentBond[s], batch) \in Nat
         /\ state[s] = "ActiveRegistration" /\ Free(o, batch)
         /\ instancesOf' = [instancesOf EXCEPT ![s] = [instancesOf[s] EXCEPT ![o] = instancesOf[s][o] \o batch]]
         /\ balance' = [balance EXCEPT ![s] = [balance[s] EXCEPT ![o] = balance[s][o] + BondSum(Bonds(s), batch)]]
         /\ held' = held + BondSum(Bonds(s), batch)
         /\ numAgentInstances' = [numAgentInstances EXCEPT ![s] = @ + Len(batch)]
         /\ state' = [state EXCEPT ![s] =
              IF numAgentInstances[s] + Len(batch) = maxNumAgentInstances[s]
              THEN "FinishedRegistration" ELSE "ActiveRegistration"]
         /\ UNCHANGED <<listVars, slashedFunds, tokenOf, tokenDeposit, agentBond, tokenSlashed>>
         /\ IF Secured(s)
            THEN /\ tokenBalance' = [tokenBalance EXCEPT ![s] =
                                       [tokenBalance[s] EXCEPT ![o] = tokenBalance[s][o] + BondSum(agentBond[s], batch)]]
                 /\ tokenHeld' = [tokenHeld EXCEPT ![tokenOf[s]] = @ + BondSum(agentBond[s], batch)]
            ELSE UNCHANGED <<tokenBalance, tokenHeld>>
<1>1. Types
  BY DEF Inv
<1>2. PICK n \in 1..MaxBatch : batch \in [1..n -> Registration]
  BY DEF Batches
<1>3. batch \in Seq(Registration) /\ Len(batch) \in Nat /\ DOMAIN batch = 1..Len(batch)
  <2>1. n \in Nat
    BY <1>2, ServiceAssumption
  <2> QED BY <1>2, <2>1
<1>4. BondSum(Bonds(s), batch) \in Nat /\ BondSum(agentBond[s], batch) \in Nat
  BY <1>1, <1>3, BondsType, BondSumType
<1>5. RegisterAgents(o, s, batch, BondSum(Bonds(s), batch))
  BY DEF registerAgents, RegisterAgents
<1>6. RegisterAgentsTokenDeposit(o, s, batch)
  BY DEF registerAgents
<1>7. /\ state[s] = "ActiveRegistration" /\ Free(o, batch)
      /\ instancesOf' = [instancesOf EXCEPT ![s] = [instancesOf[s] EXCEPT ![o] = instancesOf[s][o] \o batch]]
      /\ balance' = [balance EXCEPT ![s] = [balance[s] EXCEPT ![o] = balance[s][o] + BondSum(Bonds(s), batch)]]
      /\ held' = held + BondSum(Bonds(s), batch)
      /\ numAgentInstances' = [numAgentInstances EXCEPT ![s] = @ + Len(batch)]
      /\ UNCHANGED <<listVars, slashedFunds>>
  BY <1>1, <1>5 DEF RegisterAgents, Types
<1>8. state' = [state EXCEPT ![s] =
        IF numAgentInstances[s] + Len(batch) = maxNumAgentInstances[s]
        THEN "FinishedRegistration" ELSE "ActiveRegistration"]
  BY <1>1, <1>5 DEF RegisterAgents, Types
<1>9. /\ UNCHANGED <<tokenOf, tokenDeposit, agentBond, tokenSlashed>>
      /\ IF Secured(s)
         THEN /\ tokenBalance' = [tokenBalance EXCEPT ![s] =
                                    [tokenBalance[s] EXCEPT ![o] = tokenBalance[s][o] + BondSum(agentBond[s], batch)]]
              /\ tokenHeld' = [tokenHeld EXCEPT ![tokenOf[s]] = @ + BondSum(agentBond[s], batch)]
         ELSE UNCHANGED <<tokenBalance, tokenHeld>>
  BY <1>1, <1>6 DEF RegisterAgentsTokenDeposit, tokenVars, Types
<1> QED BY <1>3, <1>4, <1>7, <1>8, <1>9

LEMMA RegisterTypes ==
  ASSUME Inv, NEW o \in Operators, NEW s \in Services, NEW batch \in Batches, NEW value,
         registerAgents(o, s, batch, value)
  PROVE  Types'
<1>1. Types
  BY DEF Inv
<1>2. /\ batch \in Seq(Registration) /\ Len(batch) \in Nat
      /\ BondSum(Bonds(s), batch) \in Nat /\ BondSum(agentBond[s], batch) \in Nat
  BY RegisterFacts
<1>3. RegisterAgents(o, s, batch, BondSum(Bonds(s), batch))
  BY DEF registerAgents, RegisterAgents
<1>4. listed' \in [Services -> [AgentIds -> [Instances -> Nat]]]
  <2> DEFINE L == [a \in AgentIds |-> [i \in Instances |->
         listed[s][a][i] + IF \E k \in DOMAIN batch : batch[k] = [instance |-> i, agentId |-> a]
                           THEN 1 ELSE 0]]
  <2>1. \A a \in AgentIds, i \in Instances : listed[s][a][i] \in Nat
    BY <1>1 DEF Types
  <2>2. L \in [AgentIds -> [Instances -> Nat]]
    BY <2>1
  <2>3. listed' = [listed EXCEPT ![s] = L]
    BY <1>3 DEF RegisterAgents
  <2> HIDE DEF L
  <2> QED BY <1>1, <2>2, <2>3 DEF Types
<1>5. operatorOf' \in [Instances \cup Operators -> Operators \cup {NoOperator}]
  <2>1. operatorOf' = [i \in DOMAIN operatorOf |->
          IF \E k \in DOMAIN batch : batch[k].instance = i THEN o ELSE operatorOf[i]]
    BY <1>3 DEF RegisterAgents
  <2> QED BY <1>1, <2>1 DEF Types
<1>6. instancesOf' \in [Services -> [Operators -> Seq(Registration)]]
  <2>1. instancesOf[s][o] \o batch \in Seq(Registration)
    BY <1>1, <1>2 DEF Types
  <2>2. instancesOf' = [instancesOf EXCEPT ![s] = [instancesOf[s] EXCEPT ![o] = instancesOf[s][o] \o batch]]
    BY RegisterFacts
  <2> QED BY <1>1, <2>1, <2>2, RowType DEF Types
<1>7. balance' \in [Services -> [Operators -> Nat]]
  <2>1. balance[s][o] + BondSum(Bonds(s), batch) \in Nat
    BY <1>1, <1>2 DEF Types
  <2>2. balance' = [balance EXCEPT ![s] = [balance[s] EXCEPT ![o] = balance[s][o] + BondSum(Bonds(s), batch)]]
    BY RegisterFacts
  <2> QED BY <1>1, <2>1, <2>2, RowType DEF Types
<1>8. /\ tokenBalance' \in [Services -> [Operators -> Nat]]
      /\ tokenHeld' \in [Tokens -> Int]
  <2>1. CASE Secured(s)
    <3>1. tokenBalance[s][o] + BondSum(agentBond[s], batch) \in Nat
      BY <1>1, <1>2 DEF Types
    <3>2. /\ tokenBalance' = [tokenBalance EXCEPT ![s] =
                                [tokenBalance[s] EXCEPT ![o] = tokenBalance[s][o] + BondSum(agentBond[s], batch)]]
          /\ tokenHeld' = [tokenHeld EXCEPT ![tokenOf[s]] = @ + BondSum(agentBond[s], batch)]
      BY <2>1, RegisterFacts
    <3>3. tokenBalance' \in [Services -> [Operators -> Nat]]
      BY <1>1, <3>1, <3>2, RowType DEF Types
    <3>4. tokenHeld' \in [Tokens -> Int]
      <4>1. tokenHeld \in [Tokens -> Int] /\ tokenOf[s] \in Tokens /\ tokenHeld[tokenOf[s]] \in Int
        BY <1>1, <2>1 DEF Types, Secured
      <4> QED BY <1>2, <3>2, <4>1
    <3> QED BY <3>3, <3>4
  <2>2. CASE ~ Secured(s)
    <3>1. tokenBalance' = tokenBalance /\ tokenHeld' = tokenHeld
      BY <2>2, RegisterFacts
    <3> QED BY <1>1, <3>1 DEF Types
  <2> QED BY <2>1, <2>2
<1>9. /\ numAgentInstances' \in [Services -> Nat] /\ state' \in [Services -> States] /\ held' \in Int
  <2>1. /\ numAgentInstances[s] + Len(batch) \in Nat
        /\ held + BondSum(Bonds(s), batch) \in Int
        /\ "ActiveRegistration" \in States /\ "FinishedRegistration" \in States
    BY <1>1, <1>2 DEF Types, States
  <2>2. numAgentInstances' \in [Services -> Nat]
    <3>1. numAgentInstances' = [numAgentInstances EXCEPT ![s] = @ + Len(batch)]
      BY RegisterFacts
    <3> QED BY <1>1, <2>1, <3>1 DEF Types
  <2>3. state' \in [Services -> States]
    <3>1. state' = [state EXCEPT ![s] =
            IF numAgentInstances[s] + Len(batch) = maxNumAgentInstances[s]
            THEN "FinishedRegistration" ELSE "ActiveRegistration"]
      BY RegisterFacts
    <3> QED BY <1>1, <2>1, <3>1 DEF Types
  <2>4. held' \in Int
    BY <2>1, RegisterFacts
  <2> QED BY <2>2, <2>3, <2>4
<1>10. UNCHANGED <<listVars, slashedFunds, tokenOf, tokenDeposit, agentBond, tokenSlashed>>
  BY RegisterFacts
<1> QED BY <1>1, <1>4, <1>5, <1>6, <1>7, <1>8, <1>9, <1>10 DEF Types, listVars

\* Where the registrations are after one: the batch follows those of the operator.
LEMMA RegisterPlaces ==
  ASSUME Inv, NEW o \in Operators, NEW s \in Services, NEW batch \in Batches, NEW value,
         registerAgents(o, s, batch, value)
  PROVE  /\ \A r \in Services, p \in Operators :
              r # s \/ p # o => instancesOf'[r][p] = instancesOf[r][p]
         /\ instancesOf'[s][o] = instancesOf[s][o] \o batch
         /\ Len(instancesOf'[s][o]) = Len(instancesOf[s][o]) + Len(batch)
         /\ \A r \in Services, p \in Operators : \A j \in 1..Len(instancesOf'[r][p]) :
              \/ /\ j \in 1..Len(instancesOf[r][p])
                 /\ instancesOf'[r][p][j] = instancesOf[r][p][j]
              \/ /\ r = s /\ p = o /\ j - Len(instancesOf[s][o]) \in 1..Len(batch)
                 /\ instancesOf'[r][p][j] = batch[j - Len(instancesOf[s][o])]
<1>1. Types
  BY DEF Inv
<1>2. /\ batch \in Seq(Registration) /\ Len(batch) \in Nat
      /\ instancesOf' = [instancesOf EXCEPT ![s] = [instancesOf[s] EXCEPT ![o] = instancesOf[s][o] \o batch]]
  BY RegisterFacts
<1>3. instancesOf \in [Services -> [Operators -> Seq(Registration)]]
  BY <1>1 DEF Types
<1>4. \A r \in Services, p \in Operators :
        r # s \/ p # o => instancesOf'[r][p] = instancesOf[r][p]
  BY <1>2, <1>3
<1>5. instancesOf'[s][o] = instancesOf[s][o] \o batch
  BY <1>2, <1>3
<1>6. /\ instancesOf[s][o] \in Seq(Registration)
      /\ Len(instancesOf'[s][o]) = Len(instancesOf[s][o]) + Len(batch)
  BY <1>2, <1>3, <1>5
<1>7. ASSUME NEW j \in 1..Len(instancesOf'[s][o])
      PROVE  \/ /\ j \in 1..Len(instancesOf[s][o])
                /\ instancesOf'[s][o][j] = instancesOf[s][o][j]
             \/ /\ j - Len(instancesOf[s][o]) \in 1..Len(batch)
                /\ instancesOf'[s][o][j] = batch[j - Len(instancesOf[s][o])]
  <2> DEFINE q == instancesOf[s][o]
  <2>1. q \in Seq(Registration) /\ j \in 1..(Len(q) + Len(batch)) /\ Len(q) \in Nat
    BY <1>6
  <2>2. instancesOf'[s][o] = q \o batch
    BY <1>5
  <2> HIDE DEF q
  <2>3. CASE j <= Len(q)
    <3>1. j \in 1..Len(q) /\ (q \o batch)[j] = q[j]
      BY <1>2, <2>1, <2>3
    <3> QED BY <2>2, <3>1 DEF q
  <2>4. CASE j > Len(q)
    <3>1. j - Len(q) \in 1..Len(batch) /\ (q \o batch)[j] = batch[j - Len(q)]
      BY <1>2, <2>1, <2>4
    <3> QED BY <2>2, <3>1 DEF q
  <2> QED BY <2>1, <2>3, <2>4
<1>8. \A r \in Services, p \in Operators : \A j \in 1..Len(instancesOf'[r][p]) :
        \/ /\ j \in 1..Len(instancesOf[r][p])
           /\ instancesOf'[r][p][j] = instancesOf[r][p][j]
        \/ /\ r = s /\ p = o /\ j - Len(instancesOf[s][o]) \in 1..Len(batch)
           /\ instancesOf'[r][p][j] = batch[j - Len(instancesOf[s][o])]
  <2> SUFFICES ASSUME NEW r \in Services, NEW p \in Operators, NEW j \in 1..Len(instancesOf'[r][p])
               PROVE  \/ /\ j \in 1..Len(instancesOf[r][p])
                         /\ instancesOf'[r][p][j] = instancesOf[r][p][j]
                      \/ /\ r = s /\ p = o /\ j - Len(instancesOf[s][o]) \in 1..Len(batch)
                         /\ instancesOf'[r][p][j] = batch[j - Len(instancesOf[s][o])]
    OBVIOUS
  <2>1. CASE r = s /\ p = o
    BY <1>7, <2>1
  <2>2. CASE r # s \/ p # o
    BY <1>4, <2>2
  <2> QED BY <2>1, <2>2
<1> QED BY <1>4, <1>5, <1>6, <1>8

LEMMA RegisterOnce ==
  ASSUME Inv, NEW o \in Operators, NEW s \in Services, NEW batch \in Batches, NEW value,
         registerAgents(o, s, batch, value)
  PROVE  RegisteredOnce'
<1>1. Types /\ Types' /\ RegisteredOnce
  BY RegisterTypes DEF Inv, InstancesCounted
<1> DEFINE n == Len(instancesOf[s][o])
<1>2. /\ batch \in Seq(Registration) /\ DOMAIN batch = 1..Len(batch) /\ Len(batch) \in Nat /\ n \in Nat
      /\ \A k \in 1..Len(batch) : batch[k].instance \in Instances /\ operatorOf[batch[k].instance] = NoOperator
      /\ \A j, k \in 1..Len(batch) : batch[j].instance = batch[k].instance => j = k
  <2>1. batch \in Seq(Registration) /\ DOMAIN batch = 1..Len(batch) /\ Len(batch) \in Nat /\ Free(o, batch)
    BY RegisterFacts
  <2>2. n \in Nat
    <3>1. instancesOf[s][o] \in Seq(Registration)
      BY <1>1 DEF Types
    <3> QED BY <3>1
  <2>3. \A k \in 1..Len(batch) : batch[k].instance \in Instances
    <3>1. \A k \in 1..Len(batch) : batch[k] \in Registration
      BY <2>1
    <3> QED BY <3>1 DEF Registration
  <2> HIDE DEF n
  <2>4. /\ \A k \in 1..Len(batch) : operatorOf[batch[k].instance] = NoOperator
        /\ \A j, k \in 1..Len(batch) : batch[j].instance = batch[k].instance => j = k
    BY <2>1 DEF Free
  <2> QED BY <2>1, <2>2, <2>3, <2>4
<1>3. operatorOf' = [i \in DOMAIN operatorOf |->
        IF \E k \in DOMAIN batch : batch[k].instance = i THEN o ELSE operatorOf[i]]
  BY DEF registerAgents, RegisterAgents
<1>4. /\ DOMAIN operatorOf = Instances \cup Operators /\ DOMAIN operatorOf' = Instances \cup Operators
      /\ \A r \in Services, p \in Operators : DOMAIN instancesOf[r][p] = 1..Len(instancesOf[r][p])
      /\ \A r \in Services, p \in Operators : DOMAIN instancesOf'[r][p] = 1..Len(instancesOf'[r][p])
      /\ \A p \in Operators : p # NoOperator
      /\ \A r \in Services, p \in Operators : \A j \in 1..Len(instancesOf[r][p]) :
           instancesOf[r][p][j].instance \in Instances
  <2>1. \A p \in Operators : p # NoOperator
    BY DEF Operators, NoOperator
  <2>2. \A r \in Services, p \in Operators :
          /\ DOMAIN instancesOf[r][p] = 1..Len(instancesOf[r][p])
          /\ \A j \in 1..Len(instancesOf[r][p]) : instancesOf[r][p][j].instance \in Instances
    <3> SUFFICES ASSUME NEW r \in Services, NEW p \in Operators
                 PROVE  /\ DOMAIN instancesOf[r][p] = 1..Len(instancesOf[r][p])
                        /\ \A j \in 1..Len(instancesOf[r][p]) :
                             instancesOf[r][p][j].instance \in Instances
      OBVIOUS
    <3>1. instancesOf[r][p] \in Seq(Registration)
      BY <1>1 DEF Types
    <3>2. \A j \in 1..Len(instancesOf[r][p]) : instancesOf[r][p][j] \in Registration
      BY <3>1
    <3> QED BY <3>1, <3>2 DEF Registration
  <2>3. \A r \in Services, p \in Operators : DOMAIN instancesOf'[r][p] = 1..Len(instancesOf'[r][p])
    <3> SUFFICES ASSUME NEW r \in Services, NEW p \in Operators
                 PROVE  DOMAIN instancesOf'[r][p] = 1..Len(instancesOf'[r][p])
      OBVIOUS
    <3>1. instancesOf'[r][p] \in Seq(Registration)
      BY <1>1 DEF Types
    <3> QED BY <3>1
  <2>4. DOMAIN operatorOf = Instances \cup Operators /\ DOMAIN operatorOf' = Instances \cup Operators
    BY <1>1 DEF Types
  <2> QED BY <2>1, <2>2, <2>3, <2>4
<1>5. \A r \in Services, p \in Operators : \A j \in 1..Len(instancesOf[r][p]) :
        LET i == instancesOf[r][p][j].instance
        IN  operatorOf[i] = p /\ \A k \in 1..Len(batch) : batch[k].instance # i
  BY <1>1, <1>2, <1>4 DEF RegisteredOnce
<1>8. \A r \in Services, p \in Operators : \A j \in 1..Len(instancesOf'[r][p]) :
        \/ j \in 1..Len(instancesOf[r][p]) /\ instancesOf'[r][p][j] = instancesOf[r][p][j]
        \/ r = s /\ p = o /\ j - n \in 1..Len(batch) /\ instancesOf'[r][p][j] = batch[j - n]
  <2>1. \A r \in Services, p \in Operators : \A j \in 1..Len(instancesOf'[r][p]) :
          \/ /\ j \in 1..Len(instancesOf[r][p])
             /\ instancesOf'[r][p][j] = instancesOf[r][p][j]
          \/ /\ r = s /\ p = o /\ j - Len(instancesOf[s][o]) \in 1..Len(batch)
             /\ instancesOf'[r][p][j] = batch[j - Len(instancesOf[s][o])]
    <3> HIDE DEF n
    <3> QED BY RegisterPlaces
  <2>2. n = Len(instancesOf[s][o])
    OBVIOUS
  <2> HIDE DEF n
  <2>3. SUFFICES ASSUME NEW r \in Services, NEW p \in Operators, NEW j \in 1..Len(instancesOf'[r][p])
                 PROVE  \/ j \in 1..Len(instancesOf[r][p]) /\ instancesOf'[r][p][j] = instancesOf[r][p][j]
                        \/ r = s /\ p = o /\ j - n \in 1..Len(batch) /\ instancesOf'[r][p][j] = batch[j - n]
    OBVIOUS
  <2> QED BY <2>1, <2>2
<1> HIDE DEF n
<1>6. ASSUME NEW r \in Services, NEW p \in Operators, NEW j \in DOMAIN instancesOf'[r][p]
      PROVE  LET i == instancesOf'[r][p][j].instance
             IN  /\ operatorOf'[i] = p
                 /\ \A u \in Services : \A k \in DOMAIN instancesOf'[u][p] :
                      instancesOf'[u][p][k].instance = i => u = r /\ k = j
  <2> DEFINE i == instancesOf'[r][p][j].instance
  <2>1. j \in 1..Len(instancesOf'[r][p])
    BY <1>4
  <2>2. CASE j \in 1..Len(instancesOf[r][p]) /\ instancesOf'[r][p][j] = instancesOf[r][p][j]
    <3>1. i = instancesOf[r][p][j].instance
      BY <2>2
    <3>2. i \in Instances /\ operatorOf[i] = p /\ \A k \in 1..Len(batch) : batch[k].instance # i
      BY <1>4, <1>5, <2>2, <3>1
    <3>3. operatorOf'[i] = p
      BY <1>2, <1>3, <1>4, <3>2
    <3>4. ASSUME NEW u \in Services, NEW k \in DOMAIN instancesOf'[u][p],
                 instancesOf'[u][p][k].instance = i
          PROVE  u = r /\ k = j
      <4>1. k \in 1..Len(instancesOf'[u][p])
        BY <1>4
      <4>2. ~ (k - n \in 1..Len(batch) /\ instancesOf'[u][p][k] = batch[k - n])
        BY <3>2, <3>4
      <4>3. k \in 1..Len(instancesOf[u][p]) /\ instancesOf'[u][p][k] = instancesOf[u][p][k]
        BY <1>8, <4>1, <4>2
      <4>4. instancesOf[u][p][k].instance = i
        BY <3>4, <4>3
      <4> QED BY <1>1, <1>4, <2>2, <3>1, <4>3, <4>4 DEF RegisteredOnce
    <3> QED BY <3>3, <3>4
  <2>3. CASE r = s /\ p = o /\ j - n \in 1..Len(batch) /\ instancesOf'[r][p][j] = batch[j - n]
    <3>1. i = batch[j - n].instance /\ i \in Instances
      BY <1>2, <2>3
    <3>2. operatorOf'[i] = p
      BY <1>2, <1>3, <1>4, <2>3, <3>1
    <3>3. ASSUME NEW u \in Services, NEW k \in DOMAIN instancesOf'[u][p],
                 instancesOf'[u][p][k].instance = i
          PROVE  u = r /\ k = j
      <4>1. k \in 1..Len(instancesOf'[u][p])
        BY <1>4
      <4>2. ~ (k \in 1..Len(instancesOf[u][p]) /\ instancesOf'[u][p][k] = instancesOf[u][p][k])
        BY <1>5, <2>3, <3>1, <3>3
      <4>3. u = s /\ k - n \in 1..Len(batch) /\ instancesOf'[u][p][k] = batch[k - n]
        BY <1>8, <4>1, <4>2
      <4>4. k - n = j - n
        BY <1>2, <2>3, <3>1, <3>3, <4>3
      <4>5. k \in Int /\ j \in Int
        BY <2>1, <4>1
      <4> QED BY <1>2, <2>3, <4>3, <4>4, <4>5
    <3> QED BY <3>2, <3>3
  <2>4. \/ j \in 1..Len(instancesOf[r][p]) /\ instancesOf'[r][p][j] = instancesOf[r][p][j]
        \/ r = s /\ p = o /\ j - n \in 1..Len(batch) /\ instancesOf'[r][p][j] = batch[j - n]
    BY <1>8, <2>1
  <2> QED BY <2>2, <2>3, <2>4
<1>7. ASSUME NEW i \in DOMAIN operatorOf', operatorOf'[i] # NoOperator
      PROVE  \E u \in Services : \E k \in DOMAIN instancesOf'[u][operatorOf'[i]] :
               instancesOf'[u][operatorOf'[i]][k].instance = i
  <2>1. CASE \E k \in DOMAIN batch : batch[k].instance = i
    <3>1. PICK k \in 1..Len(batch) : batch[k].instance = i
      BY <1>2, <2>1
    <3>2. operatorOf'[i] = o
      BY <1>3, <1>4, <2>1
    <3>3. n + k \in 1..Len(instancesOf'[s][o]) /\ instancesOf'[s][o][n + k] = batch[k]
      <4>1. /\ instancesOf'[s][o] = instancesOf[s][o] \o batch
            /\ Len(instancesOf'[s][o]) = Len(instancesOf[s][o]) + Len(batch)
        BY RegisterPlaces
      <4>2. instancesOf[s][o] \in Seq(Registration)
        BY <1>1 DEF Types
      <4> QED BY <1>2, <4>1, <4>2 DEF n
    <3> QED BY <1>4, <3>1, <3>2, <3>3
  <2>2. CASE ~ \E k \in DOMAIN batch : batch[k].instance = i
    <3>1. operatorOf'[i] = operatorOf[i] /\ operatorOf[i] \in Operators
      BY <1>1, <1>3, <1>4, <1>7, <2>2 DEF Types
    <3>2. PICK u \in Services : \E k \in DOMAIN instancesOf[u][operatorOf[i]] :
            instancesOf[u][operatorOf[i]][k].instance = i
      BY <1>1, <1>4, <1>7, <3>1 DEF RegisteredOnce
    <3>3. PICK k \in 1..Len(instancesOf[u][operatorOf[i]]) :
            instancesOf[u][operatorOf[i]][k].instance = i
      BY <1>4, <3>1, <3>2
    <3>4. k \in 1..Len(instancesOf'[u][operatorOf[i]])
          /\ instancesOf'[u][operatorOf[i]][k] = instancesOf[u][operatorOf[i]][k]
      <4>1. CASE u = s /\ operatorOf[i] = o
        <5>1. /\ instancesOf'[s][o] = instancesOf[s][o] \o batch
              /\ Len(instancesOf'[s][o]) = Len(instancesOf[s][o]) + Len(batch)
          BY RegisterPlaces
        <5>2. instancesOf[s][o] \in Seq(Registration)
          BY <1>1 DEF Types
        <5> QED BY <1>2, <3>3, <4>1, <5>1, <5>2
      <4>2. CASE u # s \/ operatorOf[i] # o
        BY <3>1, <3>3, <4>2, RegisterPlaces
      <4> QED BY <4>1, <4>2
    <3> QED BY <1>4, <3>1, <3>3, <3>4
  <2> QED BY <2>1, <2>2
<1> QED BY <1>6, <1>7 DEF RegisteredOnce

\* Tables of balances that agree but for one operator's balance of one service.
LEMMA RowTotal ==
  ASSUME NEW f \in [Services -> [Operators -> Nat]], NEW g \in [Services -> [Operators -> Nat]],
         NEW s \in Services, NEW o \in Operators, \A p \in Operators : p # o => g[s][p] = f[s][p]
  PROVE  /\ Total(g[s], NumOperators) = Total(f[s], NumOperators) - f[s][o] + g[s][o]
         /\ Total(f[s], NumOperators) \in Int /\ f[s][o] \in Nat /\ g[s][o] \in Nat
<1>1. NumOperators \in Nat /\ Operators = 1..NumOperators
  BY ServiceAssumption DEF Operators
<1>2. /\ f[s] \in [1..NumOperators -> Int] /\ g[s] \in [1..NumOperators -> Int]
      /\ f[s][o] \in Nat /\ g[s][o] \in Nat
  BY <1>1
<1>3. Total(f[s], NumOperators) \in Int
  BY <1>1, <1>2, TotalType
<1>4. Total(g[s], NumOperators) = Total(f[s], NumOperators) - f[s][o] + g[s][o]
  BY <1>1, <1>2, OneChanges
<1> QED BY <1>2, <1>3, <1>4

LEMMA RegisterStep ==
  ASSUME Inv, NEW o \in Operators, NEW s \in Services, NEW batch \in Batches, NEW value,
         registerAgents(o, s, batch, value)
  PROVE  Inv'
<1>1. Types /\ FundsHeld /\ BalancesAreBonds /\ InstancesCounted /\ Types' /\ RegisteredOnce'
  BY RegisterTypes, RegisterOnce DEF Inv
<1> DEFINE b == BondSum(Bonds(s), batch)
           c == BondSum(agentBond[s], batch)
<1>2. /\ batch \in Seq(Registration) /\ Len(batch) \in Nat /\ b \in Nat /\ c \in Nat
      /\ state[s] = "ActiveRegistration"
      /\ instancesOf' = [instancesOf EXCEPT ![s] = [instancesOf[s] EXCEPT ![o] = instancesOf[s][o] \o batch]]
      /\ balance' = [balance EXCEPT ![s] = [balance[s] EXCEPT ![o] = balance[s][o] + b]]
      /\ held' = held + b
      /\ numAgentInstances' = [numAgentInstances EXCEPT ![s] = @ + Len(batch)]
  BY RegisterFacts
<1>3. state' = [state EXCEPT ![s] =
        IF numAgentInstances[s] + Len(batch) = maxNumAgentInstances[s]
        THEN "FinishedRegistration" ELSE "ActiveRegistration"]
  BY RegisterFacts
<1>4. /\ securityDeposit' = securityDeposit /\ maxNumAgentInstances' = maxNumAgentInstances
      /\ agentParams' = agentParams /\ slashedFunds' = slashedFunds
      /\ tokenOf' = tokenOf /\ tokenDeposit' = tokenDeposit /\ agentBond' = agentBond
      /\ tokenSlashed' = tokenSlashed
  BY RegisterFacts DEF listVars
<1>5. IF Secured(s)
      THEN /\ tokenBalance' = [tokenBalance EXCEPT ![s] =
                                 [tokenBalance[s] EXCEPT ![o] = tokenBalance[s][o] + c]]
           /\ tokenHeld' = [tokenHeld EXCEPT ![tokenOf[s]] = @ + c]
      ELSE UNCHANGED <<tokenBalance, tokenHeld>>
  BY RegisterFacts
<1> HIDE DEF b, c
<1>6. /\ balance[s][o] + b \in Nat /\ tokenBalance[s][o] + c \in Nat
      /\ instancesOf[s][o] \in Seq(Registration)
      /\ numAgentInstances[s] \in Nat /\ maxNumAgentInstances[s] \in Nat
      /\ held \in Int /\ slashedFunds \in Int /\ securityDeposit[s] \in Int /\ tokenDeposit[s] \in Int
      /\ tokenHeld \in [Tokens -> Int] /\ tokenSlashed \in [Tokens -> Int]
      /\ balance \in [Services -> [Operators -> Nat]] /\ tokenBalance \in [Services -> [Operators -> Nat]]
  <2>1. /\ balance \in [Services -> [Operators -> Nat]] /\ tokenBalance \in [Services -> [Operators -> Nat]]
        /\ instancesOf \in [Services -> [Operators -> Seq(Registration)]]
        /\ numAgentInstances[s] \in Nat /\ maxNumAgentInstances[s] \in Nat
        /\ held \in Int /\ slashedFunds \in Int /\ securityDeposit[s] \in Int /\ tokenDeposit[s] \in Int
        /\ tokenHeld \in [Tokens -> Int] /\ tokenSlashed \in [Tokens -> Int]
    BY <1>1 DEF Types
  <2>2. balance[s][o] \in Nat /\ tokenBalance[s][o] \in Nat
    BY <2>1
  <2>3. instancesOf[s][o] \in Seq(Registration)
    BY <2>1
  <2>4. b \in Nat /\ c \in Nat
    BY <1>2
  <2>5. balance[s][o] + b \in Nat /\ tokenBalance[s][o] + c \in Nat
    BY <2>2, <2>4
  <2> QED BY <2>1, <2>3, <2>5, Zenon
<1>7. /\ \A r \in Services : r # s => balance'[r] = balance[r]
      /\ \A p \in Operators : p # o => balance'[s][p] = balance[s][p]
      /\ balance'[s][o] = balance[s][o] + b
      /\ Total(balance'[s], NumOperators) = Total(balance[s], NumOperators) + b
      /\ Total(balance[s], NumOperators) \in Int
  <2>1. balance[s][o] + b \in Nat /\ balance \in [Services -> [Operators -> Nat]]
    BY <1>6
  <2>2. balance' = [balance EXCEPT ![s] = [balance[s] EXCEPT ![o] = balance[s][o] + b]]
    BY <1>2
  <2>3. /\ balance' \in [Services -> [Operators -> Nat]]
        /\ \A r \in Services : r # s => balance'[r] = balance[r]
        /\ \A p \in Operators : p # o => balance'[s][p] = balance[s][p]
        /\ balance'[s][o] = balance[s][o] + b
    BY <2>1, <2>2
  <2>4. /\ Total(balance'[s], NumOperators) = Total(balance[s], NumOperators) - balance[s][o] + balance'[s][o]
        /\ Total(balance[s], NumOperators) \in Int /\ balance[s][o] \in Nat
    BY <2>1, <2>3, RowTotal
  <2> QED BY <1>2, <2>3, <2>4
<1>8. ASSUME Secured(s)
      PROVE  /\ \A r \in Services : r # s => tokenBalance'[r] = tokenBalance[r]
             /\ \A p \in Operators : p # o => tokenBalance'[s][p] = tokenBalance[s][p]
             /\ tokenBalance'[s][o] = tokenBalance[s][o] + c
             /\ Total(tokenBalance'[s], NumOperators) = Total(tokenBalance[s], NumOperators) + c
             /\ Total(tokenBalance[s], NumOperators) \in Int
  <2>1. tokenBalance[s][o] + c \in Nat /\ tokenBalance \in [Services -> [Operators -> Nat]]
    BY <1>6
  <2>2. tokenBalance' = [tokenBalance EXCEPT ![s] = [tokenBalance[s] EXCEPT ![o] = tokenBalance[s][o] + c]]
    BY <1>5, <1>8
  <2>3. /\ tokenBalance' \in [Services -> [Operators -> Nat]]
        /\ \A r \in Services : r # s => tokenBalance'[r] = tokenBalance[r]
        /\ \A p \in Operators : p # o => tokenBalance'[s][p] = tokenBalance[s][p]
        /\ tokenBalance'[s][o] = tokenBalance[s][o] + c
    BY <2>1, <2>2
  <2>4. /\ Total(tokenBalance'[s], NumOperators) = Total(tokenBalance[s], NumOperators) - tokenBalance[s][o] + tokenBalance'[s][o]
        /\ Total(tokenBalance[s], NumOperators) \in Int /\ tokenBalance[s][o] \in Nat
    BY <2>1, <2>3, RowTotal
  <2> QED BY <1>2, <2>3, <2>4
<1>9. /\ \A r \in Services : r # s => /\ state'[r] = state[r] /\ instancesOf'[r] = instancesOf[r]
                                      /\ numAgentInstances'[r] = numAgentInstances[r]
      /\ instancesOf'[s][o] = instancesOf[s][o] \o batch
      /\ \A p \in Operators : p # o => instancesOf'[s][p] = instancesOf[s][p]
      /\ numAgentInstances'[s] = numAgentInstances[s] + Len(batch)
      /\ state'[s] = IF numAgentInstances[s] + Len(batch) = maxNumAgentInstances[s]
                     THEN "FinishedRegistration" ELSE "ActiveRegistration"
  <2>1. /\ state \in [Services -> States] /\ instancesOf \in [Services -> [Operators -> Seq(Registration)]]
        /\ numAgentInstances \in [Services -> Nat]
    BY <1>1 DEF Types
  <2>2. /\ \A r \in Services : r # s => instancesOf'[r] = instancesOf[r]
        /\ instancesOf'[s][o] = instancesOf[s][o] \o batch
        /\ \A p \in Operators : p # o => instancesOf'[s][p] = instancesOf[s][p]
    BY <1>2, <2>1
  <2>3. /\ \A r \in Services : r # s => numAgentInstances'[r] = numAgentInstances[r]
        /\ numAgentInstances'[s] = numAgentInstances[s] + Len(batch)
    BY <1>2, <2>1
  <2>4. /\ \A r \in Services : r # s => state'[r] = state[r]
        /\ state'[s] = IF numAgentInstances[s] + Len(batch) = maxNumAgentInstances[s]
                       THEN "FinishedRegistration" ELSE "ActiveRegistration"
    BY <1>3, <2>1
  <2> QED BY <2>2, <2>3, <2>4
<1>10. Elsewhere(s)
  <2>1. \A r \in Services : r # s => tokenBalance'[r] = tokenBalance[r]
    BY <1>5, <1>8
  <2> QED BY <1>4, <1>7, <1>9, <2>1 DEF Elsewhere
<1>11. FundsHeld'
  <2>1. Activated(s) /\ Activated(s)'
    BY <1>2, <1>9 DEF Activated
  <2>2. held' - slashedFunds' - Claim(s)' = held - slashedFunds - Claim(s)
    <3>1. Claim(s) = securityDeposit[s] + Total(balance[s], NumOperators)
      BY <2>1 DEF Claim
    <3>2. Claim(s)' = securityDeposit[s] + Total(balance'[s], NumOperators)
      BY <1>4, <2>1 DEF Claim
    <3> QED BY <1>2, <1>4, <1>6, <1>7, <3>1, <3>2
  <2>3. ASSUME NEW t \in Tokens
        PROVE  tokenHeld'[t] - tokenSlashed'[t] - TokenClaim(t, s)' =
                 tokenHeld[t] - tokenSlashed[t] - TokenClaim(t, s)
    <3>1. CASE tokenOf[s] = t
      <4>1. Secured(s)
        BY <3>1, TokenAssumption DEF Secured
      <4>2. TokenClaim(t, s) = tokenDeposit[s] + Total(tokenBalance[s], NumOperators)
        BY <2>1, <3>1 DEF TokenClaim
      <4>3. TokenClaim(t, s)' = tokenDeposit[s] + Total(tokenBalance'[s], NumOperators)
        BY <1>4, <2>1, <3>1 DEF TokenClaim
      <4>4. tokenHeld'[t] = tokenHeld[t] + c /\ tokenSlashed'[t] = tokenSlashed[t]
        BY <1>4, <1>5, <1>6, <3>1, <4>1
      <4>5. /\ Total(tokenBalance'[s], NumOperators) = Total(tokenBalance[s], NumOperators) + c
            /\ Total(tokenBalance[s], NumOperators) \in Int /\ c \in Int /\ tokenDeposit[s] \in Int
            /\ tokenHeld[t] \in Int /\ tokenSlashed[t] \in Int
        BY <1>2, <1>6, <1>8, <4>1
      <4> QED BY <4>2, <4>3, <4>4, <4>5
    <3>2. CASE tokenOf[s] # t
      <4>1. TokenClaim(t, s) = 0 /\ TokenClaim(t, s)' = 0
        BY <1>4, <3>2 DEF TokenClaim
      <4>2. tokenHeld'[t] = tokenHeld[t] /\ tokenSlashed'[t] = tokenSlashed[t]
        BY <1>4, <1>5, <1>6, <3>2
      <4> QED BY <4>1, <4>2
    <3> QED BY <3>1, <3>2
  <2> QED BY <1>1, <1>10, <2>2, <2>3, FundsStep
<1>12. BalancesAreBonds'
  <2> SUFFICES ASSUME NEW p \in Operators
               PROVE  BalanceAgrees(s, p)'
    BY <1>1, <1>10, BalancesStep
  <2>1. Bonds(s)' = Bonds(s) /\ agentBond'[s] = agentBond[s] /\ Secured(s)' = Secured(s)
    BY <1>4 DEF Bonds, Secured
  <2>2. /\ balance[s][p] = BondSum(Bonds(s), instancesOf[s][p])
        /\ tokenBalance[s][p] = IF Secured(s) THEN BondSum(agentBond[s], instancesOf[s][p]) ELSE 0
    BY <1>1, <1>2 DEF BalancesAreBonds, BalanceAgrees
  <2>3. CASE p = o
    <3>1. Bonds(s) \in [AgentIds -> Nat] /\ agentBond[s] \in [AgentIds -> Nat]
      BY <1>1, BondsType
    <3>2. BondSum(Bonds(s), instancesOf[s][o] \o batch) = BondSum(Bonds(s), instancesOf[s][o]) + b
      BY <1>2, <1>6, <3>1, BondSumConcat DEF b
    <3>3. BondSum(agentBond[s], instancesOf[s][o] \o batch) = BondSum(agentBond[s], instancesOf[s][o]) + c
      BY <1>2, <1>6, <3>1, BondSumConcat DEF c
    <3>4. balance'[s][o] = BondSum(Bonds(s)', instancesOf'[s][o])
      BY <1>7, <1>9, <2>1, <2>2, <2>3, <3>2
    <3>5. tokenBalance'[s][o] = IF Secured(s)' THEN BondSum(agentBond'[s], instancesOf'[s][o]) ELSE 0
      <4>1. CASE Secured(s)
        BY <1>8, <1>9, <2>1, <2>2, <2>3, <3>3, <4>1
      <4>2. CASE ~ Secured(s)
        BY <1>5, <2>1, <2>2, <2>3, <4>2
      <4> QED BY <4>1, <4>2
    <3>6. balance'[s][o] \in Nat /\ tokenBalance'[s][o] \in Nat
      BY <1>1 DEF Types
    <3> QED BY <2>3, <3>4, <3>5, <3>6 DEF BalanceAgrees
  <2>4. CASE p # o
    <3>1. balance'[s][p] = BondSum(Bonds(s)', instancesOf'[s][p])
      BY <1>7, <1>9, <2>1, <2>2, <2>4
    <3>2. tokenBalance'[s][p] = IF Secured(s)' THEN BondSum(agentBond'[s], instancesOf'[s][p]) ELSE 0
      BY <1>5, <1>8, <1>9, <2>1, <2>2, <2>4
    <3>3. balance'[s][p] \in Nat /\ tokenBalance'[s][p] \in Nat
      BY <1>1 DEF Types
    <3> QED BY <3>1, <3>2, <3>3 DEF BalanceAgrees
  <2> QED BY <2>3, <2>4
<1>13. Counted(s)'
  <2> DEFINE f == [p \in Operators |-> Len(instancesOf[s][p])]
             g == [p \in Operators |-> Len(instancesOf'[s][p])]
  <2>1. NumOperators \in Nat /\ Operators = 1..NumOperators
    BY ServiceAssumption DEF Operators
  <2>2. f \in [1..NumOperators -> Int] /\ g \in [1..NumOperators -> Int]
    BY <1>1, <2>1 DEF Types
  <2>3. g[o] = f[o] + Len(batch) /\ \A p \in 1..NumOperators : p # o => g[p] = f[p]
    <3>1. instancesOf'[s][o] = instancesOf[s][o] \o batch
      BY <1>9
    <3>2. Len(instancesOf'[s][o]) = Len(instancesOf[s][o]) + Len(batch)
      BY RegisterPlaces
    <3>3. \A p \in Operators : p # o => instancesOf'[s][p] = instancesOf[s][p]
      BY <1>9
    <3> QED BY <2>1, <3>2, <3>3
  <2>4. numAgentInstances[s] = Total(f, NumOperators)
    BY <1>1 DEF InstancesCounted, Counted
  <2> HIDE DEF f, g
  <2>5. Total(g, NumOperators) = Total(f, NumOperators) - f[o] + g[o] /\ Total(f, NumOperators) \in Int
    BY <2>1, <2>2, <2>3, OneChanges, TotalType
  <2>6. f[o] \in Int
    BY <2>1, <2>2
  <2>7. numAgentInstances'[s] = Total(g, NumOperators)
    BY <1>2, <1>9, <2>3, <2>4, <2>5, <2>6
  <2> QED BY <1>4, <1>9, <2>7 DEF Counted, g
<1> QED BY <1>1, <1>10, <1>11, <1>12, <1>13, CountsStep DEF Inv

-----------------------------------------------------------------------------
(* Slashing and draining                                                     *)

\* A step that leaves the registrations of all services as they are.
LEMMA RegisteredStays ==
  ASSUME InstancesCounted,
         UNCHANGED <<state, maxNumAgentInstances, numAgentInstances, instancesOf, operatorOf>>
  PROVE  InstancesCounted'
<1>1. \A s \in Services : Counted(s)'
  BY DEF InstancesCounted, Counted
<1>2. RegisteredOnce'
  BY DEF InstancesCounted, RegisteredOnce
<1> QED BY <1>1, <1>2 DEF InstancesCounted

LEMMA SlashStep ==
  ASSUME Inv, NEW s \in Services, NEW i \in Instances, NEW amount \in Amounts, slash(s, i, amount)
  PROVE  Inv'
<1>1. Types /\ FundsHeld /\ BalancesAreBonds /\ InstancesCounted
  BY DEF Inv
<1> DEFINE o == operatorOf[i]
           x == Least(amount, balance[s][o])
<1>2. /\ state[s] = "Deployed" /\ o # NoOperator
      /\ slashedFunds' = slashedFunds + x
      /\ balance' = [balance EXCEPT ![s][o] = @ - x]
      /\ UNCHANGED <<state, listVars, instanceVars, held, tokenVars>>
  BY DEF slash, Slash
<1>3. o \in Operators /\ amount \in Nat
  BY <1>1, <1>2, ServiceAssumption DEF Types
<1>4. balance \in [Services -> [Operators -> Nat]] /\ balance[s][o] \in Nat
  BY <1>1, <1>3 DEF Types
<1>5. x \in Nat /\ x <= balance[s][o] /\ balance[s][o] - x \in Nat
  BY <1>3, <1>4 DEF Least
<1>6. balance' = [balance EXCEPT ![s] = [balance[s] EXCEPT ![o] = balance[s][o] - x]]
  BY <1>2, <1>4
<1> HIDE DEF x, o
<1>7. /\ balance' \in [Services -> [Operators -> Nat]]
      /\ \A r \in Services : r # s => balance'[r] = balance[r]
      /\ \A p \in Operators : p # o => balance'[s][p] = balance[s][p]
      /\ balance'[s][o] = balance[s][o] - x
  BY <1>3, <1>4, <1>5, <1>6
<1>8. Types'
  <2>1. slashedFunds' \in Nat
    BY <1>1, <1>2, <1>5 DEF Types
  <2> QED BY <1>1, <1>2, <1>7, <2>1 DEF Types, listVars, instanceVars, tokenVars
<1>9. Elsewhere(s)
  BY <1>2, <1>7 DEF Elsewhere, listVars, instanceVars, tokenVars
<1>10. FundsHeld'
  <2>1. /\ Total(balance'[s], NumOperators) = Total(balance[s], NumOperators) - balance[s][o] + balance'[s][o]
        /\ Total(balance[s], NumOperators) \in Int
    BY <1>3, <1>4, <1>7, RowTotal
  <2>2. Activated(s) /\ Activated(s)'
    BY <1>2 DEF Activated
  <2>3. Claim(s) = securityDeposit[s] + Total(balance[s], NumOperators)
    BY <2>2 DEF Claim
  <2>4. Claim(s)' = securityDeposit[s] + Total(balance'[s], NumOperators)
    BY <1>2, <2>2 DEF Claim, listVars
  <2>5. securityDeposit[s] \in Int /\ slashedFunds \in Int /\ held \in Int
    BY <1>1 DEF Types
  <2>6. held' - slashedFunds' - Claim(s)' = held - slashedFunds - Claim(s)
    BY <1>2, <1>4, <1>5, <1>7, <2>1, <2>3, <2>4, <2>5
  <2>7. \A t \in Tokens : TokenClaim(t, s)' = TokenClaim(t, s)
    BY <1>2 DEF TokenClaim, Activated, tokenVars
  <2>8. tokenHeld' = tokenHeld /\ tokenSlashed' = tokenSlashed
    BY <1>2 DEF tokenVars
  <2> QED BY <1>1, <1>8, <1>9, <2>6, <2>7, <2>8, FundsStep
<1>11. BalancesAreBonds'
  <2> SUFFICES ASSUME NEW p \in Operators
               PROVE  BalanceAgrees(s, p)'
    BY <1>1, <1>9, BalancesStep
  <2>1. /\ Bonds(s)' = Bonds(s) /\ Secured(s)' = Secured(s)
        /\ agentBond' = agentBond /\ instancesOf' = instancesOf /\ tokenBalance' = tokenBalance
    BY <1>2 DEF Bonds, Secured, listVars, instanceVars, tokenVars
  <2>2. balance'[s][p] <= balance[s][p] /\ balance[s][p] \in Nat /\ balance'[s][p] \in Nat
    BY <1>4, <1>5, <1>7
  <2>3. /\ balance[s][p] <= BondSum(Bonds(s), instancesOf[s][p])
        /\ tokenBalance[s][p] <= IF Secured(s) THEN BondSum(agentBond[s], instancesOf[s][p]) ELSE 0
    BY <1>1 DEF BalancesAreBonds, BalanceAgrees
  <2>4. BondSum(Bonds(s), instancesOf[s][p]) \in Nat
    <3>1. instancesOf[s][p] \in Seq(Registration) /\ Bonds(s) \in [AgentIds -> Nat]
      BY <1>1, BondsType DEF Types
    <3> QED BY <3>1, BondSumType
  <2>5. state'[s] = "Deployed"
    BY <1>2
  <2> QED BY <2>1, <2>2, <2>3, <2>4, <2>5 DEF BalanceAgrees
<1>12. InstancesCounted'
  BY <1>1, <1>2, RegisteredStays DEF listVars, instanceVars
<1> QED BY <1>8, <1>10, <1>11, <1>12 DEF Inv

LEMMA SlashTokensStep ==
  ASSUME Inv, NEW s \in Services, NEW i \in Instances, NEW amount \in Amounts,
         slashTokens(s, i, amount)
  PROVE  Inv'
<1>1. Types /\ FundsHeld /\ BalancesAreBonds /\ InstancesCounted
  BY DEF Inv
<1> DEFINE o == operatorOf[i]
           x == Least(amount, tokenBalance[s][o])
           u == tokenOf[s]
<1>2. /\ state[s] = "Deployed" /\ o # NoOperator /\ Secured(s)
      /\ tokenSlashed' = [tokenSlashed EXCEPT ![u] = @ + x]
      /\ tokenBalance' = [tokenBalance EXCEPT ![s][o] = @ - x]
      /\ UNCHANGED <<lifeVars, tokenOf, tokenDeposit, agentBond, tokenHeld>>
  BY DEF slashTokens, SlashTokens
<1>3. o \in Operators /\ amount \in Nat /\ u \in Tokens
  BY <1>1, <1>2, ServiceAssumption DEF Types, Secured
<1>4. tokenBalance \in [Services -> [Operators -> Nat]] /\ tokenBalance[s][o] \in Nat
  BY <1>1, <1>3 DEF Types
<1>5. x \in Nat /\ x <= tokenBalance[s][o] /\ tokenBalance[s][o] - x \in Nat
  BY <1>3, <1>4 DEF Least
<1>6. tokenBalance' = [tokenBalance EXCEPT ![s] = [tokenBalance[s] EXCEPT ![o] = tokenBalance[s][o] - x]]
  BY <1>2, <1>4
<1>7. /\ UNCHANGED <<state, listVars, instanceVars, fundVars>>
      /\ u = tokenOf[s]
  BY <1>2 DEF lifeVars
<1> HIDE DEF x, o, u
<1>8. /\ tokenBalance' \in [Services -> [Operators -> Nat]]
      /\ \A r \in Services : r # s => tokenBalance'[r] = tokenBalance[r]
      /\ \A p \in Operators : p # o => tokenBalance'[s][p] = tokenBalance[s][p]
      /\ tokenBalance'[s][o] = tokenBalance[s][o] - x
  BY <1>3, <1>4, <1>5, <1>6
<1>9. /\ tokenSlashed' \in [Tokens -> Nat] /\ tokenSlashed'[u] = tokenSlashed[u] + x
      /\ \A t \in Tokens : t # u => tokenSlashed'[t] = tokenSlashed[t]
  <2>1. tokenSlashed \in [Tokens -> Nat] /\ tokenSlashed[u] + x \in Nat
    BY <1>1, <1>3, <1>5 DEF Types
  <2> QED BY <1>2, <1>3, <2>1
<1>10. Types'
  BY <1>1, <1>2, <1>7, <1>8, <1>9 DEF Types, listVars, instanceVars, fundVars
<1>11. Elsewhere(s)
  BY <1>2, <1>7, <1>8 DEF Elsewhere, listVars, instanceVars, fundVars
<1>12. FundsHeld'
  <2>1. /\ Total(tokenBalance'[s], NumOperators)
             = Total(tokenBalance[s], NumOperators) - tokenBalance[s][o] + tokenBalance'[s][o]
        /\ Total(tokenBalance[s], NumOperators) \in Int
    BY <1>3, <1>4, <1>8, RowTotal
  <2>2. Activated(s) /\ Activated(s)'
    BY <1>2, <1>7 DEF Activated
  <2>3. held' = held /\ slashedFunds' = slashedFunds /\ Claim(s)' = Claim(s)
    BY <1>7, <2>2 DEF Claim, listVars, fundVars
  <2>4. ASSUME NEW t \in Tokens
        PROVE  tokenHeld'[t] - tokenSlashed'[t] - TokenClaim(t, s)' =
                 tokenHeld[t] - tokenSlashed[t] - TokenClaim(t, s)
    <3>1. tokenHeld[t] \in Int /\ tokenSlashed[t] \in Int /\ tokenDeposit[s] \in Int
      BY <1>1 DEF Types
    <3>2. CASE t = u
      <4>1. TokenClaim(t, s) = tokenDeposit[s] + Total(tokenBalance[s], NumOperators)
        BY <1>7, <2>2, <3>2 DEF TokenClaim
      <4>2. TokenClaim(t, s)' = tokenDeposit[s] + Total(tokenBalance'[s], NumOperators)
        BY <1>2, <1>7, <2>2, <3>2 DEF TokenClaim
      <4> QED BY <1>2, <1>4, <1>5, <1>8, <1>9, <2>1, <3>1, <3>2, <4>1, <4>2
    <3>3. CASE t # u
      BY <1>2, <1>7, <1>9, <3>3 DEF TokenClaim
    <3> QED BY <3>2, <3>3
  <2> QED BY <1>1, <1>10, <1>11, <2>3, <2>4, FundsStep
<1>13. BalancesAreBonds'
  <2> SUFFICES ASSUME NEW p \in Operators
               PROVE  BalanceAgrees(s, p)'
    BY <1>1, <1>11, BalancesStep
  <2>1. /\ Bonds(s)' = Bonds(s) /\ Secured(s)'
        /\ agentBond' = agentBond /\ instancesOf' = instancesOf /\ balance' = balance
    BY <1>2, <1>7 DEF Bonds, Secured, listVars, instanceVars, fundVars
  <2>2. /\ tokenBalance'[s][p] <= tokenBalance[s][p]
        /\ tokenBalance[s][p] \in Nat /\ tokenBalance'[s][p] \in Nat
    BY <1>4, <1>5, <1>8
  <2>3. /\ balance[s][p] <= BondSum(Bonds(s), instancesOf[s][p])
        /\ tokenBalance[s][p] <= BondSum(agentBond[s], instancesOf[s][p])
    BY <1>1, <1>2 DEF BalancesAreBonds, BalanceAgrees
  <2>4. BondSum(agentBond[s], instancesOf[s][p]) \in Nat
    <3>1. instancesOf[s][p] \in Seq(Registration) /\ agentBond[s] \in [AgentIds -> Nat]
      BY <1>1, BondsType DEF Types
    <3> QED BY <3>1, BondSumType
  <2>5. state'[s] = "Deployed"
    BY <1>2, <1>7
  <2> QED BY <2>1, <2>2, <2>3, <2>4, <2>5 DEF BalanceAgrees
<1>14. InstancesCounted'
  BY <1>1, <1>7, RegisteredStays DEF listVars, instanceVars
<1> QED BY <1>10, <1>12, <1>13, <1>14 DEF Inv

\* A step that moves slashed funds and nothing else.
LEMMA DrainsStep ==
  ASSUME Inv,
         UNCHANGED <<state, listVars, instanceVars, balance, tokenOf, tokenDeposit, agentBond, tokenBalance>>,
         held' \in Int, slashedFunds' \in Nat, held' - slashedFunds' = held - slashedFunds,
         tokenHeld' \in [Tokens -> Int], tokenSlashed' \in [Tokens -> Nat],
         \A t \in Tokens : tokenHeld'[t] - tokenSlashed'[t] = tokenHeld[t] - tokenSlashed[t]
  PROVE  Inv'
<1>1. Types /\ FundsHeld /\ BalancesAreBonds /\ InstancesCounted
  BY DEF Inv
<1>2. Types'
  BY <1>1 DEF Types, listVars, instanceVars
<1>3. FundsHeld'
  <2>1. Claims' = Claims /\ \A t \in Tokens : TokenClaims(t)' = TokenClaims(t)
    BY DEF Claims, TokenClaims, Claim, TokenClaim, Activated, listVars
  <2>2. /\ NumServices \in Nat /\ Claims \in [1..NumServices -> Int]
        /\ \A t \in Tokens : TokenClaims(t) \in [1..NumServices -> Int]
    BY <1>1, ServiceAssumption, ClaimType DEF Services, Claims, TokenClaims
  <2>3. /\ Total(Claims, NumServices) \in Int
        /\ \A t \in Tokens : Total(TokenClaims(t), NumServices) \in Int
    BY <2>2, TotalType
  <2>4. held' = slashedFunds' + Total(Claims', NumServices)
    BY <1>1, <1>2, <2>1, <2>3 DEF FundsHeld, Types
  <2>5. ASSUME NEW t \in Tokens
        PROVE  tokenHeld'[t] = tokenSlashed'[t] + Total(TokenClaims(t)', NumServices)
    <3>1. tokenHeld[t] = tokenSlashed[t] + Total(TokenClaims(t), NumServices)
      BY <1>1 DEF FundsHeld
    <3>2. /\ tokenHeld[t] \in Int /\ tokenHeld'[t] \in Int
          /\ tokenSlashed[t] \in Int /\ tokenSlashed'[t] \in Int
      BY <1>1, <1>2 DEF Types
    <3> QED BY <2>1, <2>3, <3>1, <3>2
  <2> QED BY <2>4, <2>5 DEF FundsHeld
<1>4. BalancesAreBonds'
  BY <1>1 DEF BalancesAreBonds, BalanceAgrees, Bonds, Secured, listVars, instanceVars
<1>5. InstancesCounted'
  BY <1>1, RegisteredStays DEF listVars, instanceVars
<1> QED BY <1>2, <1>3, <1>4, <1>5 DEF Inv

LEMMA DrainStep ==
  ASSUME Inv, drain
  PROVE  Inv'
<1>1. /\ UNCHANGED <<state, listVars, instanceVars, balance, tokenVars>>
      /\ slashedFunds' = 0 /\ held' = held - slashedFunds
  BY DEF drain, Drain
<1>2. /\ held \in Int /\ slashedFunds \in Nat
      /\ tokenHeld \in [Tokens -> Int] /\ tokenSlashed \in [Tokens -> Nat]
  BY DEF Inv, Types
<1>3. held' \in Int /\ slashedFunds' \in Nat /\ held' - slashedFunds' = held - slashedFunds
  BY <1>1, <1>2
<1>4. UNCHANGED <<tokenOf, tokenDeposit, agentBond, tokenBalance, tokenSlashed, tokenHeld>>
  BY <1>1 DEF tokenVars
<1> QED BY <1>1, <1>2, <1>3, <1>4, DrainsStep

LEMMA DrainTokenStep ==
  ASSUME Inv, NEW t \in Tokens, drainToken(t)
  PROVE  Inv'
<1>1. /\ UNCHANGED <<lifeVars, tokenOf, tokenDeposit, agentBond, tokenBalance>>
      /\ tokenSlashed' = [tokenSlashed EXCEPT ![t] = 0]
      /\ tokenHeld' = [tokenHeld EXCEPT ![t] = @ - tokenSlashed[t]]
  BY DEF drainToken, DrainToken
<1>2. /\ held \in Int /\ slashedFunds \in Nat
      /\ tokenHeld \in [Tokens -> Int] /\ tokenSlashed \in [Tokens -> Nat]
  BY DEF Inv, Types
<1>3. /\ UNCHANGED <<state, listVars, instanceVars, balance>> /\ held' = held
      /\ slashedFunds' = slashedFunds
  BY <1>1 DEF lifeVars, fundVars
<1>4. tokenHeld' \in [Tokens -> Int] /\ tokenSlashed' \in [Tokens -> Nat]
  BY <1>1, <1>2
<1>5. \A u \in Tokens : tokenHeld'[u] - tokenSlashed'[u] = tokenHeld[u] - tokenSlashed[u]
  BY <1>1, <1>2
<1> QED BY <1>1, <1>2, <1>3, <1>4, <1>5, DrainsStep

-----------------------------------------------------------------------------
(* Unbonding                                                                 *)

\* A service without instances has no registrations of any operator.
LEMMA NoneRegistered ==
  ASSUME NEW L \in [Operators -> Seq(Registration)],
         Total([p \in Operators |-> Len(L[p])], NumOperators) = 0
  PROVE  \A p \in Operators : L[p] = <<>>
<1> DEFINE f == [p \in Operators |-> Len(L[p])]
<1>1. NumOperators \in Nat /\ Operators = 1..NumOperators /\ f \in [1..NumOperators -> Nat]
  BY ServiceAssumption DEF Operators
<1>2. ASSUME NEW p \in Operators
      PROVE  L[p] = <<>>
  <2>1. f[p] = Len(L[p]) /\ L[p] \in Seq(Registration) /\ Total(f, NumOperators) = 0
    OBVIOUS
  <2> HIDE DEF f
  <2>2. f[p] <= 0 /\ f[p] \in Nat
    BY <1>1, <2>1, TotalNonNegative
  <2> QED BY <2>1, <2>2
<1> QED BY <1>2

\* An operator's instances are given up, and only these.
LEMMA UnbondOnce ==
  ASSUME Types, Types', RegisteredOnce, NEW o \in Operators, NEW s \in Services,
         instancesOf' = [instancesOf EXCEPT ![s] = [instancesOf[s] EXCEPT ![o] = <<>>]],
         operatorOf' = [i \in DOMAIN operatorOf |->
           IF i \in {instancesOf[s][o][k].instance : k \in DOMAIN instancesOf[s][o]}
           THEN NoOperator ELSE operatorOf[i]]
  PROVE  RegisteredOnce'
<1> DEFINE mine == {instancesOf[s][o][k].instance : k \in DOMAIN instancesOf[s][o]}
<1>1. /\ instancesOf \in [Services -> [Operators -> Seq(Registration)]]
      /\ operatorOf \in [Instances \cup Operators -> Operators \cup {NoOperator}]
      /\ \A p \in Operators : p # NoOperator
  <2>1. /\ instancesOf \in [Services -> [Operators -> Seq(Registration)]]
        /\ operatorOf \in [Instances \cup Operators -> Operators \cup {NoOperator}]
    BY DEF Types
  <2>2. \A p \in Operators : p # NoOperator
    BY DEF Operators, NoOperator
  <2> QED BY <2>1, <2>2
<1>2. /\ instancesOf'[s][o] = <<>> /\ DOMAIN instancesOf'[s][o] = {}
      /\ \A r \in Services, p \in Operators : r # s \/ p # o => instancesOf'[r][p] = instancesOf[r][p]
  <2> DEFINE S == Seq(Registration)
  <2>1. instancesOf \in [Services -> [Operators -> S]]
    BY <1>1
  <2> HIDE DEF S
  <2>2. /\ instancesOf'[s] = [instancesOf[s] EXCEPT ![o] = <<>>]
        /\ \A r \in Services : r # s => instancesOf'[r] = instancesOf[r]
        /\ instancesOf[s] \in [Operators -> S]
    BY <2>1
  <2>3. /\ instancesOf'[s][o] = <<>>
        /\ \A p \in Operators : p # o => instancesOf'[s][p] = instancesOf[s][p]
    BY <2>2
  <2>4. DOMAIN <<>> = {}
    OBVIOUS
  <2> QED BY <2>2, <2>3, <2>4
<1>3. \A r \in Services, p \in Operators : \A j \in DOMAIN instancesOf[r][p] :
        instancesOf[r][p][j].instance \in DOMAIN operatorOf
  <2> SUFFICES ASSUME NEW r \in Services, NEW p \in Operators, NEW j \in DOMAIN instancesOf[r][p]
               PROVE  instancesOf[r][p][j].instance \in DOMAIN operatorOf
    OBVIOUS
  <2>1. instancesOf[r][p] \in Seq(Registration)
    BY <1>1
  <2>2. instancesOf[r][p][j] \in Registration
    BY <2>1
  <2> QED BY <1>1, <2>2 DEF Registration
<1>4. \A i \in DOMAIN operatorOf : operatorOf'[i] = IF i \in mine THEN NoOperator ELSE operatorOf[i]
  OBVIOUS
<1>5. \A i \in mine : operatorOf[i] = o
  BY DEF RegisteredOnce
<1>6. ASSUME NEW r \in Services, NEW p \in Operators, NEW j \in DOMAIN instancesOf'[r][p]
      PROVE  LET i == instancesOf'[r][p][j].instance
             IN  /\ operatorOf'[i] = p
                 /\ \A u \in Services : \A k \in DOMAIN instancesOf'[u][p] :
                      instancesOf'[u][p][k].instance = i => u = r /\ k = j
  <2> DEFINE i == instancesOf[r][p][j].instance
  <2>1. (r # s \/ p # o) /\ instancesOf'[r][p] = instancesOf[r][p]
    BY <1>2
  <2>2. j \in DOMAIN instancesOf[r][p] /\ instancesOf'[r][p][j].instance = i /\ i \in DOMAIN operatorOf
    BY <1>3, <2>1
  <2>3. /\ operatorOf[i] = p
        /\ \A u \in Services : \A k \in DOMAIN instancesOf[u][p] :
             instancesOf[u][p][k].instance = i => u = r /\ k = j
    BY <2>2 DEF RegisteredOnce
  <2> HIDE DEF i
  <2>4. i \notin mine
    <3> SUFFICES ASSUME i \in mine
                 PROVE  FALSE
      OBVIOUS
    <3>1. p = o
      BY <1>5, <2>3
    <3>2. PICK k \in DOMAIN instancesOf[s][o] : instancesOf[s][o][k].instance = i
      OBVIOUS
    <3> QED BY <2>1, <2>3, <3>1, <3>2
  <2>5. operatorOf'[i] = p
    <3> HIDE DEF mine
    <3> QED BY <1>4, <2>2, <2>3, <2>4
  <2>6. ASSUME NEW u \in Services, NEW k \in DOMAIN instancesOf'[u][p],
               instancesOf'[u][p][k].instance = i
        PROVE  u = r /\ k = j
    <3>1. u # s \/ p # o
      BY <1>2, <2>6
    <3>2. instancesOf'[u][p] = instancesOf[u][p]
      BY <1>2, <3>1
    <3> QED BY <2>3, <2>6, <3>2
  <2> QED BY <2>2, <2>5, <2>6
<1>7. ASSUME NEW i \in DOMAIN operatorOf', operatorOf'[i] # NoOperator
      PROVE  \E u \in Services : \E k \in DOMAIN instancesOf'[u][operatorOf'[i]] :
               instancesOf'[u][operatorOf'[i]][k].instance = i
  <2>1. i \in DOMAIN operatorOf
    OBVIOUS
  <2>2. i \notin mine /\ operatorOf'[i] = operatorOf[i]
    <3> HIDE DEF mine
    <3> QED BY <1>4, <1>7, <2>1
  <2>3. PICK u \in Services : \E k \in DOMAIN instancesOf[u][operatorOf[i]] :
          instancesOf[u][operatorOf[i]][k].instance = i
    BY <1>7, <2>1, <2>2 DEF RegisteredOnce
  <2>4. u # s \/ operatorOf[i] # o
    BY <2>2, <2>3
  <2>5. operatorOf[i] \in Operators
    BY <1>1, <1>7, <2>1, <2>2
  <2>6. instancesOf'[u][operatorOf[i]] = instancesOf[u][operatorOf[i]]
    BY <1>2, <2>4, <2>5
  <2> QED BY <2>2, <2>3, <2>6
<1> QED BY <1>6, <1>7 DEF RegisteredOnce

\* What an unbonding does: the refund is the balance.
LEMMA UnbondFacts ==
  ASSUME Inv, NEW o \in Operators, NEW s \in Services, unbond(o, s)
  PROVE  /\ state[s] = "TerminatedBonded"
         /\ numAgentInstances[s] - Len(instancesOf[s][o]) \in Nat
         /\ numAgentInstances' = [numAgentInstances EXCEPT ![s] = @ - Len(instancesOf[s][o])]
         /\ state' = [state EXCEPT ![s] = IF numAgentInstances[s] - Len(instancesOf[s][o]) = 0
                                        THEN "PreRegistration" ELSE "TerminatedBonded"]
         /\ operatorOf' = [i \in DOMAIN operatorOf |->
              IF i \in {instancesOf[s][o][k].instance : k \in DOMAIN instancesOf[s][o]}
              THEN NoOperator ELSE operatorOf[i]]
         /\ instancesOf' = [instancesOf EXCEPT ![s] = [instancesOf[s] EXCEPT ![o] = <<>>]]
         /\ balance' = [balance EXCEPT ![s] = [balance[s] EXCEPT ![o] = 0]]
         /\ held' = held - balance[s][o]
         /\ UNCHANGED <<listVars, listed, slashedFunds, tokenOf, tokenDeposit, agentBond, tokenSlashed>>
         /\ tokenBalance' = [tokenBalance EXCEPT ![s] = [tokenBalance[s] EXCEPT ![o] = 0]]
         /\ tokenHeld' = IF Secured(s) THEN [tokenHeld EXCEPT ![tokenOf[s]] = @ - tokenBalance[s][o]]
                         ELSE tokenHeld
<1>1. Types /\ BalancesAreBonds /\ InstancesCounted
  BY DEF Inv
<1>2. Unbond(o, s) /\ UnbondTokenRefund(o, s)
  BY DEF unbond
<1>3. state[s] = "TerminatedBonded"
  BY <1>2 DEF Unbond
<1>4. /\ balance \in [Services -> [Operators -> Nat]] /\ tokenBalance \in [Services -> [Operators -> Nat]]
      /\ instancesOf \in [Services -> [Operators -> Seq(Registration)]]
  BY <1>1 DEF Types
<1>5. Refund(o, s) = balance[s][o]
  <2>1. balance[s][o] <= BondSum(Bonds(s), instancesOf[s][o]) /\ balance[s][o] \in Nat
    BY <1>1, <1>4 DEF BalancesAreBonds, BalanceAgrees
  <2>2. BondSum(Bonds(s), instancesOf[s][o]) \in Nat
    <3>1. instancesOf[s][o] \in Seq(Registration) /\ Bonds(s) \in [AgentIds -> Nat]
      BY <1>1, <1>4, BondsType
    <3> QED BY <3>1, BondSumType
  <2> QED BY <2>1, <2>2 DEF Refund, Least
<1>6. balance' = [balance EXCEPT ![s] = [balance[s] EXCEPT ![o] = 0]]
  <2>1. balance' = [balance EXCEPT ![s][o] = IF Refund(o, s) > 0 THEN 0 ELSE @]
    BY <1>2 DEF Unbond
  <2>2. balance[s][o] \in Nat
    BY <1>4
  <2>3. balance' = [balance EXCEPT ![s] = [balance[s] EXCEPT ![o] =
                      IF balance[s][o] > 0 THEN 0 ELSE balance[s][o]]]
    BY <1>4, <1>5, <2>1
  <2>4. (IF balance[s][o] > 0 THEN 0 ELSE balance[s][o]) = 0
    BY <2>2
  <2> QED BY <2>3, <2>4
<1>7. /\ tokenBalance' = [tokenBalance EXCEPT ![s] = [tokenBalance[s] EXCEPT ![o] = 0]]
      /\ tokenHeld' = IF Secured(s) THEN [tokenHeld EXCEPT ![tokenOf[s]] = @ - tokenBalance[s][o]]
                      ELSE tokenHeld
      /\ UNCHANGED <<tokenOf, tokenDeposit, agentBond, tokenSlashed>>
  <2>1. CASE Secured(s)
    BY <1>2, <1>4, <2>1 DEF UnbondTokenRefund
  <2>2. CASE ~ Secured(s)
    <3>1. tokenBalance[s][o] <= 0 /\ tokenBalance[s][o] \in Nat
      BY <1>1, <1>4, <2>2 DEF BalancesAreBonds, BalanceAgrees
    <3>2. tokenBalance[s][o] = 0
      BY <3>1
    <3>3. UNCHANGED tokenVars
      BY <1>2, <2>2 DEF UnbondTokenRefund
    <3> QED BY <1>4, <2>2, <3>2, <3>3 DEF tokenVars
  <2> QED BY <2>1, <2>2
<1>8. numAgentInstances[s] - Len(instancesOf[s][o]) \in Nat
  <2> DEFINE f == [p \in Operators |-> Len(instancesOf[s][p])]
  <2>1. NumOperators \in Nat /\ Operators = 1..NumOperators /\ f \in [1..NumOperators -> Nat]
    BY <1>4, ServiceAssumption DEF Operators
  <2>2. numAgentInstances[s] = Total(f, NumOperators) /\ f[o] = Len(instancesOf[s][o])
    BY <1>1 DEF InstancesCounted, Counted
  <2> HIDE DEF f
  <2>3. f[o] <= Total(f, NumOperators) /\ Total(f, NumOperators) \in Nat /\ f[o] \in Nat
    BY <2>1, TotalNonNegative
  <2> QED BY <2>2, <2>3
<1>9. instancesOf' = [instancesOf EXCEPT ![s] = [instancesOf[s] EXCEPT ![o] = <<>>]]
  BY <1>2, <1>4 DEF Unbond
<1>10. /\ numAgentInstances' = [numAgentInstances EXCEPT ![s] = @ - Len(instancesOf[s][o])]
       /\ state' = [state EXCEPT ![s] = IF numAgentInstances[s] - Len(instancesOf[s][o]) = 0
                                       THEN "PreRegistration" ELSE "TerminatedBonded"]
       /\ operatorOf' = [i \in DOMAIN operatorOf |->
            IF i \in {instancesOf[s][o][k].instance : k \in DOMAIN instancesOf[s][o]}
            THEN NoOperator ELSE operatorOf[i]]
       /\ held' = held - balance[s][o]
       /\ UNCHANGED <<listVars, listed, slashedFunds>>
  BY <1>1, <1>2, <1>3, <1>5 DEF Unbond, Types
<1> QED BY <1>3, <1>6, <1>7, <1>8, <1>9, <1>10

LEMMA UnbondTypes ==
  ASSUME Inv, NEW o \in Operators, NEW s \in Services, unbond(o, s)
  PROVE  Types'
<1>1. Types
  BY DEF Inv
<1>2. /\ balance' \in [Services -> [Operators -> Nat]]
      /\ tokenBalance' \in [Services -> [Operators -> Nat]]
      /\ instancesOf' \in [Services -> [Operators -> Seq(Registration)]]
  <2>1. <<>> \in Seq(Registration) /\ 0 \in Nat
    OBVIOUS
  <2>2. balance' \in [Services -> [Operators -> Nat]]
    <3>1. balance' = [balance EXCEPT ![s] = [balance[s] EXCEPT ![o] = 0]]
      BY UnbondFacts
    <3> QED BY <1>1, <2>1, <3>1, RowType DEF Types
  <2>3. tokenBalance' \in [Services -> [Operators -> Nat]]
    <3>1. tokenBalance' = [tokenBalance EXCEPT ![s] = [tokenBalance[s] EXCEPT ![o] = 0]]
      BY UnbondFacts
    <3> QED BY <1>1, <2>1, <3>1, RowType DEF Types
  <2>4. instancesOf' \in [Services -> [Operators -> Seq(Registration)]]
    <3>1. instancesOf' = [instancesOf EXCEPT ![s] = [instancesOf[s] EXCEPT ![o] = <<>>]]
      BY UnbondFacts
    <3> QED BY <1>1, <2>1, <3>1, RowType DEF Types
  <2> QED BY <2>2, <2>3, <2>4
<1>3. numAgentInstances' \in [Services -> Nat]
  <2>1. /\ numAgentInstances' = [numAgentInstances EXCEPT ![s] = @ - Len(instancesOf[s][o])]
        /\ numAgentInstances[s] - Len(instancesOf[s][o]) \in Nat
    BY UnbondFacts
  <2> QED BY <1>1, <2>1 DEF Types
<1>4. state' \in [Services -> States]
  <2>1. state' = [state EXCEPT ![s] = IF numAgentInstances[s] - Len(instancesOf[s][o]) = 0
                                     THEN "PreRegistration" ELSE "TerminatedBonded"]
    BY UnbondFacts
  <2> QED BY <1>1, <2>1 DEF Types, States
<1>5. operatorOf' \in [Instances \cup Operators -> Operators \cup {NoOperator}]
  <2>1. operatorOf' = [i \in DOMAIN operatorOf |->
          IF i \in {instancesOf[s][o][k].instance : k \in DOMAIN instancesOf[s][o]}
          THEN NoOperator ELSE operatorOf[i]]
    BY UnbondFacts
  <2> DEFINE mine == {instancesOf[s][o][k].instance : k \in DOMAIN instancesOf[s][o]}
  <2>2. operatorOf' = [i \in DOMAIN operatorOf |-> IF i \in mine THEN NoOperator ELSE operatorOf[i]]
    BY <2>1
  <2> HIDE DEF mine
  <2> QED BY <1>1, <2>2 DEF Types
<1>6. held' \in Int /\ tokenHeld' \in [Tokens -> Int]
  <2>1. /\ held' = held - balance[s][o]
        /\ tokenHeld' = IF Secured(s) THEN [tokenHeld EXCEPT ![tokenOf[s]] = @ - tokenBalance[s][o]]
                        ELSE tokenHeld
    BY UnbondFacts
  <2>2. /\ held \in Int /\ balance[s][o] \in Int /\ tokenBalance[s][o] \in Int
        /\ tokenHeld \in [Tokens -> Int] /\ tokenOf[s] \in Tokens \cup {NoToken}
    BY <1>1 DEF Types
  <2> QED BY <2>1, <2>2 DEF Secured
<1>7. UNCHANGED <<listVars, listed, slashedFunds, tokenOf, tokenDeposit, agentBond, tokenSlashed>>
  BY UnbondFacts
<1> QED BY <1>1, <1>2, <1>3, <1>4, <1>5, <1>6, <1>7 DEF Types, listVars

LEMMA UnbondStep ==
  ASSUME Inv, NEW o \in Operators, NEW s \in Services, unbond(o, s)
  PROVE  Inv'
<1>1. Types /\ FundsHeld /\ BalancesAreBonds /\ InstancesCounted /\ RegisteredOnce /\ Types'
  BY UnbondTypes DEF Inv, InstancesCounted
<1> DEFINE left == numAgentInstances[s] - Len(instancesOf[s][o])
<1>2. /\ state[s] = "TerminatedBonded" /\ left \in Nat
      /\ numAgentInstances' = [numAgentInstances EXCEPT ![s] = left]
      /\ state' = [state EXCEPT ![s] = IF left = 0 THEN "PreRegistration" ELSE "TerminatedBonded"]
      /\ instancesOf' = [instancesOf EXCEPT ![s] = [instancesOf[s] EXCEPT ![o] = <<>>]]
      /\ balance' = [balance EXCEPT ![s] = [balance[s] EXCEPT ![o] = 0]]
      /\ tokenBalance' = [tokenBalance EXCEPT ![s] = [tokenBalance[s] EXCEPT ![o] = 0]]
  <2>1. numAgentInstances' = [numAgentInstances EXCEPT ![s] = @ - Len(instancesOf[s][o])]
    BY UnbondFacts
  <2>2. numAgentInstances' = [numAgentInstances EXCEPT ![s] = left]
    BY <1>1, <2>1 DEF Types
  <2> QED BY <2>2, UnbondFacts
<1>3. /\ held' = held - balance[s][o]
      /\ tokenHeld' = IF Secured(s) THEN [tokenHeld EXCEPT ![tokenOf[s]] = @ - tokenBalance[s][o]]
                      ELSE tokenHeld
      /\ UNCHANGED <<listVars, slashedFunds, tokenOf, tokenDeposit, agentBond, tokenSlashed>>
  BY UnbondFacts
<1>4. RegisteredOnce'
  <2>1. operatorOf' = [i \in DOMAIN operatorOf |->
          IF i \in {instancesOf[s][o][k].instance : k \in DOMAIN instancesOf[s][o]}
          THEN NoOperator ELSE operatorOf[i]]
    BY UnbondFacts
  <2> QED BY <1>1, <1>2, <2>1, UnbondOnce
<1>5. /\ balance \in [Services -> [Operators -> Nat]] /\ balance' \in [Services -> [Operators -> Nat]]
      /\ tokenBalance \in [Services -> [Operators -> Nat]]
      /\ tokenBalance' \in [Services -> [Operators -> Nat]]
      /\ instancesOf \in [Services -> [Operators -> Seq(Registration)]]
      /\ instancesOf' \in [Services -> [Operators -> Seq(Registration)]]
      /\ state \in [Services -> States] /\ numAgentInstances \in [Services -> Nat]
  BY <1>1 DEF Types
<1>6. /\ \A r \in Services : r # s => balance'[r] = balance[r] /\ tokenBalance'[r] = tokenBalance[r]
      /\ \A p \in Operators : p # o => balance'[s][p] = balance[s][p] /\ tokenBalance'[s][p] = tokenBalance[s][p]
      /\ balance'[s][o] = 0 /\ tokenBalance'[s][o] = 0
  BY <1>2, <1>5
<1>7. /\ \A r \in Services : r # s => instancesOf'[r] = instancesOf[r]
      /\ \A p \in Operators : p # o => instancesOf'[s][p] = instancesOf[s][p]
      /\ instancesOf'[s][o] = <<>>
  BY <1>2, <1>5
<1>8. /\ \A r \in Services : r # s => state'[r] = state[r] /\ numAgentInstances'[r] = numAgentInstances[r]
      /\ numAgentInstances'[s] = left
      /\ state'[s] = IF left = 0 THEN "PreRegistration" ELSE "TerminatedBonded"
  BY <1>2, <1>5
<1>9. Elsewhere(s)
  BY <1>3, <1>6, <1>7, <1>8 DEF Elsewhere, listVars
<1>10. FundsHeld'
  <2>1. ~ Activated(s) /\ ~ Activated(s)'
    BY <1>2, <1>8 DEF Activated
  <2>2. /\ Total(balance'[s], NumOperators) = Total(balance[s], NumOperators) - balance[s][o] + balance'[s][o]
        /\ Total(balance[s], NumOperators) \in Int /\ balance[s][o] \in Nat
    BY <1>5, <1>6, RowTotal
  <2>3. /\ Total(tokenBalance'[s], NumOperators)
             = Total(tokenBalance[s], NumOperators) - tokenBalance[s][o] + tokenBalance'[s][o]
        /\ Total(tokenBalance[s], NumOperators) \in Int /\ tokenBalance[s][o] \in Nat
    BY <1>5, <1>6, RowTotal
  <2>4. held' - slashedFunds' - Claim(s)' = held - slashedFunds - Claim(s)
    <3>1. Claim(s) = Total(balance[s], NumOperators) /\ Claim(s)' = Total(balance'[s], NumOperators)
      BY <1>5, <2>1, <2>2, <1>6 DEF Claim
    <3>2. held \in Int /\ slashedFunds \in Int /\ slashedFunds' = slashedFunds
      BY <1>1, <1>3 DEF Types
    <3> QED BY <1>3, <1>6, <2>2, <3>1, <3>2
  <2>5. ASSUME NEW t \in Tokens
        PROVE  tokenHeld'[t] - tokenSlashed'[t] - TokenClaim(t, s)' =
                 tokenHeld[t] - tokenSlashed[t] - TokenClaim(t, s)
    <3>1. tokenHeld \in [Tokens -> Int] /\ tokenHeld[t] \in Int /\ tokenSlashed[t] \in Int
      BY <1>1 DEF Types
    <3>2. CASE tokenOf[s] = t
      <4>1. Secured(s)
        BY <3>2, TokenAssumption DEF Secured
      <4>2. TokenClaim(t, s) = Total(tokenBalance[s], NumOperators)
        BY <2>1, <2>3, <3>2 DEF TokenClaim
      <4>3. TokenClaim(t, s)' = Total(tokenBalance'[s], NumOperators)
        BY <1>3, <1>6, <2>1, <2>3, <3>2 DEF TokenClaim
      <4>4. tokenHeld'[t] = tokenHeld[t] - tokenBalance[s][o] /\ tokenSlashed'[t] = tokenSlashed[t]
        BY <1>3, <3>1, <3>2, <4>1
      <4> QED BY <1>6, <2>3, <3>1, <4>2, <4>3, <4>4
    <3>3. CASE tokenOf[s] # t
      <4>1. TokenClaim(t, s) = 0 /\ TokenClaim(t, s)' = 0
        BY <1>3, <3>3 DEF TokenClaim
      <4>2. tokenHeld'[t] = tokenHeld[t] /\ tokenSlashed'[t] = tokenSlashed[t]
        BY <1>3, <3>1, <3>3
      <4> QED BY <4>1, <4>2
    <3> QED BY <3>2, <3>3
  <2> QED BY <1>1, <1>9, <2>4, <2>5, FundsStep
<1>11. Counted(s)' /\ (left = 0 => \A p \in Operators : instancesOf'[s][p] = <<>>)
  <2> DEFINE f == [p \in Operators |-> Len(instancesOf[s][p])]
             g == [p \in Operators |-> Len(instancesOf'[s][p])]
  <2>1. NumOperators \in Nat /\ Operators = 1..NumOperators
    BY ServiceAssumption DEF Operators
  <2>2. f \in [1..NumOperators -> Int] /\ g \in [1..NumOperators -> Int]
    BY <1>5, <2>1
  <2>3. f[o] = Len(instancesOf[s][o]) /\ g[o] = 0 /\ \A p \in 1..NumOperators : p # o => g[p] = f[p]
    <3>1. Len(<<>>) = 0
      OBVIOUS
    <3> QED BY <1>7, <2>1, <3>1
  <2>4. numAgentInstances[s] = Total(f, NumOperators)
    BY <1>1 DEF InstancesCounted, Counted
  <2> HIDE DEF f, g
  <2>5. Total(g, NumOperators) = Total(f, NumOperators) - f[o] + g[o] /\ Total(f, NumOperators) \in Int
    BY <2>1, <2>2, <2>3, OneChanges, TotalType
  <2>6. f[o] \in Int
    BY <2>1, <2>2
  <2>7. left = Total(g, NumOperators)
    BY <2>3, <2>4, <2>5, <2>6
  <2>8. Counted(s)'
    BY <1>8, <2>7 DEF Counted, g
  <2>9. ASSUME left = 0
        PROVE  \A p \in Operators : instancesOf'[s][p] = <<>>
    <3>1. instancesOf'[s] \in [Operators -> Seq(Registration)]
      BY <1>5
    <3>2. Total([p \in Operators |-> Len(instancesOf'[s][p])], NumOperators) = 0
      BY <2>7, <2>9 DEF g
    <3> QED BY <3>1, <3>2, NoneRegistered
  <2> QED BY <2>8, <2>9
<1> HIDE DEF left
<1>12. BalancesAreBonds'
  <2> SUFFICES ASSUME NEW p \in Operators
               PROVE  BalanceAgrees(s, p)'
    BY <1>1, <1>9, BalancesStep
  <2>1. Bonds(s)' = Bonds(s) /\ Secured(s)' = Secured(s) /\ agentBond'[s] = agentBond[s]
    BY <1>3 DEF Bonds, Secured, listVars
  <2>2. BondSum(Bonds(s), <<>>) = 0 /\ BondSum(agentBond[s], <<>>) = 0
    BY <1>1, BondsType, BondSumEmpty
  <2>3. /\ balance[s][p] <= BondSum(Bonds(s), instancesOf[s][p])
        /\ tokenBalance[s][p] <= IF Secured(s) THEN BondSum(agentBond[s], instancesOf[s][p]) ELSE 0
        /\ balance[s][p] \in Nat /\ tokenBalance[s][p] \in Nat
    BY <1>1, <1>5 DEF BalancesAreBonds, BalanceAgrees
  <2>4. CASE p = o
    <3>1. instancesOf'[s][p] = <<>> /\ balance'[s][p] = 0 /\ tokenBalance'[s][p] = 0
      BY <1>6, <1>7, <2>4
    <3> QED BY <2>1, <2>2, <3>1 DEF BalanceAgrees
  <2>5. CASE p # o
    <3>1. /\ instancesOf'[s][p] = instancesOf[s][p]
          /\ balance'[s][p] = balance[s][p] /\ tokenBalance'[s][p] = tokenBalance[s][p]
      BY <1>6, <1>7, <2>5
    <3>2. CASE left = 0
      <4>1. instancesOf'[s][p] = <<>>
        BY <1>11, <3>2
      <4>2. balance'[s][p] = 0 /\ tokenBalance'[s][p] = 0
        BY <2>2, <2>3, <3>1, <4>1
      <4> QED BY <2>1, <2>2, <4>1, <4>2 DEF BalanceAgrees
    <3>3. CASE left # 0
      <4>1. state'[s] = "TerminatedBonded"
        BY <1>8, <3>3
      <4> QED BY <2>1, <2>3, <3>1, <4>1 DEF BalanceAgrees
    <3> QED BY <3>2, <3>3
  <2> QED BY <2>4, <2>5
<1> QED BY <1>1, <1>4, <1>9, <1>10, <1>11, <1>12, CountsStep DEF Inv

-----------------------------------------------------------------------------
(* The theorems                                                              *)

LEMMA Initially == Init => Inv
<1> SUFFICES ASSUME Init
             PROVE  Inv
  OBVIOUS
<1>1. Types
  BY DEF Init, LifeInit, TokenInit, Types, States, NoInstances, AgentParams, Registration
<1>2. \A s \in Services : /\ state[s] = "NonExistent" /\ numAgentInstances[s] = 0
                           /\ tokenOf[s] = NoToken
                           /\ balance[s] = [o \in Operators |-> 0]
                           /\ \A o \in Operators : /\ instancesOf[s][o] = <<>>
                                                   /\ balance[s][o] = 0 /\ tokenBalance[s][o] = 0
  BY DEF Init, LifeInit, TokenInit
<1>3. NumOperators \in Nat /\ Operators = 1..NumOperators /\ NumServices \in Nat /\ Services = 1..NumServices
  BY ServiceAssumption DEF Operators, Services
<1>4. FundsHeld
  <2>1. \A s \in Services : Claim(s) = 0
    <3> SUFFICES ASSUME NEW s \in Services
                 PROVE  Claim(s) = 0
      OBVIOUS
    <3>1. balance[s] \in [1..NumOperators -> Int] /\ \A o \in 1..NumOperators : balance[s][o] = 0
      BY <1>1, <1>2, <1>3 DEF Types
    <3>2. Total(balance[s], NumOperators) = 0
      BY <1>3, <3>1, TotalZero
    <3> QED BY <1>2, <3>2 DEF Claim, Activated
  <2>2. \A t \in Tokens, s \in Services : TokenClaim(t, s) = 0
    BY <1>2, TokenAssumption DEF TokenClaim
  <2>3. /\ Claims \in [1..NumServices -> Int] /\ \A s \in 1..NumServices : Claims[s] = 0
        /\ \A t \in Tokens : /\ TokenClaims(t) \in [1..NumServices -> Int]
                             /\ \A s \in 1..NumServices : TokenClaims(t)[s] = 0
    BY <1>3, <2>1, <2>2 DEF Claims, TokenClaims
  <2>4. Total(Claims, NumServices) = 0 /\ \A t \in Tokens : Total(TokenClaims(t), NumServices) = 0
    BY <1>3, <2>3, TotalZero
  <2> QED BY <2>4 DEF FundsHeld, Init, LifeInit, TokenInit
<1>5. BalancesAreBonds
  <2> SUFFICES ASSUME NEW s \in Services, NEW o \in Operators
               PROVE  BalanceAgrees(s, o)
    BY DEF BalancesAreBonds
  <2>1. BondSum(Bonds(s), <<>>) = 0
    BY <1>1, BondsType, BondSumEmpty
  <2> QED BY <1>2, <2>1 DEF BalanceAgrees, Secured
<1>6. InstancesCounted
  <2>1. ASSUME NEW s \in Services
        PROVE  Counted(s)
    <3> DEFINE f == [o \in Operators |-> Len(instancesOf[s][o])]
    <3>1. f \in [1..NumOperators -> Int] /\ \A o \in 1..NumOperators : f[o] = 0
      BY <1>2, <1>3
    <3> HIDE DEF f
    <3>2. Total(f, NumOperators) = 0
      BY <1>3, <3>1, TotalZero
    <3> QED BY <1>2, <3>2 DEF Counted, f
  <2>2. RegisteredOnce
    BY <1>2 DEF RegisteredOnce, Init, LifeInit
  <2> QED BY <2>1, <2>2 DEF InstancesCounted
<1> QED BY <1>1, <1>4, <1>5, <1>6 DEF Inv

LEMMA Stutters ==
  ASSUME Inv, UNCHANGED vars
  PROVE  Inv'
<1>1. /\ UNCHANGED <<state, listVars, instanceVars, balance, tokenOf, tokenDeposit, agentBond, tokenBalance>>
      /\ held' = held /\ slashedFunds' = slashedFunds
      /\ tokenHeld' = tokenHeld /\ tokenSlashed' = tokenSlashed
  BY DEF vars, lifeVars, fundVars, tokenVars
<1>2. /\ held \in Int /\ slashedFunds \in Nat
      /\ tokenHeld \in [Tokens -> Int] /\ tokenSlashed \in [Tokens -> Nat]
  BY DEF Inv, Types
<1> QED BY <1>1, <1>2, DrainsStep

\* Every call keeps the invariant.
LEMMA Inductive ==
  ASSUME Inv, [Next]_vars
  PROVE  Inv'
<1>1. ASSUME NEW s \in Services, NEW t \in Securities[s], NEW l \in AgentLists[s], create(s, t, l)
      PROVE  Inv'
  BY <1>1, CreateStep
<1>2. ASSUME NEW s \in Services, NEW t \in Securities[s], NEW l \in AgentLists[s], update(s, t, l)
      PROVE  Inv'
  BY <1>2, UpdateStep
<1>3. ASSUME NEW s \in Services, NEW value \in Values, activateRegistration(s, value)
      PROVE  Inv'
  BY <1>3, ActivateStep
<1>4. ASSUME NEW o \in Operators, NEW s \in Services, NEW batch \in Batches, NEW value \in Values,
             registerAgents(o, s, batch, value)
      PROVE  Inv'
  BY <1>4, RegisterStep
<1>5. ASSUME NEW s \in Services, deploy(s)
      PROVE  Inv'
  BY <1>5, DeployStep
<1>6. ASSUME NEW s \in Services, NEW i \in Instances, NEW amount \in Amounts, slash(s, i, amount)
      PROVE  Inv'
  BY <1>6, SlashStep
<1>7. ASSUME NEW s \in Services, NEW i \in Instances, NEW amount \in Amounts, slashTokens(s, i, amount)
      PROVE  Inv'
  BY <1>7, SlashTokensStep
<1>8. ASSUME NEW s \in Services, terminate(s)
      PROVE  Inv'
  BY <1>8, TerminateStep
<1>9. ASSUME NEW o \in Operators, NEW s \in Services, unbond(o, s)
      PROVE  Inv'
  BY <1>9, UnbondStep
<1>10. ASSUME drain
       PROVE  Inv'
  BY <1>10, DrainStep
<1>11. ASSUME NEW t \in Tokens, drainToken(t)
       PROVE  Inv'
  BY <1>11, DrainTokenStep
<1>12. ASSUME UNCHANGED vars
       PROVE  Inv'
  BY <1>12, Stutters
<1> QED BY <1>1, <1>2, <1>3, <1>4, <1>5, <1>6, <1>7, <1>8, <1>9, <1>10, <1>11, <1>12 DEF Next

LEMMA InvariantHolds == Spec => []Inv
<1>1. Inv /\ [Next]_vars => Inv'
  BY Inductive
<1> QED BY Initially, <1>1, PTL DEF Spec

\* For any services, operators, agents, lists and tokens: every variable keeps its type, and
\* what the registry and the ledger hold never becomes negative.
THEOREM TypeCorrect == Spec => []TypeOK
<1>1. Inv => TypeOK
  BY FundsType DEF Inv
<1> QED BY <1>1, InvariantHolds, PTL

\* The contracts hold exactly what services, operators and the drainer may still claim
\* (ServiceRegistry.sol:664-744, ServiceRegistryTokenUtility.sol:508-546).
THEOREM FundsKept == Spec => []FundsHeld
<1>1. Inv => FundsHeld
  BY DEF Inv
<1> QED BY <1>1, InvariantHolds, PTL

\* An operator's balances are the bonds of its instances less what was slashed, although bonds
\* are read anew at every call (ServiceRegistry.sol:697-704).
THEOREM BalancesKept == Spec => []BalancesAreBonds
<1>1. Inv => BalancesAreBonds
  BY DEF Inv
<1> QED BY <1>1, InvariantHolds, PTL

\* The number of a service's instances is that of its registrations, and an instance has one
\* registration, of the operator that the registry names for it (ServiceRegistry.sol:430-449).
THEOREM InstancesKept == Spec => []InstancesCounted
<1>1. Inv => InstancesCounted
  BY DEF Inv
<1> QED BY <1>1, InvariantHolds, PTL
=============================================================================
