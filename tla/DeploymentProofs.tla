--------------------------- MODULE DeploymentProofs ---------------------------
(***************************************************************************)
(* Proofs about the deployment, however often the scripts are interrupted    *)
(* and however many proposals wait.                                          *)
(***************************************************************************)
EXTENDS Deployment, TotalsTheorems, FiniteSetTheorems

Addresses == DOMAIN chain.contracts \cup {Undefined}
PlaceOK ==
  /\ procedure \in DOMAIN Scripts
  /\ at \in 1..(Len(Procedure) + 1)
  /\ interrupts \in 0..MaxInterrupts /\ failed \subseteq Names
RunOK ==
  /\ DOMAIN run = {"pc", "data", "self", "args"}
  /\ run.pc \in Nat
  /\ Running => at <= Len(Procedure) /\ DOMAIN run.data = Keys(Procedure, Script.file)
  /\ \A k \in DOMAIN run.data : run.data[k] \in Addresses
  /\ run.self \in Addresses
GlobalsOK ==
  /\ DOMAIN globals = Files
  /\ \A f \in Files :
       /\ DOMAIN globals[f] = Keys(Procedure, f)
       /\ \A k \in DOMAIN globals[f] : globals[f][k] \in Addresses
ChainOK(c) ==
  /\ DOMAIN c = {"contracts", "roles", "permitted", "minted"}
  /\ \A r \in c.roles : r[1] \in OfKind(c, "Timelock")
PendingOK ==
  /\ pending \in Seq(Range(pending))
  /\ \A p \in Range(pending) : IsSequence(p.calls)
DeployInv == PlaceOK /\ RunOK /\ GlobalsOK /\ ChainOK(chain) /\ PendingOK

-----------------------------------------------------------------------------
(* Contracts are only added                                                  *)

\* A call that is accepted changes no set of contracts, and grants roles only on timelocks.
LEMMA CallKeeps ==
  ASSUME NEW c, ChainOK(c), NEW from, NEW to, NEW fn, NEW a, Accepted(c, from, to, fn, a)
  PROVE  /\ ChainOK(Called(c, to, fn, a))
         /\ DOMAIN Called(c, to, fn, a).contracts = DOMAIN c.contracts
<1> DEFINE d == Called(c, to, fn, a)
<1>0. DOMAIN c = {"contracts", "roles", "permitted", "minted"}
  BY DEF ChainOK
<1>1. CASE to \notin DOMAIN c.contracts
  BY <1>1 DEF Called
<1>2. CASE to \in DOMAIN c.contracts
  <2>1. /\ DOMAIN d = DOMAIN c /\ DOMAIN d.contracts = DOMAIN c.contracts
        /\ \A r \in d.roles : r \in c.roles \/ (fn = "grantRole" /\ r = <<to, a[1], a[2]>>)
    <3>1. CASE fn = "grantRole"
      <4>1. d = [c EXCEPT !.roles = @ \cup {<<to, a[1], a[2]>>}]
        BY <1>2, <3>1, Zenon DEF Called
      <4> QED BY <1>0, <3>1, <4>1
    <3>2. CASE fn \in {"revokeRole", "renounceRole"}
      <4>1. d = [c EXCEPT !.roles = @ \ {<<to, a[1], a[2]>>}]
        BY <1>2, <3>2, Zenon DEF Called
      <4> QED BY <1>0, <4>1
    <3>3. CASE fn = "changeMultisigPermission"
      <4>1. d = [c EXCEPT !.permitted = IF a[2] = True THEN @ \cup {<<to, a[1]>>}
                                        ELSE @ \ {<<to, a[1]>>}]
        BY <1>2, <3>3, Zenon DEF Called
      <4> HIDE DEF d
      <4> QED BY <1>0, <4>1
    <3>4. CASE fn = "mint"
      <4>1. d = [c EXCEPT !.minted = With(@, a[1], (IF a[1] \in DOMAIN @ THEN @[a[1]] ELSE 0) + 1)]
        BY <1>2, <3>4, Zenon DEF Called
      <4> HIDE DEF d
      <4> QED BY <1>0, <4>1
    <3>5. CASE fn \notin {"grantRole", "revokeRole", "renounceRole", "changeMultisigPermission",
                          "mint"}
      <4>1. d = [c EXCEPT !.contracts[to] = Updated(@, to, fn, a)]
        BY <1>2, <3>5, Zenon DEF Called
      <4> HIDE DEF d
      <4> QED BY <1>0, <4>1
    <3> QED BY <3>1, <3>2, <3>3, <3>4, <3>5
  <2>2. ASSUME fn = "grantRole"
        PROVE  to \in OfKind(c, "Timelock")
    <3>1. <<to, Role("TIMELOCK_ADMIN_ROLE"), from>> \in c.roles
      BY <1>2, <2>2 DEF Accepted
    <3>2. <<to, Role("TIMELOCK_ADMIN_ROLE"), from>>[1] = to
      OBVIOUS
    <3> QED BY <3>1, <3>2 DEF ChainOK
  <2>3. OfKind(d, "Timelock") = OfKind(c, "Timelock")
    BY <2>1 DEF OfKind
  <2>4. <<to, a[1], a[2]>>[1] = to
    OBVIOUS
  <2> QED BY <1>0, <2>1, <2>2, <2>3, <2>4 DEF ChainOK
<1> QED BY <1>1, <1>2

\* A new contract is one contract more; the roles of a timelock are its own.
LEMMA CreateKeeps ==
  ASSUME NEW c, ChainOK(c), NEW kind, NEW a
  PROVE  /\ ChainOK(Created(c, kind, a))
         /\ DOMAIN Created(c, kind, a).contracts
              = DOMAIN c.contracts \cup {NextAddress(c, kind)}
<1> DEFINE d == Created(c, kind, a)
           self == NextAddress(c, kind)
<1>0. DOMAIN c = {"contracts", "roles", "permitted", "minted"}
  BY DEF ChainOK
<1>1. /\ DOMAIN d = DOMAIN c
      /\ DOMAIN d.contracts = DOMAIN c.contracts \cup {self}
      /\ d.roles = IF kind = "Timelock" THEN c.roles \cup InitialRoles(self, a) ELSE c.roles
  <2>1. d = [c EXCEPT !.contracts = With(@, self, Constructed(kind, a)),
                      !.roles = IF kind = "Timelock" THEN @ \cup InitialRoles(self, a) ELSE @]
    BY DEF Created
  <2>2. DOMAIN With(c.contracts, self, Constructed(kind, a)) = DOMAIN c.contracts \cup {self}
    BY DEF With
  <2> HIDE DEF d, self
  <2> QED BY <1>0, <2>1, <2>2
<1>2. Kind(self) = kind
  BY DEF Kind, NextAddress
<1>3. \A r \in InitialRoles(self, a) : r[1] = self
  BY DEF InitialRoles
<1>4. OfKind(c, "Timelock") \subseteq OfKind(d, "Timelock")
  BY <1>1 DEF OfKind
<1>5. ASSUME kind = "Timelock"
      PROVE  self \in OfKind(d, "Timelock")
  BY <1>1, <1>2, <1>5 DEF OfKind
<1>6. \A r \in d.roles : r[1] \in OfKind(d, "Timelock")
  <2> HIDE DEF d, self
  <2> QED BY <1>1, <1>3, <1>4, <1>5 DEF ChainOK
<1> QED BY <1>0, <1>1, <1>6 DEF ChainOK

-----------------------------------------------------------------------------
(* A batch of calls                                                          *)

IsBatch(s, from, calls, N) ==
  s = [n \in 0..N |-> IF n = 0 THEN [ok |-> TRUE, chain |-> chain]
                      ELSE Attempted(s[n - 1], from, calls[n])]

\* The results of the first calls of a batch exist, up to every N.
LEMMA BatchExists ==
  ASSUME NEW from, NEW calls, NEW N \in Nat
  PROVE  \E s : IsBatch(s, from, calls, N)
<1> DEFINE P(m) == \E s : IsBatch(s, from, calls, m)
           S == {m \in Nat : P(m)}
<1>1. 0 \in S
  <2> DEFINE s0 == [n \in 0..0 |-> [ok |-> TRUE, chain |-> chain]]
  <2>1. s0 = [n \in 0..0 |-> IF n = 0 THEN [ok |-> TRUE, chain |-> chain]
                             ELSE Attempted(s0[n - 1], from, calls[n])]
    OBVIOUS
  <2> QED BY <2>1 DEF IsBatch
<1>2. ASSUME NEW m \in Nat, m \in S
      PROVE  m + 1 \in S
  <2>1. P(m)
    BY <1>2
  <2>2. PICK s : IsBatch(s, from, calls, m)
    BY <2>1
  <2>3. s = [n \in 0..m |-> IF n = 0 THEN [ok |-> TRUE, chain |-> chain]
                            ELSE Attempted(s[n - 1], from, calls[n])]
    BY <2>2, Zenon DEF IsBatch
  <2> DEFINE t == [n \in 0..(m + 1) |->
                     IF n = m + 1 THEN Attempted(s[m], from, calls[m + 1]) ELSE s[n]]
  <2>4. ASSUME NEW n \in 0..(m + 1)
        PROVE  t[n] = IF n = 0 THEN [ok |-> TRUE, chain |-> chain]
                      ELSE Attempted(t[n - 1], from, calls[n])
    <3>1. CASE n = m + 1
      BY <3>1
    <3>2. CASE n # m + 1
      <4>1. n \in 0..m
        BY <3>2
      <4>2. s[n] = IF n = 0 THEN [ok |-> TRUE, chain |-> chain]
                   ELSE Attempted(s[n - 1], from, calls[n])
        BY <2>3, <4>1
      <4>3. n # 0 => n - 1 \in 0..(m + 1) /\ n - 1 # m + 1
        BY <4>1
      <4> QED BY <4>1, <4>2, <4>3, <3>2
    <3> QED BY <3>1, <3>2
  <2>5. t = [n \in 0..(m + 1) |-> IF n = 0 THEN [ok |-> TRUE, chain |-> chain]
                                  ELSE Attempted(t[n - 1], from, calls[n])]
    BY <2>4, Zenon
  <2>6. IsBatch(t, from, calls, m + 1)
    BY <2>5, Zenon DEF IsBatch
  <2> HIDE DEF t
  <2> QED BY <2>6
<1>3. Nat \subseteq S
  <2> HIDE DEF S
  <2> QED BY <1>1, <1>2, SetInduction
<1> QED BY <1>3

\* A batch is a sequence of chains, each made from the one before by an accepted call.
Unfolds(s, from, calls) ==
  /\ s[0].chain = chain
  /\ \A n \in Nat : n + 1 <= Len(calls) /\ s[n + 1].ok =>
       LET c == calls[n + 1] IN
       /\ s[n].ok /\ Accepted(s[n].chain, from, c.to, c.fn, c.args)
       /\ s[n + 1].chain = Called(s[n].chain, c.to, c.fn, c.args)
LEMMA BatchUnfolds ==
  ASSUME NEW from, NEW calls, IsSequence(calls)
  PROVE  \E s : Unfolds(s, from, calls) /\ Batch(from, calls) = s[Len(calls)]
<1> DEFINE N == Len(calls)
           s == CHOOSE s : IsBatch(s, from, calls, N)
<1>1. N \in Nat
  BY DEF IsSequence
<1>2. IsBatch(s, from, calls, N)
  <2>1. \E r : IsBatch(r, from, calls, N)
    BY <1>1, BatchExists
  <2> HIDE DEF N
  <2> QED BY <2>1, Zenon
<1>3. Batch(from, calls) = s[N]
  BY Zenon DEF Batch, IsBatch
<1> HIDE DEF s
<1>4. \A n \in 0..N : s[n] = IF n = 0 THEN [ok |-> TRUE, chain |-> chain]
                             ELSE Attempted(s[n - 1], from, calls[n])
  BY <1>2 DEF IsBatch
<1>5. s[0].chain = chain
  BY <1>1, <1>4
<1>6. ASSUME NEW n \in Nat, n + 1 <= N, s[n + 1].ok, NEW c, c = calls[n + 1]
      PROVE  /\ s[n].ok /\ Accepted(s[n].chain, from, c.to, c.fn, c.args)
             /\ s[n + 1].chain = Called(s[n].chain, c.to, c.fn, c.args)
  <2> DEFINE r == s[n]
  <2>1. s[n + 1] = Attempted(r, from, c)
    BY <1>1, <1>4, <1>6
  <2> HIDE DEF r
  <2>2. s[n + 1].ok = (r.ok /\ Accepted(r.chain, from, c.to, c.fn, c.args))
    <3> DEFINE x == r.ok /\ Accepted(r.chain, from, c.to, c.fn, c.args)
               y == IF r.ok THEN Called(r.chain, c.to, c.fn, c.args) ELSE r.chain
    <3>1. s[n + 1] = [ok |-> x, chain |-> y]
      BY <2>1 DEF Attempted
    <3> HIDE DEF x, y
    <3>2. s[n + 1].ok = x
      BY <3>1
    <3> QED BY <3>2 DEF x
  <2>3. s[n + 1].chain = IF r.ok THEN Called(r.chain, c.to, c.fn, c.args) ELSE r.chain
    BY <2>1 DEF Attempted
  <2>4. r.ok /\ Accepted(r.chain, from, c.to, c.fn, c.args)
    BY <1>6, <2>2, Zenon
  <2> QED BY <2>3, <2>4 DEF r
<1>7. Unfolds(s, from, calls)
  BY <1>5, <1>6, Zenon DEF Unfolds
<1> QED BY <1>3, <1>7

\* A batch that goes through changes no set of contracts, and grants roles only on timelocks.
LEMMA BatchKeeps ==
  ASSUME ChainOK(chain), NEW from, NEW calls, IsSequence(calls), Batch(from, calls).ok
  PROVE  /\ ChainOK(Batch(from, calls).chain)
         /\ DOMAIN Batch(from, calls).chain.contracts = DOMAIN chain.contracts
<1>1. PICK s : Unfolds(s, from, calls) /\ Batch(from, calls) = s[Len(calls)]
  BY BatchUnfolds
<1> DEFINE Good(c) == ChainOK(c) /\ DOMAIN c.contracts = DOMAIN chain.contracts
           S == {n \in Nat : n <= Len(calls) /\ s[n].ok => Good(s[n].chain)}
<1>2. 0 \in S
  BY <1>1 DEF Unfolds
<1>3. ASSUME NEW n \in Nat, n \in S
      PROVE  n + 1 \in S
  <2> SUFFICES ASSUME n + 1 <= Len(calls), s[n + 1].ok PROVE Good(s[n + 1].chain)
    OBVIOUS
  <2> DEFINE c == calls[n + 1]
  <2>1. /\ s[n].ok /\ Accepted(s[n].chain, from, c.to, c.fn, c.args)
        /\ s[n + 1].chain = Called(s[n].chain, c.to, c.fn, c.args)
    BY <1>1 DEF Unfolds
  <2>2. Good(s[n].chain)
    BY <1>3, <2>1 DEF IsSequence
  <2> HIDE DEF c
  <2> QED BY <2>1, <2>2, CallKeeps
<1>4. Nat \subseteq S
  <2> HIDE DEF S
  <2> QED BY <1>2, <1>3, SetInduction
<1>5. Len(calls) \in S
  BY <1>4 DEF IsSequence
<1> QED BY <1>1, <1>5 DEF IsSequence

-----------------------------------------------------------------------------
(* The invariant                                                             *)

\* The procedure is a sequence.
LEMMA ProcedureSequence == PlaceOK => Len(Procedure) \in Nat /\ DOMAIN Procedure = 1..Len(Procedure)
BY ScriptsAssumption DEF PlaceOK, Procedure, IsSequence

\* What the scripts have in common holds of the running script and of its next step.
Copies(script) == \E j \in DOMAIN script.steps : script.steps[j].op = "copy"
LEMMA ScriptFacts ==
  ASSUME PlaceOK, at <= Len(Procedure)
  PROVE  /\ at \in DOMAIN Procedure /\ Script.file \in Files
         /\ Len(Script.steps) \in Nat /\ DOMAIN Script.steps = 1..Len(Script.steps)
         /\ run.pc \in 1..Len(Script.steps) =>
              /\ StepOK(Procedure, at, Step)
              /\ Step.op # "copy" => ~ Copies(Script)
<1>1. at \in DOMAIN Procedure
  BY ProcedureSequence DEF PlaceOK
<1>2. /\ Script.file \in Files
      /\ Len(Script.steps) \in Nat /\ DOMAIN Script.steps = 1..Len(Script.steps)
      /\ \A j \in DOMAIN Script.steps : StepOK(Procedure, at, Script.steps[j])
  BY <1>1, ScriptsAssumption DEF PlaceOK, Procedure, Script, IsSequence
<1>3. ASSUME run.pc \in 1..Len(Script.steps), Step.op # "copy", Copies(Script)
      PROVE  FALSE
  <2>1. PICK j \in DOMAIN Script.steps : Script.steps[j].op = "copy"
    BY <1>3 DEF Copies
  <2>2. StepOK(Procedure, at, Script.steps[j]) /\ Script = Procedure[at]
    BY <1>2 DEF Script
  <2>3. \A l \in DOMAIN Script.steps : Script.steps[l].op = "copy"
    BY <2>1, <2>2 DEF StepOK
  <2> QED BY <1>2, <1>3, <2>3 DEF Step
<1> QED BY <1>1, <1>2, <1>3 DEF Step

\* Where a running script is.
LEMMA StepFacts ==
  ASSUME DeployInv, Running, run.pc <= Len(Script.steps)
  PROVE  /\ at \in DOMAIN Procedure /\ Script.file \in Files
         /\ run.pc \in DOMAIN Script.steps /\ Step = Script.steps[run.pc]
         /\ StepOK(Procedure, at, Step)
         /\ Step.op # "copy" => ~ Copies(Script)
BY ScriptFacts DEF DeployInv, RunOK, Running, Step

\* The first state.
LEMMA DeployInitially == Init => DeployInv
<1> SUFFICES ASSUME Init PROVE DeployInv
  OBVIOUS
<1>1. PlaceOK
  <2>1. procedure \in DOMAIN Scripts /\ at = 1 /\ interrupts = 0 /\ failed = {}
    BY DEF Init
  <2>2. Len(Procedure) \in Nat
    BY <2>1, ScriptsAssumption DEF Procedure, IsSequence
  <2>3. interrupts \in 0..MaxInterrupts
    BY <2>1, BoundsAssumption
  <2>4. at \in 1..(Len(Procedure) + 1)
    BY <2>1, <2>2
  <2> QED BY <2>1, <2>3, <2>4 DEF PlaceOK
<1>2. RunOK
  BY DEF Init, RunOK, Idle, Running, Addresses
<1>3. GlobalsOK
  BY DEF Init, GlobalsOK, Addresses, Procedure
<1>4. ChainOK(chain)
  BY DEF Init, ChainOK, NoContracts
<1>5. PendingOK
  <2>1. pending = <<>> /\ Range(pending) = {}
    BY DEF Init, Range
  <2> QED BY <2>1 DEF PendingOK
<1> QED BY <1>1, <1>2, <1>3, <1>4, <1>5 DEF DeployInv

-----------------------------------------------------------------------------
(* The proposals that wait                                                   *)

\* A sequence with one element taken from it, or one more.
LEMMA RemoveFacts ==
  ASSUME NEW q, q \in Seq(Range(q)), NEW i \in DOMAIN q
  PROVE  /\ RemoveAt(q, i) \in Seq(Range(RemoveAt(q, i)))
         /\ Range(RemoveAt(q, i)) \subseteq Range(q)
<1> DEFINE S == Range(q)
           n == Len(q)
           left == SubSeq(q, 1, i - 1)
           right == SubSeq(q, i + 1, n)
           r == RemoveAt(q, i)
<1>1. q \in Seq(S) /\ n \in Nat /\ i \in 1..n
  <2> HIDE DEF S
  <2>1. q \in Seq(S)
    BY DEF S
  <2> QED BY <2>1
<1>2. left \in Seq(S) /\ right \in Seq(S)
  <2> HIDE DEF S
  <2>1. \A k \in 1..n : q[k] \in S
    BY <1>1
  <2>2. i - 1 \in 0..n /\ i + 1 \in 1..(n + 1)
    BY <1>1
  <2> QED BY <1>1, <2>1, <2>2
<1>3. r \in Seq(S)
  <2> HIDE DEF S, left, right
  <2>1. r = left \o right
    BY Zenon DEF RemoveAt, left, right
  <2> HIDE DEF r
  <2> QED BY <1>2, <2>1
<1> HIDE DEF S, r
<1>4. Range(r) \subseteq S
  BY <1>3 DEF Range
<1>5. r \in Seq(Range(r))
  <2>1. \A k \in 1..Len(r) : r[k] \in Range(r)
    BY <1>3 DEF Range
  <2> QED BY <1>3, <2>1
<1> QED BY <1>4, <1>5 DEF S, r
LEMMA AppendFacts ==
  ASSUME NEW q, q \in Seq(Range(q)), NEW p
  PROVE  /\ Append(q, p) \in Seq(Range(Append(q, p)))
         /\ Range(Append(q, p)) \subseteq Range(q) \cup {p}
<1> DEFINE S == Range(q) \cup {p}
           r == Append(q, p)
<1>1. q \in Seq(S)
  <2>1. Range(q) \subseteq S
    OBVIOUS
  <2> HIDE DEF S
  <2> QED BY <2>1
<1>2. r \in Seq(S)
  <2>1. p \in S
    OBVIOUS
  <2> HIDE DEF S
  <2> QED BY <1>1, <2>1
<1> HIDE DEF S, r
<1>3. Range(r) \subseteq S
  BY <1>2 DEF Range
<1>4. r \in Seq(Range(r))
  <2>1. \A k \in 1..Len(r) : r[k] \in Range(r)
    BY <1>2 DEF Range
  <2> QED BY <1>2, <2>1
<1> QED BY <1>3, <1>4 DEF S, r

-----------------------------------------------------------------------------
(* A step preserves the invariant                                            *)

\* Between two steps of a script the parts of the invariant that do not move stay.
LEMMA StayPlace ==
  ASSUME PlaceOK, UNCHANGED <<procedure, at, interrupts, failed>>
  PROVE  PlaceOK'
BY DEF PlaceOK, Procedure, Names
LEMMA StayGlobals ==
  ASSUME GlobalsOK, UNCHANGED <<procedure, globals>>,
         DOMAIN chain.contracts \subseteq DOMAIN chain'.contracts
  PROVE  GlobalsOK'
BY DEF GlobalsOK, Procedure, Addresses
LEMMA StayPending == PendingOK /\ UNCHANGED pending => PendingOK'
BY DEF PendingOK
LEMMA StayChain == ChainOK(chain) /\ UNCHANGED chain => ChainOK(chain)'
BY DEF ChainOK, OfKind

\* No script is running.
LEMMA RunEnds == run' = Idle => RunOK'
BY DEF RunOK, Idle, Running, Addresses

\* A running script takes a step: it remembers what it has read, and the contract it deployed.
LEMMA RunAdvances ==
  ASSUME RunOK, Running, UNCHANGED <<procedure, at>>,
         DOMAIN chain.contracts \subseteq DOMAIN chain'.contracts,
         NEW self \in Addresses', NEW args,
         run' = [run EXCEPT !.pc = @ + 1, !.self = self, !.args = args]
  PROVE  RunOK'
<1>1. /\ DOMAIN run' = DOMAIN run
      /\ run'.pc = run.pc + 1 /\ run'.data = run.data /\ run'.self = self
  BY DEF RunOK
<1>2. Procedure' = Procedure /\ Script' = Script /\ Addresses \subseteq Addresses'
  BY DEF Procedure, Script, Addresses
<1> QED BY <1>1, <1>2 DEF RunOK, Running
LEMMA RunSteps ==
  ASSUME RunOK, Running, UNCHANGED <<procedure, at>>,
         DOMAIN chain.contracts \subseteq DOMAIN chain'.contracts, Next_step
  PROVE  RunOK'
<1>1. /\ DOMAIN run' = DOMAIN run
      /\ run'.pc = run.pc + 1 /\ run'.data = run.data /\ run'.self = run.self
  BY DEF RunOK, Next_step
<1>2. Procedure' = Procedure /\ Script' = Script /\ Addresses \subseteq Addresses'
  BY DEF Procedure, Script, Addresses
<1> QED BY <1>1, <1>2 DEF RunOK, Running

\* A script starts: it reads its globals file.
LEMMA StartKeeps == DeployInv /\ Start => DeployInv'
<1> SUFFICES ASSUME DeployInv, Start PROVE DeployInv'
  OBVIOUS
<1>1. UNCHANGED <<procedure, at, globals, chain, pending, interrupts, failed>>
  BY DEF Start
<1>2. RunOK'
  <2>1. run' = [pc |-> 1, data |-> globals[Script.file], self |-> Undefined, args |-> <<>>]
    BY DEF Start, Idle
  <2>2. at <= Len(Procedure)
    BY ProcedureSequence DEF Start, Finished, DeployInv, PlaceOK
  <2>3. Script.file \in Files
    BY <2>2, ScriptFacts DEF DeployInv
  <2>4. /\ DOMAIN globals[Script.file] = Keys(Procedure, Script.file)
        /\ \A k \in DOMAIN globals[Script.file] : globals[Script.file][k] \in Addresses
    BY <2>3 DEF DeployInv, GlobalsOK
  <2>5. Procedure' = Procedure /\ Script' = Script /\ Addresses' = Addresses /\ at' = at
    BY <1>1 DEF Procedure, Script, Addresses
  <2>6. Undefined \in Addresses
    BY DEF Addresses
  <2> QED BY <2>1, <2>2, <2>4, <2>5, <2>6 DEF RunOK
<1> QED BY <1>1, <1>2, StayPlace, StayGlobals, StayChain, StayPending DEF DeployInv

\* A deployment, at the next address or at a fixed one.
LEMMA DeployKeeps == DeployInv /\ (DoDeploy \/ DoCreate2) => DeployInv'
<1> SUFFICES ASSUME DeployInv, DoDeploy \/ DoCreate2 PROVE DeployInv'
  OBVIOUS
<1> DEFINE a == ReadAll(Step.args)
           self == NextAddress(chain, Step.kind)
<1>1. /\ Running
      /\ UNCHANGED <<procedure, at, interrupts, failed, globals, pending>>
      /\ chain' = Created(chain, Step.kind, a)
      /\ run' = [run EXCEPT !.pc = @ + 1, !.self = self, !.args = a]
  BY DEF DoDeploy, DoCreate2, OnStep, Quiet
<1> HIDE DEF a
<1>2. ChainOK(chain)' /\ DOMAIN chain'.contracts = DOMAIN chain.contracts \cup {self}
  <2>1. ChainOK(chain') /\ DOMAIN chain'.contracts = DOMAIN chain.contracts \cup {self}
    BY <1>1, CreateKeeps DEF DeployInv
  <2> QED BY <2>1 DEF ChainOK, OfKind
<1> HIDE DEF self
<1>3. self \in Addresses'
  BY <1>2 DEF Addresses
<1>4. RunOK'
  BY <1>1, <1>2, <1>3, RunAdvances DEF DeployInv
<1> QED BY <1>1, <1>2, <1>4, StayPlace, StayGlobals, StayPending DEF DeployInv

\* A check of what the script did, and the verification of the contract.
LEMMA CheckKeeps == DeployInv /\ (DoVerify \/ DoExpect) => DeployInv'
<1> SUFFICES ASSUME DeployInv, DoVerify \/ DoExpect PROVE DeployInv'
  OBVIOUS
<1>1. Running /\ Next_step /\ UNCHANGED <<procedure, at, interrupts, failed, globals, chain, pending>>
  BY DEF DoVerify, DoExpect, OnStep, Quiet
<1>2. RunOK'
  BY <1>1, RunSteps DEF DeployInv
<1> QED BY <1>1, <1>2, StayPlace, StayGlobals, StayChain, StayPending DEF DeployInv

\* The file is written back: every address in it was read from it, or is that of the contract
\* the script has deployed.
LEMMA WriteKeeps == DeployInv /\ DoWrite => DeployInv'
<1> SUFFICES ASSUME DeployInv, DoWrite PROVE DeployInv'
  OBVIOUS
<1> DEFINE data == [run.data EXCEPT ![Step.key] = run.self]
<1>1. /\ Running
      /\ UNCHANGED <<procedure, at, interrupts, failed, chain, pending>>
      /\ globals' = [globals EXCEPT ![Script.file] = data]
      /\ run' = [run EXCEPT !.pc = @ + 1, !.data = data]
  BY DEF DoWrite, OnStep, Quiet
<1>2. /\ DOMAIN data = Keys(Procedure, Script.file)
      /\ \A k \in DOMAIN data : data[k] \in Addresses
  BY <1>1 DEF DeployInv, RunOK
<1>3. Procedure' = Procedure /\ Script' = Script /\ Addresses' = Addresses
  BY <1>1 DEF Procedure, Script, Addresses
<1> HIDE DEF data
<1>4. RunOK'
  <2>1. /\ DOMAIN run' = DOMAIN run
        /\ run'.pc = run.pc + 1 /\ run'.data = data /\ run'.self = run.self
    BY <1>1 DEF DeployInv, RunOK
  <2> QED BY <1>1, <1>2, <1>3, <2>1 DEF DeployInv, RunOK, Running
<1>5. GlobalsOK'
  <2>1. Script.file \in Files
    BY <1>1, ScriptFacts DEF DeployInv, RunOK
  <2> QED BY <1>1, <1>2, <1>3, <2>1 DEF DeployInv, GlobalsOK
<1> QED BY <1>1, <1>4, <1>5, StayPlace, StayChain, StayPending DEF DeployInv

\* A transaction of the deployer.
LEMMA TransactionKeeps == DeployInv /\ DoCall => DeployInv'
<1> SUFFICES ASSUME DeployInv, DoCall PROVE DeployInv'
  OBVIOUS
<1> DEFINE a == ReadAll(Step.args)
           to == Read(Step.to)
<1>1. /\ Running /\ Next_step
      /\ UNCHANGED <<procedure, at, interrupts, failed, globals, pending>>
      /\ chain' = Called(chain, to, Step.fn, a)
      /\ Accepted(chain, EOA, to, Step.fn, a)
  BY DEF DoCall, OnStep, Quiet, CallAccepted
<1> HIDE DEF a, to
<1>2. ChainOK(chain)' /\ DOMAIN chain'.contracts = DOMAIN chain.contracts
  <2>1. ChainOK(chain') /\ DOMAIN chain'.contracts = DOMAIN chain.contracts
    BY <1>1, CallKeeps DEF DeployInv
  <2> QED BY <2>1 DEF ChainOK, OfKind
<1>3. RunOK'
  BY <1>1, <1>2, RunSteps DEF DeployInv
<1> QED BY <1>1, <1>2, <1>3, StayPlace, StayGlobals, StayPending DEF DeployInv

\* A proposal is made, and waits behind the others.
LEMMA ProposeKeeps == DeployInv /\ DoPropose => DeployInv'
<1> SUFFICES ASSUME DeployInv, DoPropose PROVE DeployInv'
  OBVIOUS
<1> DEFINE calls == Resolved(Step.calls)
<1>1. /\ Running /\ run.pc <= Len(Script.steps) /\ Step.op = "propose" /\ Next_step
      /\ UNCHANGED <<procedure, at, interrupts, failed, globals, chain>>
  BY DEF DoPropose, OnStep, Quiet
<1>2. PICK p : p.calls = calls /\ pending' = Append(pending, p)
  <2>1. PICK g : pending' = Append(pending, [governor |-> g, as |-> Read(Step.as),
                                             calls |-> calls, by |-> Script.name])
    BY DEF DoPropose
  <2> QED BY <2>1
<1>3. RunOK'
  BY <1>1, RunSteps DEF DeployInv
<1>4. IsSequence(calls)
  <2>2. IsSequence(Step.calls)
    BY <1>1, StepFacts DEF StepOK
  <2> DEFINE n == Len(Step.calls)
             S == {calls[i] : i \in 1..n}
  <2>3. n \in Nat /\ DOMAIN Step.calls = 1..n
    BY <2>2 DEF IsSequence
  <2>4. DOMAIN calls = 1..n /\ calls = [i \in 1..n |-> calls[i]]
    BY <2>3 DEF Resolved
  <2> HIDE DEF n, calls
  <2>5. calls \in Seq(S)
    BY <2>3, <2>4
  <2> QED BY <2>5 DEF IsSequence
<1> HIDE DEF calls
<1>5. PendingOK'
  <2>1. /\ pending' \in Seq(Range(pending'))
        /\ Range(pending') \subseteq Range(pending) \cup {p}
    BY <1>2, AppendFacts DEF DeployInv, PendingOK
  <2>2. \A q \in Range(pending') : IsSequence(q.calls)
    BY <1>2, <1>4, <2>1 DEF DeployInv, PendingOK
  <2> QED BY <2>1, <2>2 DEF PendingOK, Range
<1> QED BY <1>1, <1>3, <1>5, StayPlace, StayGlobals, StayChain DEF DeployInv

\* The operator copies addresses from one file to another.
LEMMA CopyKeeps == DeployInv /\ DoCopy => DeployInv'
<1> SUFFICES ASSUME DeployInv, DoCopy PROVE DeployInv'
  OBVIOUS
<1> DEFINE from == globals[Step.from]
           old == globals[Step.to]
           new == [k \in DOMAIN old |->
                     IF k \in DOMAIN Step.keys THEN from[Step.keys[k]] ELSE old[k]]
<1>1. /\ Running /\ run.pc <= Len(Script.steps) /\ Step.op = "copy" /\ Next_step
      /\ UNCHANGED <<procedure, at, interrupts, failed, chain, pending>>
      /\ globals' = [globals EXCEPT ![Step.to] = new]
  BY DEF DoCopy, OnStep, Quiet
<1>2. RunOK'
  BY <1>1, RunSteps DEF DeployInv
<1>3. /\ Step.from \in Files /\ Step.to \in Files
      /\ Range(Step.keys) \subseteq Keys(Procedure, Step.from)
  BY <1>1, StepFacts DEF StepOK
<1>4. \A k \in DOMAIN new : new[k] \in Addresses
  <2> SUFFICES ASSUME NEW k \in DOMAIN old PROVE new[k] \in Addresses
    OBVIOUS
  <2>1. CASE k \in DOMAIN Step.keys
    <3>1. Step.keys[k] \in DOMAIN from
      BY <1>3, <2>1 DEF Range, DeployInv, GlobalsOK
    <3> QED BY <1>3, <2>1, <3>1 DEF DeployInv, GlobalsOK
  <2>2. CASE k \notin DOMAIN Step.keys
    BY <1>3, <2>2 DEF DeployInv, GlobalsOK
  <2> QED BY <2>1, <2>2
<1>5. DOMAIN new = DOMAIN old
  OBVIOUS
<1> HIDE DEF new
<1>6. GlobalsOK'
  <2>1. Procedure' = Procedure /\ Addresses' = Addresses
    BY <1>1 DEF Procedure, Addresses
  <2> QED BY <1>1, <1>3, <1>4, <1>5, <2>1 DEF DeployInv, GlobalsOK
<1> QED BY <1>1, <1>2, <1>6, StayPlace, StayChain, StayPending DEF DeployInv

\* A script ends: it is done, throws, or is interrupted; or the operator mends it.
LEMMA EndKeeps == DeployInv /\ (Finish \/ Throw \/ Mend \/ Interrupt) => DeployInv'
<1> SUFFICES ASSUME DeployInv, Finish \/ Throw \/ Mend \/ Interrupt PROVE DeployInv'
  OBVIOUS
<1>1. UNCHANGED <<procedure, globals, chain, pending>>
  BY DEF Finish, Throw, Mend, Interrupt
<1>2. RunOK'
  <2>1. CASE run' = Idle
    BY <2>1, RunEnds
  <2>2. CASE Mend
    BY <1>1, <2>2 DEF Mend, DeployInv, RunOK, Running, Addresses
  <2> QED BY <2>1, <2>2 DEF Finish, Throw, Interrupt
<1>3. PlaceOK'
  <2>1. Procedure' = Procedure /\ Names' = Names
    BY <1>1 DEF Procedure, Names
  <2>2. at \in 1..(Len(Procedure) + 1) /\ (Finish \/ Throw \/ Mend => at <= Len(Procedure))
    <3>1. at \in 1..(Len(Procedure) + 1) /\ Len(Procedure) \in Nat
      BY ProcedureSequence DEF DeployInv, PlaceOK
    <3> QED BY <3>1 DEF DeployInv, RunOK, Finish, Throw, Mend
  <2>3. at' \in 1..(Len(Procedure) + 1)
    BY <2>2, ProcedureSequence DEF Finish, Throw, Mend, Interrupt, DeployInv
  <2>4. interrupts' \in 0..MaxInterrupts
    <3>1. interrupts \in 0..MaxInterrupts
      BY DEF DeployInv, PlaceOK
    <3>2. interrupts' = interrupts \/ (interrupts < MaxInterrupts /\ interrupts' = interrupts + 1)
      BY DEF Finish, Throw, Mend, Interrupt
    <3> QED BY <3>1, <3>2, BoundsAssumption
  <2>5. failed' \subseteq Names
    <3>1. failed \subseteq Names
      BY DEF DeployInv, PlaceOK
    <3>2. failed' = failed \/ (Throw /\ failed' = failed \cup {Script.name})
      BY Zenon DEF Finish, Throw, Mend, Interrupt
    <3>3. ASSUME Throw PROVE Script.name \in Names
      BY <2>2, <3>3, ProcedureSequence DEF DeployInv, PlaceOK, Script, Names
    <3> QED BY <3>1, <3>2, <3>3
  <2> QED BY <1>1, <2>1, <2>3, <2>4, <2>5 DEF DeployInv, PlaceOK
<1> QED BY <1>1, <1>2, <1>3, StayGlobals, StayChain, StayPending DEF DeployInv

\* A proposal is executed and taken from those that wait.
LEMMA ExecuteKeeps == DeployInv /\ Execute => DeployInv'
<1> SUFFICES ASSUME DeployInv, Execute PROVE DeployInv'
  OBVIOUS
<1>1. PICK i \in DOMAIN pending :
        /\ CanExecute(pending[i])
        /\ chain' = Batch(pending[i].as, pending[i].calls).chain
        /\ pending' = RemoveAt(pending, i)
        /\ UNCHANGED <<procedure, at, run, globals, interrupts, failed>>
  BY DEF Execute
<1> DEFINE p == pending[i]
<1>2. IsSequence(p.calls)
  BY DEF DeployInv, PendingOK, Range
<1>3. ChainOK(chain)' /\ DOMAIN chain'.contracts = DOMAIN chain.contracts
  <2>1. Batch(p.as, p.calls).ok
    BY <1>1 DEF CanExecute
  <2>2. ChainOK(chain') /\ DOMAIN chain'.contracts = DOMAIN chain.contracts
    <3> HIDE DEF p
    <3>1. chain' = Batch(p.as, p.calls).chain
      BY <1>1 DEF p
    <3> QED BY <1>2, <2>1, <3>1, BatchKeeps DEF DeployInv
  <2> QED BY <2>2 DEF ChainOK, OfKind
<1>4. RunOK'
  <2>1. Procedure' = Procedure /\ Script' = Script /\ Addresses' = Addresses
    BY <1>1, <1>3 DEF Procedure, Script, Addresses
  <2> QED BY <1>1, <2>1 DEF DeployInv, RunOK, Running
<1>5. PendingOK'
  <2>1. /\ pending' \in Seq(Range(pending'))
        /\ Range(pending') \subseteq Range(pending)
    BY <1>1, RemoveFacts DEF DeployInv, PendingOK
  <2> QED BY <2>1 DEF DeployInv, PendingOK, Range
<1> QED BY <1>1, <1>3, <1>4, <1>5, StayPlace, StayGlobals DEF DeployInv

\* Every step preserves the invariant.
LEMMA DeployNext == DeployInv /\ [Next]_vars => DeployInv'
<1> SUFFICES ASSUME DeployInv, [Next]_vars PROVE DeployInv'
  OBVIOUS
<1>1. CASE Next
  BY <1>1, StartKeeps, DeployKeeps, CheckKeeps, WriteKeeps, TransactionKeeps, ProposeKeeps,
     CopyKeeps, EndKeeps, ExecuteKeeps DEF Next
<1>2. CASE UNCHANGED vars
  <2>1. RunOK'
    <3>1. Procedure' = Procedure /\ Script' = Script /\ Addresses' = Addresses
      BY <1>2 DEF vars, Procedure, Script, Addresses
    <3> QED BY <1>2, <3>1 DEF vars, DeployInv, RunOK, Running
  <2> QED BY <1>2, <2>1, StayPlace, StayGlobals, StayChain, StayPending DEF vars, DeployInv
<1> QED BY <1>1, <1>2

\* The invariant implies the property.
LEMMA InvHolds == DeployInv => TypeOK
BY DEF DeployInv, PlaceOK, RunOK, GlobalsOK, ChainOK, TypeOK, Addresses

\* However often the scripts are interrupted and run again, and whenever the proposals go through:
\* the globals files name only contracts that exist (each script writes the whole file back as it
\* has read it, deploy_08_09_governor_and_roles.js:102-103), roles are granted on timelocks only,
\* and a running script is one of the procedure.
THEOREM DeploymentTypeCorrect == Spec => []TypeOK
<1>1. Spec => []DeployInv
  BY DeployInitially, DeployNext, PTL DEF Spec
<1> QED BY <1>1, InvHolds, PTL

-----------------------------------------------------------------------------
(* No address is lost                                                        *)

\* A running script knows its file as it is; only the operator copies in between.
Fresh == Running /\ ~ Copies(Script) => run.data = globals[Script.file]

\* A write changes one key of one file.
WritesOneKey ==
  DoWrite => \A f \in Files : \A k \in DOMAIN globals[f] :
               <<f, k>> # <<Script.file, Step.key>> => globals'[f][k] = globals[f][k]

LEMMA FreshNext == DeployInv /\ Fresh /\ [Next]_vars => Fresh'
<1> SUFFICES ASSUME DeployInv, Fresh, [Next]_vars, Running', ~ Copies(Script')
             PROVE  run'.data = globals'[Script'.file]
  BY DEF Fresh
<1>1. CASE Start
  BY <1>1 DEF Start, Idle, Script, Procedure
<1>2. CASE DoWrite
  <2> DEFINE data == [run.data EXCEPT ![Step.key] = run.self]
  <2>1. /\ Running /\ UNCHANGED <<procedure, at>>
        /\ globals' = [globals EXCEPT ![Script.file] = data]
        /\ run' = [run EXCEPT !.pc = @ + 1, !.data = data]
    BY <1>2 DEF DoWrite, OnStep, Quiet
  <2>2. Script.file \in DOMAIN globals
    BY <2>1, ScriptFacts DEF DeployInv, RunOK, GlobalsOK
  <2>3. Script' = Script
    BY <2>1 DEF Script, Procedure
  <2> HIDE DEF data
  <2> QED BY <2>1, <2>2, <2>3 DEF DeployInv, RunOK
<1>3. CASE DoCopy
  <2>1. Running /\ run.pc <= Len(Script.steps) /\ Step.op = "copy" /\ UNCHANGED <<procedure, at>>
    BY <1>3 DEF DoCopy, OnStep, Quiet
  <2>2. Copies(Script)
    BY <2>1, StepFacts DEF Copies
  <2>3. Script' = Script
    BY <2>1 DEF Script, Procedure
  <2> QED BY <2>2, <2>3
<1>4. CASE Finish \/ Throw \/ Mend \/ Interrupt
  BY <1>4 DEF Finish, Throw, Mend, Interrupt, Running, Idle
<1>5. CASE DoDeploy \/ DoCreate2 \/ DoVerify \/ DoCall \/ DoExpect \/ DoPropose \/ Execute
  <2>1. /\ UNCHANGED <<procedure, at, globals>>
        /\ Running' => Running
        /\ run'.data = run.data
    BY <1>5 DEF DoDeploy, DoCreate2, DoVerify, DoCall, DoExpect, DoPropose, Execute, OnStep, Quiet,
       Next_step, DeployInv, RunOK, Running
  <2>2. Script' = Script
    BY <2>1 DEF Script, Procedure
  <2> QED BY <2>1, <2>2 DEF Fresh
<1>6. CASE UNCHANGED vars
  <2>1. Script' = Script
    BY <1>6 DEF vars, Script, Procedure
  <2> QED BY <1>6, <2>1 DEF Fresh, vars, Running
<1> QED BY <1>1, <1>2, <1>3, <1>4, <1>5, <1>6 DEF Next

\* A script writes the whole globals file back as it read it when it started
\* (deploy_08_09_governor_and_roles.js:10 and 102-103), and yet no address recorded since is lost,
\* whatever was interrupted and whichever proposals went through in between: it changes its own
\* key and no other.
THEOREM NoAddressLost == Spec => [][WritesOneKey]_vars
<1>1. Init => Fresh
  BY DEF Init, Fresh, Running, Idle
<1>2. Spec => [](DeployInv /\ Fresh)
  BY <1>1, DeployInitially, DeployNext, FreshNext, PTL DEF Spec
<1>3. DeployInv /\ Fresh => WritesOneKey
  <2> SUFFICES ASSUME DeployInv, Fresh, DoWrite, NEW f \in Files, NEW k \in DOMAIN globals[f],
                      <<f, k>> # <<Script.file, Step.key>>
               PROVE  globals'[f][k] = globals[f][k]
    BY DEF WritesOneKey
  <2> DEFINE data == [run.data EXCEPT ![Step.key] = run.self]
  <2>1. /\ Running /\ run.pc <= Len(Script.steps) /\ Step.op = "write"
        /\ globals' = [globals EXCEPT ![Script.file] = data]
    BY DEF DoWrite, OnStep
  <2>2. ~ Copies(Script)
    BY <2>1, StepFacts
  <2>3. run.data = globals[Script.file]
    BY <2>1, <2>2 DEF Fresh
  <2>4. DOMAIN globals = Files
    BY DEF DeployInv, GlobalsOK
  <2>5. CASE f = Script.file
    BY <2>1, <2>3, <2>4, <2>5
  <2>6. CASE f # Script.file
    BY <2>1, <2>4, <2>6
  <2> QED BY <2>5, <2>6
<1> QED BY <1>2, <1>3, PTL

-----------------------------------------------------------------------------
(* What contracts refer to                                                   *)

\* The values of keys that no script to come writes.
Final(f, k) == \A w \in DOMAIN Procedure : k \in KeysOf(Procedure[w], f) => w < at
FinalValues == UNION {{globals[f][k] : k \in {k \in DOMAIN globals[f] : Final(f, k)}} : f \in Files}

\* A value that is no contract, or recorded for good.
SafeIn(v, S) == v[2] = 0 \/ v \in S
ArgsSafe(n, a, S) == 1..n \subseteq DOMAIN a /\ \A j \in DOMAIN a : SafeIn(a[j], S)
FieldsSafe(c, S) == \A f \in DOMAIN c : SafeIn(c[f], S)
RefsOK(c, S) == \A r \in DOMAIN c.contracts : FieldsSafe(c.contracts[r], S)
\* who has roles in a timelock: such a value, the timelock itself, or a governor
HolderOK(r, S) == SafeIn(r[3], S) \/ r[3] = r[1] \/ Kind(r[3]) = "GovernorOLAS"
RolesOK(c, S) == \A r \in c.roles : HolderOK(r, S)

\* A constructor stores its arguments, the deployer or nothing: in the tokenomics repository,
LEMMA TokenomicsSafe ==
  ASSUME NEW kind, NEW a, NEW S, ArgsSafe(Arity(kind), a, S)
  PROVE  FieldsSafe(ConstructedTokenomics(kind, a), S)
<1> DEFINE c == ConstructedTokenomics(kind, a)
<1>0. SafeIn(EOA, S) /\ SafeIn(Zero, S)
  BY DEF SafeIn, EOA, Zero
<1>1. CASE kind = "DonatorBlacklist"
  <2>1. c = DonatorBlacklist(a)
    BY <1>1, Zenon DEF ConstructedTokenomics, Processors, TargetDispensers
  <2> QED BY <1>0, <2>1 DEF FieldsSafe, DonatorBlacklist
<1>2. CASE kind = "TokenomicsProxy"
  <2>1. c = TokenomicsProxy(a)
    BY <1>2, Zenon DEF ConstructedTokenomics, Processors, TargetDispensers
  <2>2. \A j \in 1..11 : SafeIn(a[j], S)
    <3>1. Arity(kind) = 11
      BY <1>2, Zenon DEF Arity
    <3> QED BY <3>1 DEF ArgsSafe
  <2> QED BY <1>0, <2>1, <2>2 DEF FieldsSafe, TokenomicsProxy
<1>3. CASE kind = "Treasury"
  <2>1. c = Treasury(a)
    BY <1>3, Zenon DEF ConstructedTokenomics, Processors, TargetDispensers
  <2>2. \A j \in 1..4 : SafeIn(a[j], S)
    <3>1. Arity(kind) = 4
      BY <1>3, Zenon DEF Arity
    <3> QED BY <3>1 DEF ArgsSafe
  <2> QED BY <1>0, <2>1, <2>2 DEF FieldsSafe, Treasury
<1>4. CASE kind = "GenericBondCalculator"
  <2>1. c = GenericBondCalculator(a)
    BY <1>4, Zenon DEF ConstructedTokenomics, Processors, TargetDispensers
  <2>2. \A j \in 1..2 : SafeIn(a[j], S)
    <3>1. Arity(kind) = 2
      BY <1>4, Zenon DEF Arity
    <3> QED BY <3>1 DEF ArgsSafe
  <2> QED BY <2>1, <2>2 DEF FieldsSafe, GenericBondCalculator
<1>5. CASE kind = "Depository"
  <2>1. c = Depository(a)
    BY <1>5, Zenon DEF ConstructedTokenomics, Processors, TargetDispensers
  <2>2. \A j \in 1..4 : SafeIn(a[j], S)
    <3>1. Arity(kind) = 4
      BY <1>5, Zenon DEF Arity
    <3> QED BY <3>1 DEF ArgsSafe
  <2> QED BY <1>0, <2>1, <2>2 DEF FieldsSafe, Depository
<1>6. CASE kind = "Dispenser"
  <2>1. c = Dispenser(a)
    BY <1>6, Zenon DEF ConstructedTokenomics, Processors, TargetDispensers
  <2>2. \A j \in 1..7 : SafeIn(a[j], S)
    <3>1. Arity(kind) = 7
      BY <1>6, Zenon DEF Arity
    <3> QED BY <3>1 DEF ArgsSafe
  <2> QED BY <1>0, <2>1, <2>2 DEF FieldsSafe, Dispenser
<1>7. CASE kind \in Processors
  <2>1. c = DefaultDepositProcessorL1(a)
    BY <1>7, Zenon DEF ConstructedTokenomics, Processors, TargetDispensers
  <2>2. SafeIn(a[1], S) /\ SafeIn(a[2], S)
    <3>1. Arity(kind) \in {5, 6, 7, 8}
      BY <1>7, Zenon DEF Processors, Arity
    <3> QED BY <3>1 DEF ArgsSafe
  <2> QED BY <1>0, <2>1, <2>2 DEF FieldsSafe, DefaultDepositProcessorL1
<1>8. CASE kind \in TargetDispensers
  <2>1. c = DefaultTargetDispenserL2(a)
    BY <1>8, Zenon DEF ConstructedTokenomics, Processors, TargetDispensers
  <2>2. SafeIn(a[1], S) /\ SafeIn(a[2], S)
    <3>1. Arity(kind) \in {5, 6, 7}
      BY <1>8, Zenon DEF TargetDispensers, Arity
    <3> QED BY <3>1 DEF ArgsSafe
  <2> QED BY <1>0, <2>1, <2>2 DEF FieldsSafe, DefaultTargetDispenserL2
<1>9. CASE kind \notin {"DonatorBlacklist", "TokenomicsProxy", "Treasury",
             "GenericBondCalculator", "Depository", "Dispenser"} /\ kind \notin Processors /\ kind
             \notin TargetDispensers
  <2>1. c = [created |-> Zero]
    BY <1>9, Zenon DEF ConstructedTokenomics
  <2> QED BY <1>0, <2>1 DEF FieldsSafe
<1> QED BY <1>1, <1>2, <1>3, <1>4, <1>5, <1>6, <1>7, <1>8, <1>9
\* in the registries repository,
LEMMA RegistriesSafe ==
  ASSUME NEW kind, NEW a, NEW S, ArgsSafe(Arity(kind), a, S)
  PROVE  FieldsSafe(ConstructedRegistries(kind, a), S)
<1> DEFINE c == ConstructedRegistries(kind, a)
<1>0. SafeIn(EOA, S) /\ SafeIn(Zero, S)
  BY DEF SafeIn, EOA, Zero
<1>1. CASE kind = "ComponentRegistry"
  <2>1. c = ComponentRegistry(a)
    BY <1>1, Zenon DEF ConstructedRegistries
  <2> QED BY <1>0, <2>1 DEF FieldsSafe, ComponentRegistry
<1>2. CASE kind = "AgentRegistry"
  <2>1. c = AgentRegistry(a)
    BY <1>2, Zenon DEF ConstructedRegistries
  <2>2. \A j \in 1..4 : SafeIn(a[j], S)
    <3>1. Arity(kind) = 4
      BY <1>2, Zenon DEF Arity
    <3> QED BY <3>1 DEF ArgsSafe
  <2> QED BY <1>0, <2>1, <2>2 DEF FieldsSafe, AgentRegistry
<1>3. CASE kind = "RegistriesManager"
  <2>1. c = RegistriesManager(a)
    BY <1>3, Zenon DEF ConstructedRegistries
  <2>2. \A j \in 1..2 : SafeIn(a[j], S)
    <3>1. Arity(kind) = 2
      BY <1>3, Zenon DEF Arity
    <3> QED BY <3>1 DEF ArgsSafe
  <2> QED BY <1>0, <2>1, <2>2 DEF FieldsSafe, RegistriesManager
<1>4. CASE kind = "ServiceRegistry"
  <2>1. c = ServiceRegistry(a)
    BY <1>4, Zenon DEF ConstructedRegistries
  <2>2. \A j \in 1..4 : SafeIn(a[j], S)
    <3>1. Arity(kind) = 4
      BY <1>4, Zenon DEF Arity
    <3> QED BY <3>1 DEF ArgsSafe
  <2> QED BY <1>0, <2>1, <2>2 DEF FieldsSafe, ServiceRegistry
<1>5. CASE kind = "ServiceRegistryL2"
  <2>1. c = ServiceRegistryL2(a)
    BY <1>5, Zenon DEF ConstructedRegistries
  <2> QED BY <1>0, <2>1 DEF FieldsSafe, ServiceRegistryL2
<1>6. CASE kind = "ServiceManager"
  <2>1. c = ServiceManager(a)
    BY <1>6, Zenon DEF ConstructedRegistries
  <2>2. \A j \in 1..1 : SafeIn(a[j], S)
    <3>1. Arity(kind) = 1
      BY <1>6, Zenon DEF Arity
    <3> QED BY <3>1 DEF ArgsSafe
  <2> QED BY <1>0, <2>1, <2>2 DEF FieldsSafe, ServiceManager
<1>7. CASE kind = "OperatorWhitelist"
  <2>1. c = OperatorWhitelist(a)
    BY <1>7, Zenon DEF ConstructedRegistries
  <2>2. \A j \in 1..1 : SafeIn(a[j], S)
    <3>1. Arity(kind) = 1
      BY <1>7, Zenon DEF Arity
    <3> QED BY <3>1 DEF ArgsSafe
  <2> QED BY <2>1, <2>2 DEF FieldsSafe, OperatorWhitelist
<1>8. CASE kind = "ServiceRegistryTokenUtility"
  <2>1. c = ServiceRegistryTokenUtility(a)
    BY <1>8, Zenon DEF ConstructedRegistries
  <2>2. \A j \in 1..1 : SafeIn(a[j], S)
    <3>1. Arity(kind) = 1
      BY <1>8, Zenon DEF Arity
    <3> QED BY <3>1 DEF ArgsSafe
  <2> QED BY <1>0, <2>1, <2>2 DEF FieldsSafe, ServiceRegistryTokenUtility
<1>9. CASE kind = "ServiceManagerToken"
  <2>1. c = ServiceManagerToken(a)
    BY <1>9, Zenon DEF ConstructedRegistries
  <2>2. \A j \in 1..3 : SafeIn(a[j], S)
    <3>1. Arity(kind) = 3
      BY <1>9, Zenon DEF Arity
    <3> QED BY <3>1 DEF ArgsSafe
  <2> QED BY <1>0, <2>1, <2>2 DEF FieldsSafe, ServiceManagerToken
<1>10. CASE kind = "StakingVerifier"
  <2>1. c = StakingVerifier(a)
    BY <1>10, Zenon DEF ConstructedRegistries
  <2>2. \A j \in 1..4 : SafeIn(a[j], S)
    <3>1. Arity(kind) = 4
      BY <1>10, Zenon DEF Arity
    <3> QED BY <3>1 DEF ArgsSafe
  <2> QED BY <1>0, <2>1, <2>2 DEF FieldsSafe, StakingVerifier
<1>11. CASE kind = "StakingFactory"
  <2>1. c = StakingFactory(a)
    BY <1>11, Zenon DEF ConstructedRegistries
  <2>2. \A j \in 1..1 : SafeIn(a[j], S)
    <3>1. Arity(kind) = 1
      BY <1>11, Zenon DEF Arity
    <3> QED BY <3>1 DEF ArgsSafe
  <2> QED BY <1>0, <2>1, <2>2 DEF FieldsSafe, StakingFactory
<1>12. CASE kind = "HashCheckpoint"
  <2>1. c = HashCheckpoint(a)
    BY <1>12, Zenon DEF ConstructedRegistries
  <2> QED BY <1>0, <2>1 DEF FieldsSafe, HashCheckpoint
<1>13. CASE kind \notin {"ComponentRegistry", "AgentRegistry", "RegistriesManager",
             "ServiceRegistry", "ServiceRegistryL2", "ServiceManager", "OperatorWhitelist",
             "ServiceRegistryTokenUtility", "ServiceManagerToken", "StakingVerifier",
             "StakingFactory", "HashCheckpoint"}
  <2>1. c = ConstructedTokenomics(kind, a)
    BY <1>13, Zenon DEF ConstructedRegistries
  <2> QED BY <2>1, TokenomicsSafe
<1> QED BY <1>1, <1>2, <1>3, <1>4, <1>5, <1>6, <1>7, <1>8, <1>9, <1>10, <1>11, <1>12, <1>13
\* in the bridges of the governance repository,
LEMMA BridgesSafe ==
  ASSUME NEW kind, NEW a, NEW S, ArgsSafe(Arity(kind), a, S)
  PROVE  FieldsSafe(ConstructedBridges(kind, a), S)
<1> DEFINE c == ConstructedBridges(kind, a)
<1>0. SafeIn(EOA, S) /\ SafeIn(Zero, S)
  BY DEF SafeIn, EOA, Zero
<1>1. CASE kind = "BridgedERC20"
  <2>1. c = BridgedERC20(a)
    BY <1>1, Zenon DEF ConstructedBridges
  <2> QED BY <1>0, <2>1 DEF FieldsSafe, BridgedERC20
<1>2. CASE kind = "FxERC20RootTunnel"
  <2>1. c = FxERC20RootTunnel(a)
    BY <1>2, Zenon DEF ConstructedBridges
  <2>2. \A j \in 1..4 : SafeIn(a[j], S)
    <3>1. Arity(kind) = 4
      BY <1>2, Zenon DEF Arity
    <3> QED BY <3>1 DEF ArgsSafe
  <2> QED BY <1>0, <2>1, <2>2 DEF FieldsSafe, FxERC20RootTunnel
<1>3. CASE kind = "FxERC20ChildTunnel"
  <2>1. c = FxERC20ChildTunnel(a)
    BY <1>3, Zenon DEF ConstructedBridges
  <2>2. \A j \in 1..3 : SafeIn(a[j], S)
    <3>1. Arity(kind) = 3
      BY <1>3, Zenon DEF Arity
    <3> QED BY <3>1 DEF ArgsSafe
  <2> QED BY <1>0, <2>1, <2>2 DEF FieldsSafe, FxERC20ChildTunnel
<1>4. CASE kind = "FxGovernorTunnel"
  <2>1. c = FxGovernorTunnel(a)
    BY <1>4, Zenon DEF ConstructedBridges
  <2>2. \A j \in 1..2 : SafeIn(a[j], S)
    <3>1. Arity(kind) = 2
      BY <1>4, Zenon DEF Arity
    <3> QED BY <3>1 DEF ArgsSafe
  <2> QED BY <2>1, <2>2 DEF FieldsSafe, FxGovernorTunnel
<1>5. CASE kind = "HomeMediator"
  <2>1. c = HomeMediator(a)
    BY <1>5, Zenon DEF ConstructedBridges
  <2>2. \A j \in 1..2 : SafeIn(a[j], S)
    <3>1. Arity(kind) = 2
      BY <1>5, Zenon DEF Arity
    <3> QED BY <3>1 DEF ArgsSafe
  <2> QED BY <2>1, <2>2 DEF FieldsSafe, HomeMediator
<1>6. CASE kind = "OptimismMessenger"
  <2>1. c = OptimismMessenger(a)
    BY <1>6, Zenon DEF ConstructedBridges
  <2>2. \A j \in 1..2 : SafeIn(a[j], S)
    <3>1. Arity(kind) = 2
      BY <1>6, Zenon DEF Arity
    <3> QED BY <3>1 DEF ArgsSafe
  <2> QED BY <2>1, <2>2 DEF FieldsSafe, OptimismMessenger
<1>7. CASE kind = "WormholeMessenger"
  <2>1. c = WormholeMessenger(a)
    BY <1>7, Zenon DEF ConstructedBridges
  <2>2. \A j \in 1..3 : SafeIn(a[j], S)
    <3>1. Arity(kind) = 3
      BY <1>7, Zenon DEF Arity
    <3> QED BY <3>1 DEF ArgsSafe
  <2> QED BY <2>1, <2>2 DEF FieldsSafe, WormholeMessenger
<1>8. CASE kind \notin {"BridgedERC20", "FxERC20RootTunnel", "FxERC20ChildTunnel",
             "FxGovernorTunnel", "HomeMediator", "OptimismMessenger", "WormholeMessenger"}
  <2>1. c = ConstructedRegistries(kind, a)
    BY <1>8, Zenon DEF ConstructedBridges
  <2> QED BY <2>1, RegistriesSafe
<1> QED BY <1>1, <1>2, <1>3, <1>4, <1>5, <1>6, <1>7, <1>8
\* and in the governance repository.
LEMMA ConstructorSafe ==
  ASSUME NEW kind, NEW a, NEW S, ArgsSafe(Arity(kind), a, S)
  PROVE  FieldsSafe(Constructed(kind, a), S)
<1> DEFINE c == Constructed(kind, a)
<1>0. SafeIn(EOA, S) /\ SafeIn(Zero, S)
  BY DEF SafeIn, EOA, Zero
<1>1. CASE kind = "DeploymentFactory"
  <2>1. c = DeploymentFactory(a)
    BY <1>1, Zenon DEF Constructed
  <2> QED BY <1>0, <2>1 DEF FieldsSafe, DeploymentFactory
<1>2. CASE kind = "OLAS"
  <2>1. c = OLAS(a)
    BY <1>2, Zenon DEF Constructed
  <2> QED BY <1>0, <2>1 DEF FieldsSafe, OLAS
<1>3. CASE kind = "Timelock"
  <2>1. c = Timelock(a)
    BY <1>3, Zenon DEF Constructed
  <2>2. \A j \in 1..3 : SafeIn(a[j], S)
    <3>1. Arity(kind) = 3
      BY <1>3, Zenon DEF Arity
    <3> QED BY <3>1 DEF ArgsSafe
  <2> QED BY <2>1, <2>2 DEF FieldsSafe, Timelock
<1>4. CASE kind = "veOLAS"
  <2>1. c = veOLAS(a)
    BY <1>4, Zenon DEF Constructed
  <2>2. \A j \in 1..3 : SafeIn(a[j], S)
    <3>1. Arity(kind) = 3
      BY <1>4, Zenon DEF Arity
    <3> QED BY <3>1 DEF ArgsSafe
  <2> QED BY <2>1, <2>2 DEF FieldsSafe, veOLAS
<1>5. CASE kind = "GovernorOLAS"
  <2>1. c = GovernorOLAS(a)
    BY <1>5, Zenon DEF Constructed
  <2>2. \A j \in 1..6 : SafeIn(a[j], S)
    <3>1. Arity(kind) = 6
      BY <1>5, Zenon DEF Arity
    <3> QED BY <3>1 DEF ArgsSafe
  <2> QED BY <2>1, <2>2 DEF FieldsSafe, GovernorOLAS
<1>6. CASE kind = "buOLAS"
  <2>1. c = buOLAS(a)
    BY <1>6, Zenon DEF Constructed
  <2>2. \A j \in 1..3 : SafeIn(a[j], S)
    <3>1. Arity(kind) = 3
      BY <1>6, Zenon DEF Arity
    <3> QED BY <3>1 DEF ArgsSafe
  <2> QED BY <1>0, <2>1, <2>2 DEF FieldsSafe, buOLAS
<1>7. CASE kind = "wveOLAS"
  <2>1. c = wveOLAS(a)
    BY <1>7, Zenon DEF Constructed
  <2>2. \A j \in 1..2 : SafeIn(a[j], S)
    <3>1. Arity(kind) = 2
      BY <1>7, Zenon DEF Arity
    <3> QED BY <3>1 DEF ArgsSafe
  <2> QED BY <2>1, <2>2 DEF FieldsSafe, wveOLAS
<1>8. CASE kind = "GuardCM"
  <2>1. c = GuardCM(a)
    BY <1>8, Zenon DEF Constructed
  <2>2. \A j \in 1..3 : SafeIn(a[j], S)
    <3>1. Arity(kind) = 3
      BY <1>8, Zenon DEF Arity
    <3> QED BY <3>1 DEF ArgsSafe
  <2> QED BY <2>1, <2>2 DEF FieldsSafe, GuardCM
<1>9. CASE kind \notin {"DeploymentFactory", "OLAS", "Timelock", "veOLAS", "GovernorOLAS",
             "buOLAS", "wveOLAS", "GuardCM"}
  <2>1. c = ConstructedBridges(kind, a)
    BY <1>9, Zenon DEF Constructed
  <2> QED BY <2>1, BridgesSafe
<1> QED BY <1>1, <1>2, <1>3, <1>4, <1>5, <1>6, <1>7, <1>8, <1>9

\* What is safe stays safe when more is recorded.
LinksOK(c, S) == RefsOK(c, S) /\ RolesOK(c, S)
LEMMA SafeGrows ==
  ASSUME NEW S, NEW T, S \subseteq T
  PROVE  /\ \A v : SafeIn(v, S) => SafeIn(v, T)
         /\ \A n, a : ArgsSafe(n, a, S) => ArgsSafe(n, a, T)
         /\ \A c : LinksOK(c, S) => LinksOK(c, T)
<1>1. \A v : SafeIn(v, S) => SafeIn(v, T)
  BY DEF SafeIn
<1>2. ASSUME NEW n, NEW a, ArgsSafe(n, a, S) PROVE ArgsSafe(n, a, T)
  BY <1>1, <1>2 DEF ArgsSafe
<1>3. ASSUME NEW c, LinksOK(c, S) PROVE LinksOK(c, T)
  BY <1>1, <1>3 DEF LinksOK, RefsOK, RolesOK, FieldsSafe, HolderOK
<1> QED BY <1>1, <1>2, <1>3

\* The arguments of a call that may end up in the contract it is made to, or in its roles.
CallSafe(fn, a, S) ==
  ArgsSafe(Arguments(fn), a, S) \/ (fn = "grantRole" /\ Kind(a[2]) = "GovernorOLAS")

\* the setters of one reference
OneReference ==
  {"changeOwner", "changeManager", "changeDrainer", "changeMinter", "setFxChildTunnel",
   "setFxRootTunnel", "changeTokenomicsImplementation", "changeDonatorBlacklist"}

\* A setter replaces a reference by its argument, or leaves it.
LEMMA UpdatedSafe ==
  ASSUME NEW c, NEW S, FieldsSafe(c, S), NEW to, NEW fn, fn # "grantRole", NEW a, CallSafe(fn, a, S)
  PROVE  FieldsSafe(Updated(c, to, fn, a), S)
<1> SUFFICES ASSUME NEW d, d = Updated(c, to, fn, a) PROVE FieldsSafe(d, S)
  OBVIOUS
<1>0. ArgsSafe(Arguments(fn), a, S)
  BY DEF CallSafe
<1>1. CASE fn \in OneReference
  <2>1. \/ d = [c EXCEPT !.owner = a[1]] \/ d = [c EXCEPT !.manager = a[1]]
        \/ d = [c EXCEPT !.drainer = a[1]] \/ d = [c EXCEPT !.minter = a[1]]
        \/ d = [c EXCEPT !.implementation = a[1]] \/ d = [c EXCEPT !.donatorBlacklist = a[1]]
        \/ d = [c EXCEPT !.fxChildTunnel = a[1]] \/ d = [c EXCEPT !.fxRootTunnel = a[1]]
    BY <1>1, Zenon DEF OneReference, Updated, changeOwner, changeManager, changeDrainer,
       changeMinter, changeTokenomicsImplementation, changeDonatorBlacklist, setFxChildTunnel,
       setFxRootTunnel
  <2>2. SafeIn(a[1], S)
    <3>1. Arguments(fn) = 1
      BY <1>1, Zenon DEF OneReference, Arguments
    <3> QED BY <1>0, <3>1 DEF ArgsSafe
  <2> QED BY <2>1, <2>2 DEF FieldsSafe
<1>2. CASE fn = "changeManagers"
  <2>1. SafeIn(a[1], S) /\ SafeIn(a[2], S) /\ SafeIn(a[3], S)
    <3>1. Arguments(fn) = 3
      BY <1>2, Zenon DEF Arguments
    <3> QED BY <1>0, <3>1 DEF ArgsSafe
  <2>2. d \in {Tokenomics_changeManagers(c, a), Treasury_changeManagers(c, a), c}
    BY <1>2, Zenon DEF Updated
  <2>3. ASSUME NEW f \in {"treasury", "tokenomics"},
               d = [c EXCEPT ![f] = Kept(@, a[1]), !.depository = Kept(@, a[2]),
                             !.dispenser = Kept(@, a[3])]
        PROVE  FieldsSafe(d, S)
    <3>1. ASSUME NEW e, FieldsSafe(e, S), NEW g, NEW v, SafeIn(v, S)
          PROVE  FieldsSafe([e EXCEPT ![g] = Kept(@, v)], S)
      <4>1. Kept(e[g], v) \in {e[g], v}
        BY DEF Kept
      <4> QED BY <3>1, <4>1 DEF FieldsSafe
    <3> DEFINE d1 == [c EXCEPT ![f] = Kept(@, a[1])]
               d2 == [d1 EXCEPT !.depository = Kept(@, a[2])]
    <3>2. d = [d2 EXCEPT !.dispenser = Kept(@, a[3])]
      BY <2>3, Zenon
    <3>3. FieldsSafe(d1, S)
      BY <2>1, <3>1, Zenon
    <3> HIDE DEF d1
    <3>4. FieldsSafe(d2, S)
      BY <2>1, <3>1, <3>3, Zenon
    <3> HIDE DEF d2
    <3>5. FieldsSafe([d2 EXCEPT !.dispenser = Kept(@, a[3])], S)
      BY <2>1, <3>1, <3>4, Zenon
    <3> QED BY <3>2, <3>5, Zenon
  <2>4. CASE d = Tokenomics_changeManagers(c, a)
    BY <2>3, <2>4, Zenon DEF Tokenomics_changeManagers
  <2>5. CASE d = Treasury_changeManagers(c, a)
    BY <2>3, <2>5, Zenon DEF Treasury_changeManagers
  <2> QED BY <2>2, <2>4, <2>5
<1>3. CASE fn \notin OneReference \cup {"changeManagers"}
  <2>1. d = c
    BY <1>3, Zenon DEF OneReference, Updated
  <2> QED BY <2>1
<1> QED BY <1>1, <1>2, <1>3

\* A call keeps references and roles where they were, or moves them to its arguments.
LEMMA CallLinks ==
  ASSUME NEW c, ChainOK(c), NEW S, LinksOK(c, S), NEW to, NEW fn, NEW a, CallSafe(fn, a, S)
  PROVE  LinksOK(Called(c, to, fn, a), S)
<1> DEFINE d == Called(c, to, fn, a)
<1>0. DOMAIN c = {"contracts", "roles", "permitted", "minted"}
  BY DEF ChainOK
<1>1. CASE to \notin DOMAIN c.contracts
  BY <1>1 DEF Called
<1>2. CASE to \in DOMAIN c.contracts /\ fn = "grantRole"
  <2> DEFINE r == <<to, a[1], a[2]>>
  <2>1. d = [c EXCEPT !.roles = @ \cup {r}]
    BY <1>2, Zenon DEF Called
  <2>2. HolderOK(r, S)
    <3>1. r[3] = a[2]
      OBVIOUS
    <3>2. Arguments(fn) = 2
      BY <1>2 DEF Arguments
    <3>3. SafeIn(a[2], S) \/ Kind(a[2]) = "GovernorOLAS"
      BY <3>2 DEF CallSafe, ArgsSafe
    <3> QED BY <3>1, <3>3 DEF HolderOK
  <2> HIDE DEF d, r
  <2>3. d.contracts = c.contracts /\ d.roles = c.roles \cup {r}
    BY <1>0, <2>1
  <2> QED BY <2>2, <2>3 DEF LinksOK, RefsOK, RolesOK, d
<1>3. CASE to \in DOMAIN c.contracts /\ fn # "grantRole"
  <2>1. \/ d = [c EXCEPT !.roles = @ \ {<<to, a[1], a[2]>>}]
        \/ d = [c EXCEPT !.permitted = IF a[2] = True THEN @ \cup {<<to, a[1]>>}
                                      ELSE @ \ {<<to, a[1]>>}]
        \/ d = [c EXCEPT !.minted = With(@, a[1], (IF a[1] \in DOMAIN @ THEN @[a[1]] ELSE 0) + 1)]
        \/ d = [c EXCEPT !.contracts[to] = Updated(@, to, fn, a)]
    BY <1>3, Zenon DEF Called
  <2>2. FieldsSafe(Updated(c.contracts[to], to, fn, a), S)
    BY <1>3, UpdatedSafe DEF LinksOK, RefsOK
  <2> HIDE DEF d
  <2>3. /\ d.roles \subseteq c.roles
        /\ \/ d.contracts = c.contracts
           \/ d.contracts = [c.contracts EXCEPT ![to] = Updated(@, to, fn, a)]
    BY <1>0, <2>1
  <2>4. RefsOK(d, S)
    BY <2>2, <2>3 DEF LinksOK, RefsOK
  <2> QED BY <2>3, <2>4 DEF LinksOK, RolesOK, d
<1> QED BY <1>1, <1>2, <1>3

\* A new contract refers to what its constructor is given; the roles of a new timelock are the
\* deployer's, its own and those of the accounts it is given.
LEMMA CreateLinks ==
  ASSUME NEW c, ChainOK(c), NEW S, LinksOK(c, S), NEW kind, NEW a, ArgsSafe(Arity(kind), a, S)
  PROVE  LinksOK(Created(c, kind, a), S)
<1> DEFINE d == Created(c, kind, a)
           self == NextAddress(c, kind)
           new == Constructed(kind, a)
<1>0. DOMAIN c = {"contracts", "roles", "permitted", "minted"}
  BY DEF ChainOK
<1>1. d = [c EXCEPT !.contracts = With(@, self, new),
                    !.roles = IF kind = "Timelock" THEN @ \cup InitialRoles(self, a) ELSE @]
  BY DEF Created
<1>2. FieldsSafe(new, S)
  BY ConstructorSafe
<1>3. ASSUME kind = "Timelock", NEW r \in InitialRoles(self, a)
      PROVE  HolderOK(r, S)
  <2>1. SafeIn(a[2], S) /\ SafeIn(a[3], S) /\ SafeIn(EOA, S)
    <3>1. Arity(kind) = 3
      BY <1>3, Zenon DEF Arity
    <3> QED BY <3>1 DEF ArgsSafe, SafeIn, EOA
  <2> HIDE DEF self
  <2>2. r[1] = self /\ r[3] \in {EOA, self, a[2], a[3]}
    BY <1>3 DEF InitialRoles
  <2> QED BY <2>1, <2>2 DEF HolderOK
<1> HIDE DEF self, new, d
<1>4. /\ d.contracts = With(c.contracts, self, new)
      /\ d.roles \subseteq c.roles \cup (IF kind = "Timelock" THEN InitialRoles(self, a) ELSE {})
  BY <1>0, <1>1
<1>5. RefsOK(d, S)
  BY <1>2, <1>4 DEF LinksOK, RefsOK, With
<1>6. RolesOK(d, S)
  BY <1>3, <1>4 DEF LinksOK, RolesOK
<1> QED BY <1>5, <1>6 DEF LinksOK, d

\* A batch does what its calls do.
LEMMA BatchLinks ==
  ASSUME ChainOK(chain), NEW from, NEW calls, IsSequence(calls), Batch(from, calls).ok,
         NEW S, LinksOK(chain, S),
         \A i \in DOMAIN calls : ArgsSafe(Arguments(calls[i].fn), calls[i].args, S)
  PROVE  LinksOK(Batch(from, calls).chain, S)
<1>1. PICK s : Unfolds(s, from, calls) /\ Batch(from, calls) = s[Len(calls)]
  BY BatchUnfolds
<1> DEFINE Good(c) == ChainOK(c) /\ LinksOK(c, S)
           G == {n \in Nat : n <= Len(calls) /\ s[n].ok => Good(s[n].chain)}
<1>2. 0 \in G
  BY <1>1 DEF Unfolds
<1>3. ASSUME NEW n \in Nat, n \in G
      PROVE  n + 1 \in G
  <2> SUFFICES ASSUME n + 1 <= Len(calls), s[n + 1].ok PROVE Good(s[n + 1].chain)
    OBVIOUS
  <2> DEFINE c == calls[n + 1]
  <2>1. /\ s[n].ok /\ Accepted(s[n].chain, from, c.to, c.fn, c.args)
        /\ s[n + 1].chain = Called(s[n].chain, c.to, c.fn, c.args)
    BY <1>1 DEF Unfolds
  <2>2. Good(s[n].chain)
    BY <1>3, <2>1 DEF IsSequence
  <2>3. CallSafe(c.fn, c.args, S)
    BY DEF IsSequence, CallSafe
  <2> HIDE DEF c
  <2> QED BY <2>1, <2>2, <2>3, CallKeeps, CallLinks
<1>4. Nat \subseteq G
  <2> HIDE DEF G
  <2> QED BY <1>2, <1>3, SetInduction
<1>5. Len(calls) \in G
  BY <1>4 DEF IsSequence
<1> QED BY <1>1, <1>5 DEF IsSequence

-----------------------------------------------------------------------------
(* What no interruption changes                                              *)

\* A contract has a number, one more than there are of its kind.
Numbers(c) == IsFiniteSet(DOMAIN c.contracts) /\ \A x \in DOMAIN c.contracts : x[2] # 0
\* the address a running script has at hand is that of a contract it deploys
SelfOK ==
  Running /\ run.self # Undefined =>
    \E j \in DOMAIN Script.steps :
      Script.steps[j].op \in {"deploy", "create2"} /\ Kind(run.self) = Script.steps[j].kind
CallsSafe(calls, S) ==
  \A i \in DOMAIN calls : ArgsSafe(Arguments(calls[i].fn), calls[i].args, S)
LinksInv ==
  /\ Numbers(chain) /\ LinksOK(chain, FinalValues)
  /\ \A p \in Range(pending) : CallsSafe(p.calls, FinalValues)
  /\ Fresh /\ SelfOK

\* A new contract of a kind has a number of its own.
LEMMA CreateNumbers ==
  ASSUME NEW c, Numbers(c), NEW kind, NEW d,
         DOMAIN d.contracts = DOMAIN c.contracts \cup {NextAddress(c, kind)}
  PROVE  Numbers(d)
<1>1. IsFiniteSet(OfKind(c, kind))
  <2>1. OfKind(c, kind) \subseteq DOMAIN c.contracts
    BY DEF OfKind
  <2> QED BY <2>1, FS_Subset DEF Numbers
<1>2. Cardinality(OfKind(c, kind)) \in Nat
  BY <1>1, FS_CardinalityType
<1>3. NextAddress(c, kind)[2] # 0
  <2> DEFINE n == Cardinality(OfKind(c, kind))
  <2>1. NextAddress(c, kind) = <<kind, n + 1>>
    BY DEF NextAddress
  <2> HIDE DEF n
  <2> QED BY <1>2, <2>1 DEF n
<1>4. IsFiniteSet(DOMAIN d.contracts)
  BY FS_AddElement DEF Numbers
<1> HIDE DEF NextAddress
<1> QED BY <1>3, <1>4 DEF Numbers

\* What a script reads for a contract or a proposal is recorded for good, or is no contract.
LEMMA ReadSafe ==
  ASSUME DeployInv, Fresh, Running, run.pc <= Len(Script.steps), Step.op # "copy",
         NEW n, NEW args, ArgsOK(Procedure, at, args), DOMAIN args = 1..n
  PROVE  ArgsSafe(n, ReadAll(args), FinalValues)
<1>1. at \in DOMAIN Procedure /\ Script.file \in Files /\ ~ Copies(Script)
  BY StepFacts
<1>2. run.data = globals[Script.file]
  BY <1>1 DEF Fresh
<1>3. ASSUME NEW key, RecordedBefore(Procedure, at, key)
      PROVE  SafeIn(Read(key), FinalValues)
  <2>1. CASE key \in DOMAIN run.data
    <3>1. Read(key) = globals[Script.file][key]
      BY <1>2, <1>3, <2>1 DEF Read, Lookup, RecordedBefore
    <3>2. Final(Script.file, key)
      BY <1>3 DEF RecordedBefore, Final, Script
    <3> QED BY <1>1, <1>2, <2>1, <3>1, <3>2 DEF SafeIn, FinalValues
  <2>2. CASE key \notin DOMAIN run.data
    <3>1. Read(key) = <<key, 0>>
      BY <1>3, <2>2 DEF Read, Lookup, RecordedBefore
    <3> QED BY <3>1 DEF SafeIn
  <2> QED BY <2>1, <2>2
<1>4. DOMAIN ReadAll(args) = DOMAIN args /\ \A j \in DOMAIN args : ReadAll(args)[j] = Read(args[j])
  BY DEF ReadAll
<1> QED BY <1>3, <1>4 DEF ArgsOK, ArgsSafe

\* A recorded value is final when no script to come writes its key: then it stays.
LEMMA FinalGrows ==
  ASSUME PlaceOK, at \in Nat, UNCHANGED procedure, at' \in Nat, at' >= at,
         \A f \in Files : DOMAIN globals'[f] = DOMAIN globals[f],
         \A f \in Files : \A k \in DOMAIN globals[f] : Final(f, k) => globals'[f][k] = globals[f][k]
  PROVE  FinalValues \subseteq FinalValues'
<1> SUFFICES ASSUME NEW f \in Files, NEW k \in DOMAIN globals[f], Final(f, k)
             PROVE  globals[f][k] \in FinalValues'
  BY DEF FinalValues
<1>1. Procedure' = Procedure
  BY DEF Procedure
<1>2. Final(f, k)'
  <2> SUFFICES ASSUME NEW w \in DOMAIN Procedure, k \in KeysOf(Procedure[w], f) PROVE w < at'
    BY <1>1 DEF Final
  <2>1. w < at
    BY DEF Final
  <2>2. w \in Nat
    BY ProcedureSequence
  <2> QED BY <2>1, <2>2
<1>3. globals'[f][k] \in FinalValues'
  BY <1>2 DEF FinalValues
<1> QED BY <1>3

\* No step takes back a recorded value that is final.
LEMMA FinalStays ==
  DeployInv /\ DeployInv' /\ Fresh /\ [Next]_vars => FinalValues \subseteq FinalValues'
<1> SUFFICES ASSUME DeployInv, DeployInv', Fresh, [Next]_vars
             PROVE  FinalValues \subseteq FinalValues'
  OBVIOUS
<1> DEFINE Kept1 == \A f \in Files : DOMAIN globals'[f] = DOMAIN globals[f]
           Kept2 == \A f \in Files : \A k \in DOMAIN globals[f] :
                      Final(f, k) => globals'[f][k] = globals[f][k]
<1>0. PlaceOK /\ at \in Nat /\ at' \in Nat
  <2>1. Len(Procedure) \in Nat /\ Len(Procedure') \in Nat
    <3>1. procedure \in DOMAIN Scripts /\ procedure' \in DOMAIN Scripts
      BY DEF DeployInv, PlaceOK
    <3> QED BY <3>1, ScriptsAssumption DEF Procedure, IsSequence
  <2> QED BY <2>1 DEF DeployInv, PlaceOK
<1>1. CASE DoWrite
  <2> DEFINE data == [run.data EXCEPT ![Step.key] = run.self]
  <2>1. /\ Running /\ run.pc <= Len(Script.steps) /\ Step.op = "write"
        /\ UNCHANGED <<procedure, at>>
        /\ globals' = [globals EXCEPT ![Script.file] = data]
    BY <1>1 DEF DoWrite, OnStep, Quiet
  <2>2. /\ at \in DOMAIN Procedure /\ run.pc \in DOMAIN Script.steps /\ Step = Script.steps[run.pc]
        /\ ~ Copies(Script)
    BY <2>1, StepFacts
  <2>3. run.data = globals[Script.file] /\ DOMAIN globals = Files
    BY <2>1, <2>2 DEF Fresh, DeployInv, GlobalsOK
  <2>4. ~ Final(Script.file, Step.key)
    <3>1. Step.key \in KeysOf(Script, Script.file)
      BY <2>1, <2>2 DEF KeysOf
    <3> QED BY <1>0, <2>2, <3>1 DEF Final, Script
  <2>5. Kept1 /\ Kept2
    BY <2>1, <2>3, <2>4
  <2> QED BY <1>0, <2>1, <2>5, FinalGrows
<1>2. CASE DoCopy
  <2> DEFINE from == globals[Step.from]
             old == globals[Step.to]
             new == [k \in DOMAIN old |->
                       IF k \in DOMAIN Step.keys THEN from[Step.keys[k]] ELSE old[k]]
  <2>1. /\ Running /\ run.pc <= Len(Script.steps) /\ Step.op = "copy"
        /\ UNCHANGED <<procedure, at>>
        /\ globals' = [globals EXCEPT ![Step.to] = new]
    BY <1>2 DEF DoCopy, OnStep, Quiet
  <2>2. at \in DOMAIN Procedure /\ run.pc \in DOMAIN Script.steps /\ Step = Script.steps[run.pc]
    BY <2>1, StepFacts
  <2>3. DOMAIN globals = Files
    BY DEF DeployInv, GlobalsOK
  <2>4. ASSUME NEW k \in DOMAIN Step.keys
        PROVE  ~ Final(Step.to, k)
    <3>1. k \in KeysOf(Script, Step.to)
      BY <2>1, <2>2 DEF KeysOf
    <3> QED BY <1>0, <2>2, <3>1 DEF Final, Script
  <2>5. Kept1 /\ Kept2
    BY <2>1, <2>3, <2>4
  <2> QED BY <1>0, <2>1, <2>5, FinalGrows
<1>3. CASE Finish \/ Throw \/ Mend \/ Interrupt
  <2>1. UNCHANGED <<procedure, globals>> /\ at' >= at
    BY <1>0, <1>3 DEF Finish, Throw, Mend, Interrupt
  <2>2. Kept1 /\ Kept2
    BY <2>1
  <2> HIDE DEF Kept1, Kept2
  <2> QED BY <1>0, <2>1, <2>2, FinalGrows DEF Kept1, Kept2
<1>4. CASE Start \/ DoDeploy \/ DoCreate2 \/ DoVerify \/ DoCall \/ DoExpect \/ DoPropose \/ Execute
           \/ UNCHANGED vars
  <2>1. UNCHANGED <<procedure, at, globals>>
    BY <1>4 DEF Start, DoDeploy, DoCreate2, DoVerify, DoCall, DoExpect, DoPropose, Execute,
       Quiet, vars
  <2>2. at' >= at /\ Kept1 /\ Kept2
    BY <1>0, <2>1
  <2> QED BY <1>0, <2>1, <2>2, FinalGrows
<1> QED BY <1>1, <1>2, <1>3, <1>4 DEF Next

\* A running script knows the contract it has deployed.
LEMMA SelfNext == DeployInv /\ SelfOK /\ [Next]_vars => SelfOK'
<1> SUFFICES ASSUME DeployInv, SelfOK, [Next]_vars, Running', run'.self # Undefined
             PROVE  \E j \in DOMAIN Script'.steps :
                      /\ Script'.steps[j].op \in {"deploy", "create2"}
                      /\ Kind(run'.self) = Script'.steps[j].kind
  BY DEF SelfOK
<1>1. CASE Start
  BY <1>1 DEF Start, Idle
<1>2. CASE DoDeploy \/ DoCreate2
  <2> DEFINE a == ReadAll(Step.args)
             self == NextAddress(chain, Step.kind)
  <2>1. /\ Running /\ run.pc <= Len(Script.steps) /\ Step.op \in {"deploy", "create2"}
        /\ UNCHANGED <<procedure, at>>
        /\ run' = [run EXCEPT !.pc = @ + 1, !.self = self, !.args = a]
    BY <1>2 DEF DoDeploy, DoCreate2, OnStep, Quiet
  <2>2. run.pc \in DOMAIN Script.steps /\ Step = Script.steps[run.pc]
    BY <2>1, StepFacts
  <2>3. Script' = Script
    BY <2>1 DEF Script, Procedure
  <2>4. Kind(self) = Step.kind
    BY DEF Kind, NextAddress
  <2> HIDE DEF a, self
  <2>5. run'.self = self
    BY <2>1 DEF DeployInv, RunOK
  <2> QED BY <2>1, <2>2, <2>3, <2>4, <2>5
<1>3. CASE Finish \/ Throw \/ Mend \/ Interrupt
  BY <1>3 DEF Finish, Throw, Mend, Interrupt, Running, Idle
<1>4. CASE DoVerify \/ DoWrite \/ DoCall \/ DoExpect \/ DoPropose \/ DoCopy \/ Execute
  <2>1. /\ UNCHANGED <<procedure, at>>
        /\ Running' => Running
        /\ run'.self = run.self
    BY <1>4 DEF DoVerify, DoWrite, DoCall, DoExpect, DoPropose, DoCopy, Execute, OnStep, Quiet,
       Next_step, DeployInv, RunOK, Running
  <2>2. Script' = Script
    BY <2>1 DEF Script, Procedure
  <2> QED BY <2>1, <2>2 DEF SelfOK
<1>5. CASE UNCHANGED vars
  <2>1. Script' = Script
    BY <1>5 DEF vars, Script, Procedure
  <2> QED BY <1>5, <2>1 DEF SelfOK, vars, Running
<1> QED BY <1>1, <1>2, <1>3, <1>4, <1>5 DEF Next

\* The contracts and the roles, after a step.
LEMMA ChainNext ==
  ASSUME DeployInv, LinksInv, [Next]_vars
  PROVE  Numbers(chain') /\ LinksOK(chain', FinalValues)
<1>1. CASE DoDeploy \/ DoCreate2
  <2> DEFINE a == ReadAll(Step.args)
  <2>1. /\ Running /\ run.pc <= Len(Script.steps) /\ Step.op \in {"deploy", "create2"}
        /\ chain' = Created(chain, Step.kind, a)
    BY <1>1 DEF DoDeploy, DoCreate2, OnStep
  <2>2. ArgsSafe(Arity(Step.kind), a, FinalValues)
    <3>1. ArgsOK(Procedure, at, Step.args)
      BY <2>1, StepFacts DEF StepOK
    <3>2. DOMAIN Step.args = 1..Arity(Step.kind)
      BY <1>1 DEF DoDeploy, DoCreate2, CanCreate2, CanDeploy, Fits
    <3> QED BY <2>1, <3>1, <3>2, ReadSafe DEF LinksInv
  <2> HIDE DEF a
  <2>3. Numbers(chain')
    <3>1. DOMAIN chain'.contracts = DOMAIN chain.contracts \cup {NextAddress(chain, Step.kind)}
      BY <2>1, CreateKeeps DEF DeployInv
    <3> QED BY <3>1, CreateNumbers DEF LinksInv
  <2>4. LinksOK(chain', FinalValues)
    BY <2>1, <2>2, CreateLinks DEF DeployInv, LinksInv
  <2> QED BY <2>3, <2>4
<1>2. CASE DoCall
  <2> DEFINE a == ReadAll(Step.args)
             to == Read(Step.to)
  <2>1. /\ Running /\ run.pc <= Len(Script.steps) /\ Step.op = "call"
        /\ Undefined \notin Range(a) /\ DOMAIN Step.args = 1..Arguments(Step.fn)
        /\ Accepted(chain, EOA, to, Step.fn, a)
        /\ chain' = Called(chain, to, Step.fn, a)
    BY <1>2 DEF DoCall, OnStep, CallAccepted, Encodes
  <2>2. CallSafe(Step.fn, a, FinalValues)
    <3>1. ArgsOK(Procedure, at, Step.args) \/ GivesRoleToSelf(Script, Step)
      BY <2>1, StepFacts DEF StepOK, Script
    <3>2. CASE ArgsOK(Procedure, at, Step.args)
      <4>1. ArgsSafe(Arguments(Step.fn), a, FinalValues)
        BY <2>1, <3>2, ReadSafe DEF LinksInv
      <4> QED BY <4>1 DEF CallSafe
    <3>3. CASE GivesRoleToSelf(Script, Step)
      <4>1. /\ Step.fn = "grantRole" /\ 2 \in DOMAIN Step.args /\ Step.args[2] = "self"
            /\ \A j \in DOMAIN Script.steps :
                 Script.steps[j].op \in {"deploy", "create2"} => Script.steps[j].kind = "GovernorOLAS"
        BY <3>3 DEF GivesRoleToSelf
      <4>2. a[2] = run.self /\ a[2] \in Range(a)
        BY <4>1 DEF ReadAll, Read, Lookup, Range
      <4>3. Kind(a[2]) = "GovernorOLAS"
        BY <2>1, <4>1, <4>2 DEF LinksInv, SelfOK
      <4> QED BY <4>1, <4>3 DEF CallSafe
    <3> QED BY <3>1, <3>2, <3>3
  <2> HIDE DEF a, to
  <2>3. DOMAIN chain'.contracts = DOMAIN chain.contracts
    BY <2>1, CallKeeps DEF DeployInv
  <2>4. LinksOK(chain', FinalValues)
    BY <2>1, <2>2, CallLinks DEF DeployInv, LinksInv
  <2> QED BY <2>3, <2>4 DEF LinksInv, Numbers
<1>3. CASE Execute
  <2>1. PICK i \in DOMAIN pending :
          /\ CanExecute(pending[i])
          /\ chain' = Batch(pending[i].as, pending[i].calls).chain
    BY <1>3 DEF Execute
  <2> DEFINE p == pending[i]
  <2>2. p \in Range(pending)
    BY DEF Range
  <2> HIDE DEF p
  <2>3. Batch(p.as, p.calls).ok /\ chain' = Batch(p.as, p.calls).chain
    BY <2>1 DEF CanExecute, p
  <2>4. IsSequence(p.calls) /\ CallsSafe(p.calls, FinalValues)
    BY <2>2 DEF DeployInv, PendingOK, LinksInv
  <2>5. DOMAIN chain'.contracts = DOMAIN chain.contracts
    BY <2>3, <2>4, BatchKeeps DEF DeployInv
  <2>6. LinksOK(chain', FinalValues)
    BY <2>3, <2>4, BatchLinks DEF DeployInv, LinksInv, CallsSafe
  <2> QED BY <2>5, <2>6 DEF LinksInv, Numbers
<1>4. CASE UNCHANGED chain
  BY <1>4 DEF LinksInv
<1> QED BY <1>1, <1>2, <1>3, <1>4 DEF Next, Start, DoVerify, DoWrite, DoExpect, DoPropose, DoCopy,
     Finish, Throw, Mend, Interrupt, Quiet, vars

\* The proposals that wait, after a step.
LEMMA PendingNext ==
  ASSUME DeployInv, LinksInv, [Next]_vars
  PROVE  \A p \in Range(pending') : CallsSafe(p.calls, FinalValues)
<1>1. CASE DoPropose
  <2> DEFINE calls == Resolved(Step.calls)
  <2>1. Running /\ run.pc <= Len(Script.steps) /\ Step.op = "propose"
    BY <1>1 DEF DoPropose, OnStep
  <2>2. PICK p : p.calls = calls /\ pending' = Append(pending, p)
    <3>1. PICK g : pending' = Append(pending, [governor |-> g, as |-> Read(Step.as),
                                               calls |-> calls, by |-> Script.name])
      BY <1>1 DEF DoPropose
    <3> QED BY <3>1
  <2>3. CallsSafe(calls, FinalValues)
    <3> SUFFICES ASSUME NEW i \in DOMAIN Step.calls
                 PROVE  ArgsSafe(Arguments(calls[i].fn), calls[i].args, FinalValues)
      BY DEF CallsSafe, Resolved
    <3>1. calls[i].fn = Step.calls[i].fn /\ calls[i].args = ReadAll(Step.calls[i].args)
      BY DEF Resolved
    <3>2. ArgsOK(Procedure, at, Step.calls[i].args)
      BY <2>1, StepFacts DEF StepOK
    <3>3. DOMAIN Step.calls[i].args = 1..Arguments(Step.calls[i].fn)
      <4>1. Encodes(calls[i].fn, calls[i].args)
        BY <1>1 DEF DoPropose, Malformed, Resolved
      <4>2. DOMAIN ReadAll(Step.calls[i].args) = DOMAIN Step.calls[i].args
        BY DEF ReadAll
      <4> QED BY <3>1, <4>1, <4>2 DEF Encodes
    <3> HIDE DEF calls
    <3> QED BY <2>1, <3>1, <3>2, <3>3, ReadSafe DEF LinksInv
  <2> HIDE DEF calls
  <2>4. Range(pending') \subseteq Range(pending) \cup {p}
    BY <2>2, AppendFacts DEF DeployInv, PendingOK
  <2> QED BY <2>2, <2>3, <2>4 DEF LinksInv
<1>2. CASE Execute
  <2>1. Range(pending') \subseteq Range(pending)
    BY <1>2, RemoveFacts DEF Execute, DeployInv, PendingOK
  <2> QED BY <2>1 DEF LinksInv
<1>3. CASE UNCHANGED pending
  BY <1>3 DEF LinksInv
<1> QED BY <1>1, <1>2, <1>3 DEF Next, Start, DoDeploy, DoCreate2, DoVerify, DoWrite, DoCall,
     DoExpect, DoCopy, Finish, Throw, Mend, Interrupt, Quiet, vars

\* The invariant holds first, and stays.
LEMMA LinksInitially == Init => LinksInv
<1> SUFFICES ASSUME Init PROVE LinksInv
  OBVIOUS
<1>1. Numbers(chain)
  <2>1. DOMAIN chain.contracts = {}
    BY DEF Init, NoContracts
  <2> QED BY <2>1, FS_EmptySet DEF Numbers
<1>2. LinksOK(chain, FinalValues)
  BY DEF Init, NoContracts, LinksOK, RefsOK, RolesOK
<1>3. Range(pending) = {}
  BY DEF Init, Range
<1>4. Fresh /\ SelfOK
  BY DEF Init, Fresh, SelfOK, Running, Idle
<1> QED BY <1>1, <1>2, <1>3, <1>4 DEF LinksInv
LEMMA LinksNext == DeployInv /\ DeployInv' /\ LinksInv /\ [Next]_vars => LinksInv'
<1> SUFFICES ASSUME DeployInv, DeployInv', LinksInv, [Next]_vars PROVE LinksInv'
  OBVIOUS
<1>1. FinalValues \subseteq FinalValues'
  BY FinalStays DEF LinksInv
<1>2. Numbers(chain') /\ LinksOK(chain', FinalValues')
  BY <1>1, ChainNext, SafeGrows
<1>3. \A p \in Range(pending') : CallsSafe(p.calls, FinalValues')
  BY <1>1, PendingNext, SafeGrows DEF CallsSafe
<1>4. Fresh' /\ SelfOK'
  BY FreshNext, SelfNext DEF LinksInv
<1>5. Numbers(chain)' /\ LinksOK(chain, FinalValues)'
  BY <1>2 DEF Numbers, LinksOK, RefsOK, RolesOK
<1>6. (\A p \in Range(pending) : CallsSafe(p.calls, FinalValues))'
  BY <1>3 DEF CallsSafe, ArgsSafe, Range
<1> QED BY <1>4, <1>5, <1>6 DEF LinksInv

\* A contract that no globals file names is in none that one of them names.
LEMMA LinksHold == DeployInv /\ LinksInv => OrphansPowerless
<1> SUFFICES ASSUME DeployInv, LinksInv, NEW c \in Orphans
             PROVE  /\ \A r \in Recorded : c \notin Range(chain.contracts[r])
                    /\ RolesOf(c) # {} => Kind(c) = "GovernorOLAS"
  BY DEF OrphansPowerless
<1>1. ~ SafeIn(c, FinalValues)
  <2>1. c \in DOMAIN chain.contracts /\ c \notin Recorded /\ c[2] # 0
    BY DEF Orphans, LinksInv, Numbers
  <2>2. ASSUME c \in FinalValues PROVE c \in Recorded
    <3>1. PICK f \in Files : \E k \in DOMAIN globals[f] : c = globals[f][k]
      BY <2>2 DEF FinalValues
    <3> QED BY <2>1, <3>1 DEF Recorded, Range
  <2> QED BY <2>1, <2>2 DEF SafeIn
<1>2. ASSUME NEW r \in Recorded, NEW f \in DOMAIN chain.contracts[r]
      PROVE  chain.contracts[r][f] # c
  <2>1. SafeIn(chain.contracts[r][f], FinalValues)
    BY <1>2 DEF LinksInv, LinksOK, RefsOK, FieldsSafe, Recorded
  <2> QED BY <1>1, <2>1
<1>3. ASSUME RolesOf(c) # {} PROVE Kind(c) = "GovernorOLAS"
  <2>1. PICK r \in chain.roles : r[1] \in Recorded /\ r[3] = c
    BY <1>3 DEF RolesOf
  <2>2. HolderOK(r, FinalValues)
    BY <2>1 DEF LinksInv, LinksOK, RolesOK
  <2>3. r[3] # r[1]
    BY <2>1 DEF Orphans
  <2> QED BY <1>1, <2>1, <2>2, <2>3 DEF HolderOK
<1> QED BY <1>2, <1>3 DEF Range

\* A contract that an interrupted script has deployed and not recorded
\* (deploy_02_deployment_factory.js:33 deploys, 51-52 writes) stays without effect however often
\* that happens and whichever proposals go through: no recorded contract refers to it, and only a
\* governor, which is given its roles in the script that deploys it
\* (deploy_08_09_governor_and_roles.js:62-83), has a role.
THEOREM OrphansAlwaysPowerless == Spec => []OrphansPowerless
<1>1. Init => DeployInv /\ LinksInv
  BY DeployInitially, LinksInitially
<1>2. DeployInv /\ LinksInv /\ [Next]_vars => (DeployInv /\ LinksInv)'
  BY DeployNext, LinksNext
<1>3. Spec => [](DeployInv /\ LinksInv)
  BY <1>1, <1>2, PTL DEF Spec
<1> QED BY <1>3, LinksHold, PTL

===============================================================================
