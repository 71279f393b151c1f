---- MODULE DeployMachine ----
(* Running the deployment scripts. An operator runs the scripts of a procedure one after
   another. A script reads the globals file of its repository and chain once, when it starts;
   it then awaits one transaction, check or write after another, and may end at any of these
   points: the process dies, a provider or a ledger fails, the block explorer refuses. The
   operator then starts the same script again. What a proposal asks for happens later, when
   the vote is over. *)
EXTENDS DeployedContracts, Procedures, SequencesExt

CONSTANTS MaxInterrupts,  \* how many times a script may end before its last step
          MaxPending      \* how many voted proposals may be waiting when a script starts
ASSUME BoundsAssumption == MaxInterrupts \in Nat /\ MaxPending \in Nat

VARIABLES procedure,   \* which of the procedures is followed: a sequence of [name, file, steps]
          at,          \* the script to run next, or running
          run,         \* the running script, or Idle
          globals,     \* the globals files
          chain,       \* the contracts
          pending,     \* proposals that are made and not executed, in the order made
          interrupts,  \* how many times a script has been interrupted
          failed       \* the scripts that have ended with an error of their own

vars == <<procedure, at, run, globals, chain, pending, interrupts, failed>>

Idle == [pc |-> 0, data |-> <<>>, self |-> Undefined, args |-> <<>>]
Running == run.pc # 0
Procedure == Scripts[procedure]
Finished == at > Len(Procedure)
Script == Procedure[at]
Step == Script.steps[run.pc]

\* the value of a key: in the file that was read if the scripts or the operator write the key
\* there, else the one the file is shipped with
Lookup(data, self, key) ==
  IF key = "self" THEN self ELSE IF key \in DOMAIN data THEN data[key] ELSE <<key, 0>>
Read(key) == Lookup(run.data, run.self, key)
ReadAll(keys) == [i \in DOMAIN keys |-> Read(keys[i])]

\* ---- proposals
Resolved(calls) ==
  [i \in DOMAIN calls |->
     LET c == calls[i] IN [to |-> Read(c.to), fn |-> c.fn, args |-> ReadAll(c.args)]]
\* the interface of the contract refuses to encode one of the calls
Malformed(calls) ==
  \E i \in DOMAIN calls : \/ Undefined \in Range(calls[i].args) \cup {calls[i].to}
                          \/ ~Encodes(calls[i].fn, calls[i].args)
\* a batch of calls as one transaction: it goes through only if every call does
Attempted(r, from, c) ==
  [ok |-> r.ok /\ Accepted(r.chain, from, c.to, c.fn, c.args),
   chain |-> IF r.ok THEN Called(r.chain, c.to, c.fn, c.args) ELSE r.chain]
Batch(from, calls) ==
  LET after[n \in 0..Len(calls)] ==
        IF n = 0 THEN [ok |-> TRUE, chain |-> chain]
        ELSE Attempted(after[n - 1], from, calls[n])
  IN after[Len(calls)]
\* the governor queues and executes through its roles in the timelock
HasRoles(governor) ==
  \A r \in {"PROPOSER_ROLE", "EXECUTOR_ROLE"} :
    \E t \in OfKind(chain, "Timelock") : <<t, Role(r), governor>> \in chain.roles
\* the governors voters use: those the scripts recorded. Where no timelock is deployed (another
\* chain than Ethereum) the vote is out of the model
Governors == {g \in OfKind(chain, "GovernorOLAS") : HasRoles(g)
                /\ \E f \in DOMAIN globals : g \in Range(globals[f])}
CanExecute(p) ==
  /\ p.governor # EOA => HasRoles(p.governor)
  /\ Batch(p.as, p.calls).ok

----
\* ---- a script
Start ==
  /\ ~Running /\ ~Finished /\ Script.name \notin failed
  /\ Cardinality({i \in DOMAIN pending : CanExecute(pending[i])}) < MaxPending
  /\ run' = [Idle EXCEPT !.pc = 1, !.data = globals[Script.file]]
  /\ UNCHANGED <<procedure, at, globals, chain, pending, interrupts, failed>>

Next_step == run' = [run EXCEPT !.pc = @ + 1]
OnStep(op) == Running /\ run.pc <= Len(Script.steps) /\ Step.op = op
Quiet == UNCHANGED <<procedure, at, interrupts, failed>>

\* ethers looks the contract up and counts the arguments before it sends a transaction
CanDeploy == Fits(Step.kind, Step.args) /\ Undefined \notin Range(ReadAll(Step.args))
DoDeploy ==
  LET a == ReadAll(Step.args) IN
  /\ OnStep("deploy")
  /\ CanDeploy
  /\ chain' = Created(chain, Step.kind, a)
  /\ run' = [run EXCEPT !.pc = @ + 1, !.self = NextAddress(chain, Step.kind), !.args = a]
  /\ Quiet /\ UNCHANGED <<globals, pending>>

\* a second contract of the same code and salt would have the same address
CanCreate2 ==
  LET factory == Read("deploymentFactory") IN
  /\ factory \in DOMAIN chain.contracts
  /\ chain.contracts[factory].owner = EOA
  /\ OfKind(chain, Step.kind) = {}
  /\ CanDeploy
DoCreate2 ==
  LET a == ReadAll(Step.args) IN
  /\ OnStep("create2")
  /\ CanCreate2
  /\ chain' = Created(chain, Step.kind, a)
  /\ run' = [run EXCEPT !.pc = @ + 1, !.self = NextAddress(chain, Step.kind), !.args = a]
  /\ Quiet /\ UNCHANGED <<globals, pending>>

\* the verify file opens the globals file itself, when it is loaded
VerifyHolds ==
  run.args = [i \in DOMAIN Step.args |-> Lookup(globals[Script.file], run.self, Step.args[i])]
DoVerify ==
  /\ OnStep("verify")
  /\ VerifyHolds
  /\ Next_step /\ Quiet /\ UNCHANGED <<globals, chain, pending>>

\* faulty: the address of a static call made after the transaction, that of a next contract
DoWrite_predicted ==
  LET data == [run.data EXCEPT ![Step.key] = NextAddress(chain, Kind(run.self))] IN
  /\ OnStep("write")
  /\ globals' = [globals EXCEPT ![Script.file] = data]
  /\ run' = [run EXCEPT !.pc = @ + 1, !.data = data]
  /\ Quiet /\ UNCHANGED <<chain, pending>>
\* the whole file is written back as the script has read it, with one key more
DoWrite ==
  LET data == [run.data EXCEPT ![Step.key] = run.self] IN
  /\ OnStep("write")
  /\ globals' = [globals EXCEPT ![Script.file] = data]
  /\ run' = [run EXCEPT !.pc = @ + 1, !.data = data]
  /\ Quiet /\ UNCHANGED <<chain, pending>>

CallAccepted ==
  LET a == ReadAll(Step.args) to == Read(Step.to) IN
  /\ Encodes(Step.fn, Step.args) /\ Undefined \notin Range(a) \cup {to}
  /\ Accepted(chain, EOA, to, Step.fn, a)
DoCall ==
  /\ OnStep("call")
  /\ CallAccepted
  /\ chain' = Called(chain, Read(Step.to), Step.fn, ReadAll(Step.args))
  /\ Next_step /\ Quiet /\ UNCHANGED <<globals, pending>>

\* ---- the checks a script makes of what it did
Timelocks == OfKind(chain, "Timelock")
ExpectHolds ==
  CASE Step.op = "expect" -> chain.contracts[Read(Step.of)][Step.field] = Read(Step.is)
    [] Step.op = "expectRole" ->
         (\E t \in Timelocks :
            /\ t = (IF Kind(run.self) = "Timelock" THEN run.self ELSE Read("timelockAddress"))
            /\ <<t, Role(Step.role), Read(Step.account)>> \in chain.roles) = Step.has
    [] Step.op = "expectMultisig" -> <<Read(Step.of), Read(Step.multisig)>> \in chain.permitted
    [] Step.op = "expectSupply" -> \A a \in DOMAIN chain.minted : chain.minted[a] = 1
Expects == {"expect", "expectRole", "expectMultisig", "expectSupply"}
DoExpect ==
  /\ Running /\ run.pc <= Len(Script.steps) /\ Step.op \in Expects
  /\ ExpectHolds
  /\ Next_step /\ Quiet /\ UNCHANGED <<globals, chain, pending>>

\* where the governor of the timelock is deployed here, one with its roles carries the proposal
DoPropose ==
  LET calls == Resolved(Step.calls) as == Read(Step.as) IN
  /\ OnStep("propose")
  /\ ~Malformed(calls) /\ as # Undefined
  /\ \E g \in IF Timelocks = {} THEN {EOA} ELSE Governors :
       pending' = Append(pending, [governor |-> g, as |-> as, calls |-> calls, by |-> Script.name])
  /\ Next_step /\ Quiet /\ UNCHANGED <<globals, chain>>

\* ---- between the scripts
DoCopy ==
  LET from == globals[Step.from] IN
  /\ OnStep("copy")
  /\ globals' = [globals EXCEPT ![Step.to] =
       [k \in DOMAIN @ |-> IF k \in DOMAIN Step.keys THEN from[Step.keys[k]] ELSE @[k]]]
  /\ Next_step /\ Quiet /\ UNCHANGED <<chain, pending>>

Finish ==
  /\ Running /\ run.pc > Len(Script.steps)
  /\ run' = Idle /\ at' = at + 1
  /\ UNCHANGED <<procedure, globals, chain, pending, interrupts, failed>>

\* the script throws: an expectation fails, a transaction reverts, a key is missing, a contract
\* or a function is not there or takes other arguments, the verification does not match. Run
\* again it would do the same.
Throws ==
  CASE Step.op = "deploy" -> ~CanDeploy
    [] Step.op = "create2" -> ~CanCreate2
    [] Step.op = "verify" -> ~VerifyHolds
    [] Step.op = "call" -> ~CallAccepted
    [] Step.op \in Expects -> ~ExpectHolds
    [] Step.op = "propose" -> Malformed(Resolved(Step.calls)) \/ (Timelocks # {} /\ Governors = {})
    [] OTHER -> FALSE
Throw ==
  /\ Running /\ run.pc <= Len(Script.steps) /\ Throws
  /\ run' = Idle /\ failed' = failed \cup {Script.name}
  /\ UNCHANGED <<procedure, at, globals, chain, pending, interrupts>>

\* the operator mends a script that has become outdated, and goes on with what he made of it
Mend ==
  /\ ~Running /\ ~Finished /\ Script.name \in failed
  /\ at < Len(Procedure) /\ Procedure[at + 1].name = "mended"
  /\ at' = at + 1
  /\ UNCHANGED <<procedure, run, globals, chain, pending, interrupts, failed>>

\* faulty: the operator begins the procedure again
Interrupt_startOver ==
  /\ Running /\ run.pc \in 2..Len(Script.steps)
  /\ interrupts < MaxInterrupts
  /\ run' = Idle /\ at' = 1 /\ interrupts' = interrupts + 1
  /\ UNCHANGED <<procedure, globals, chain, pending, failed>>
\* the process ends between two steps, and the operator runs the script again
Interrupt ==
  /\ Running /\ run.pc \in 2..Len(Script.steps)
  /\ interrupts < MaxInterrupts
  /\ run' = Idle /\ interrupts' = interrupts + 1
  /\ UNCHANGED <<procedure, at, globals, chain, pending, failed>>

Execute ==
  \E i \in DOMAIN pending :
    /\ CanExecute(pending[i])
    /\ chain' = Batch(pending[i].as, pending[i].calls).chain
    /\ pending' = RemoveAt(pending, i)
    /\ UNCHANGED <<procedure, at, run, globals, interrupts, failed>>

Next ==
  \/ Start \/ DoDeploy \/ DoCreate2 \/ DoVerify \/ DoWrite \/ DoCall \/ DoExpect \/ DoPropose
  \/ DoCopy \/ Finish \/ Throw \/ Mend \/ Interrupt \/ Execute
====
