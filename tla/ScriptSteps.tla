---- MODULE ScriptSteps ----
(* The steps a deployment script is made of, as data. A script is the sequence of the steps
   its main() awaits one after another; a name in quotes is a key of the globals.json file
   (a key no script writes stands for the value the file is shipped with). Prompts, ledger
   selection, gas prices and console output are left out. *)
EXTENDS Sequences, Naturals

\* <Contract>.connect(EOA).deploy(args), and DeploymentFactory's create2 with a fixed salt
Deploy(kind, args) == <<[op |-> "deploy", kind |-> kind, args |-> args]>>
Create2(kind, args) == <<[op |-> "create2", kind |-> kind, args |-> args]>>

\* `npx hardhat verify --constructor-args <verify file>`: throws unless the file's arguments,
\* read from globals.json, are those the contract was created with
Verify(args) == <<[op |-> "verify", args |-> args]>>

\* parsedData.<key> = <address>; fs.writeFileSync(globalsFile, JSON.stringify(parsedData))
Write(key) == <<[op |-> "write", key |-> key]>>

\* a transaction <to>.connect(EOA).<fn>(args); "self" is the contract this run deployed
Call(to, fn, args) == [op |-> "call", to |-> to, fn |-> fn, args |-> args]
Do(to, fn, args) == <<Call(to, fn, args)>>
\* the same transaction sent to several contracts in turn
Each(contracts, fn, args) == [i \in 1..Len(contracts) |-> Call(contracts[i], fn, args)]

\* expect(await <of>.<field>()).to.equal(<is>) and expect(hasRole(role, account)).to.equal(has)
ExpectEach(contracts, field, is) ==
  [i \in 1..Len(contracts) |-> [op |-> "expect", of |-> contracts[i], field |-> field, is |-> is]]
Expect(of, field, is) == ExpectEach(<<of>>, field, is)
\* expect(await <registry>.mapMultisigs(<multisig>)).to.equal(true)
ExpectMultisig(registry, multisig) ==
  <<[op |-> "expectMultisig", of |-> registry, multisig |-> multisig]>>
ExpectRole(role, account, has) ==
  <<[op |-> "expectRole", role |-> role, account |-> account, has |-> has]>>
\* expect(sum of the three balances).to.equal(initSupply)
ExpectSupply == <<[op |-> "expectSupply"]>>

\* A proposal made (or printed for the voters) with the calldata of these calls, to be run
\* later, in one transaction, by the contract of the key `as`
Propose(as, calls) == <<[op |-> "propose", as |-> as, calls |-> calls]>>

\* What the operator does between the scripts: copies addresses from the globals file of one
\* repository or chain to that of another, under the same names, or one under another name
Copy(from, to, keys) ==
  <<[op |-> "copy", from |-> from, to |-> to, keys |-> [k \in keys |-> k]]>>
CopyAs(from, key, to, as) ==
  <<[op |-> "copy", from |-> from, to |-> to, keys |-> [k \in {as} |-> key]]>>

\* the two orders in which the deploying scripts end
VerifyThenWrite(kind, key, args, verifyArgs) ==
  Deploy(kind, args) \o Verify(verifyArgs) \o Write(key)
WriteThenVerify(kind, key, args, verifyArgs) ==
  Deploy(kind, args) \o Write(key) \o Verify(verifyArgs)
====
