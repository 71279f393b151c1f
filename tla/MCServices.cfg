SPECIFICATION Spec
CONSTANTS
  NumServices = 2
  NumOperators = 2
  NumAgents = 2
  Instances = {2, x}
  AgentLists <- MCAgentLists
  Values = {1, 2, 3}
  Amounts = {1}
  MaxBatch = 2
  MaxListed = 2
  MaxSlashed = 1
  Tokens = {"olas", "usd"}
  NoToken = "none"
  Securities <- MCSecurities
  BondWrapper = 1
INVARIANTS TypeOK FundsHeld BalancesAreBonds InstancesCounted
CHECK_DEADLOCK FALSE
