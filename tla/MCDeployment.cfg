SPECIFICATION Spec
CONSTANTS
  MaxInterrupts = 1
  MaxPending = 2
CHECK_DEADLOCK FALSE
INVARIANTS
  TypeOK
  StuckOnlyOnceOnly
  OrphansPowerless
  RolesAtEnd
  ProposalsGoThrough
  AuditsFind
  DeployerKeeps
