CONSTANTS
  Procs = {"setup1", "setup2", "pass", "manual"}
  Tenants = {"acme", "beta"}
  Bindings = {"b1", "b2"}
  Users = {"alice", "bob"}
  MaxSid = 3
  Commands <- MixedCommands
SPECIFICATION Spec
INVARIANTS
  DelegatedUserKept
  RenewPassComplete
  RemovedAfterAccepted
CHECK_DEADLOCK FALSE
