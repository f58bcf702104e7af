CONSTANTS
  Operators = {1, 2, 3}
  Casts <- AllCasts
  MaxPid = 2
  MaxTunnels = 2
SPECIFICATION TunnelSpec
INVARIANTS
  
  RestartReplaces
PROPERTY
  CommandsReturn
CHECK_DEADLOCK FALSE
