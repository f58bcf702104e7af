CONSTANTS
  Packs <- SomePacks
  DefaultInterval = 0
  Durations = {0, 1, 3}
SPECIFICATION Spec
INVARIANTS
  NoBursts
  FairTurns
PROPERTY
  StopEnds
CHECK_DEADLOCK FALSE
