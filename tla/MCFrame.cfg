CONSTANTS
  SECS_PER_UPDATE = 3
  MaxInputTime = 1
  MaxUpdateTime = 2
  MaxDrawTime = 4
  MAX_PARTICLES = 4
  Bursts = {0, 1, 3}
  MaxAge = 3
SPECIFICATION Spec
CHECK_DEADLOCK FALSE
INVARIANTS
  LagIsBounded
PROPERTIES
  UpdatesLikeAList
  QuitIsHeeded
