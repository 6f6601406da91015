CONSTANTS
  Loops = {l0, l1}
  Pids = {p0, p1, p2}
  MaxPipes = 3
  NoPid = NoPid
SPECIFICATION PairFairSpec
CHECK_DEADLOCK FALSE
INVARIANTS
  ChildrenMatchLoops
  OnlyCutPipesLeak
  ScriptsAreReadOrKilled
PROPERTIES
  StopIsHeeded
