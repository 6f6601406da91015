CONSTANTS
  ws = ws
  js = js
  w1 = w1
  w2 = w2
  j1 = j1
  NULL = NULL
  Threads <- MCThreads
  Players <- MCPlayers
  Owner <- MCOwner
  TableSize = 2
  MaxDrift = 1
SPECIFICATION Spec
SYMMETRY ClientSymmetry
INVARIANTS
  NoGhosts
  OneSlotEach
  IdsAreKept
  CountIsOccupied
PROPERTIES
  LoneInsertIsExact
