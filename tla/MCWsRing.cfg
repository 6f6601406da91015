CONSTANTS
  c1 = c1
  c2 = c2
  c3 = c3
  NULL = NULL
  Clients <- ThreeClients
  RingSize = 3
  TableSize = 1
SPECIFICATION Spec
SYMMETRY ClientSymmetry
INVARIANTS
  TailsInRing
  FreedOnce
  ReadsEveryNumber
  WaitingIsAsked
PROPERTIES
  CullMakesRoom
