CONSTANTS
  Axes <- MCAxes
  cell_size = 3
  GridRange <- MCGridRange
  Files <- MCFiles
  Cube <- MCCube
  Positions <- MCPositions
  LUA_SET_SIZE = 2
  GARBAGE = GARBAGE
  Coordinates <- MCCoordinates
  BallRadius = 2
  MaxMeshSets = 2
SPECIFICATION Spec
CHECK_DEADLOCK FALSE
INVARIANTS
  AddedAreListed
  NoBallInsideUnnoticed
  OnlyTheseReadGarbage
