CONSTANTS
  t0 = t0
  t1 = t1
  NULL = NULL
  Threads <- MCThreads
  Devices = {0, 1, 2}
  AxisValues <- MCAxisValues
  Events <- MCEvents
  Players = {0, 1}
  MaxFiles = 3
SPECIFICATION FairSpec
INVARIANTS
  NumbersAreBounded
  ScriptSeesWhatMoves
PROPERTIES
  NonzeroDevicesReconnect
