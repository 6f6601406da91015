CONSTANTS
  min_width = 2
  max_width = 8
  default_width = 4
  T_MAX = 9
SPECIFICATION FairSpec
CHECK_DEADLOCK FALSE
PROPERTIES
  NeverBackwards
  TargetIsReached
