\* An event changes the map just before the exit.
CONSTANTS
  StartDescs <- MCStartDescs
  DescriptorSizes <- MCSizes
  MaxGrowth = 2
  MaxEvents = 1
  PoolMayFail = FALSE
SPECIFICATION Spec
INVARIANT Exits
CHECK_DEADLOCK FALSE
