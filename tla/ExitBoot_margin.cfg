\* The map gains the two descriptors the loader leaves room for.
CONSTANTS
  StartDescs <- MCStartDescs
  DescriptorSizes <- MCSizes
  MaxGrowth = 2
  MaxEvents = 2
  PoolMayFail = TRUE
SPECIFICATION Spec
INVARIANTS TypeOK MapInBuffer MapAtExit ExitsUnlessRaced
CHECK_DEADLOCK FALSE
