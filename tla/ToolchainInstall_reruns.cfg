\* Every step may fail, every run may be interrupted and started again.
CONSTANTS
  Mingw = "mingw"
  Elf = "elf"
  Original <- MCOriginal
  PathKinds <- MCPathKinds
  MaxFailures = 4
SPECIFICATION FairSpec
INVARIANTS TypeOK RedZoneOnlyIfStopped UntroubledRunInstalls
PROPERTIES BuildsFromWholeSources RetryRecovers
