\* Any runs of both types, any command failing, edits at any time.
CONSTANTS
  MaxSource = 3
  MaxFailures = 2
SPECIFICATION Spec
INVARIANTS TypeOK UntroubledBuildIsCurrent StaleOnlyAfterAbort
PROPERTY DebugLostOnlyAfterAbort
