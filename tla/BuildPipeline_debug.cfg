\* Nothing fails and nothing is edited.
CONSTANTS
  MaxSource = 1
  MaxFailures = 0
SPECIFICATION Spec
INVARIANT UntroubledRunEnds
