\* Three requests to one provider over a global and an account gate, with limits
\* that change, blocks, restarts and an operator.
SPECIFICATION Spec
CONSTANTS
  Requests = {r1, r2, r3}
  Gates = {1, 2}
  Needs = {{1}, {1, 2}}
  Limits = {1, 2}
  MaxQueue = 2
  FailureThreshold = 2
  DegradationThreshold = 1
  HalfOpenRequests = 1
SYMMETRY RequestSymmetry
INVARIANTS
  TypeOK
  HoldersCounted
  BreakerConsistent
  ProbesWithinLimit
PROPERTIES
  AdmittedInTurn
  NotLeftWaiting
