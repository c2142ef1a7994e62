\* One direct request and its probe.
SPECIFICATION Spec
CONSTANTS
  Requests = {r1}
  Gates = {1}
  Needs = {{1}}
  Limits = {1}
  MaxQueue = 2
  FailureThreshold = 2
  DegradationThreshold = 1
  HalfOpenRequests = 1
INVARIANTS
  ProbeAllowed
