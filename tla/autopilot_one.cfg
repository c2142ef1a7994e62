\* One manager and two jobs, under the fairness of its threads: safety, the
\* abstract ledger, and the end of every run.
SPECIFICATION FairSpec
CONSTANTS
  Jobs = {j1, j2}
  Managers = {m1}
  Limits = {1, 2}
  Commands = {"start", "stop", "apply", "configure"}
  NoJob = NoJob
INVARIANTS
  TypeOK
PROPERTIES
  ClaimWithinLimit
  StopHolds
  ImplementsOnce
  RunEnds
