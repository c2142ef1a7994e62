\* Two managers over one store, and every command that names a job.
SPECIFICATION Spec
CONSTANTS
  Jobs = {j1}
  Managers = {m1, m2}
  Limits = {1}
  Commands = {"start", "scan", "apply", "skip", "confirm"}
  NoJob = NoJob
SYMMETRY ManagerSymmetry
INVARIANTS
  AtMostOneSubmission
  AttemptIsRemembered
  OneWorkerPerJob
  RecordAgrees
