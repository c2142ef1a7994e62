\* The skip command against a running worker.
SPECIFICATION Spec
CONSTANTS
  Jobs = {j1}
  Managers = {m1}
  Limits = {1}
  Commands = {"start", "scan", "apply", "skip"}
  NoJob = NoJob
PROPERTIES
  NoAttemptSkipped
