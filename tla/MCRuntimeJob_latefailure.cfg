\* One job whose last write of job.state fails after the sidecars were written.
SPECIFICATION Spec
CONSTANTS
  Job = {j1}
  NoJob = NoJob
  MaxAttempts = 2
  ExplicitDir = {}
  NoDir = NoDir
  Mode = {"train", "dry_run"}
  IoMayFail = TRUE
INVARIANT CreditMeansCompleted
