\* Two jobs of a train and of a dry-run wave and one attempt index; any write may
\* fail.
SPECIFICATION Spec
CONSTANTS
  Job = {j1, j2}
  NoJob = NoJob
  MaxAttempts = 1
  ExplicitDir = {}
  NoDir = NoDir
  Mode = {"train", "dry_run"}
  IoMayFail = TRUE
INVARIANT CreditMeansTrained
PROPERTY JobsEnd
