\* Two jobs, each with an attempt directory or with the one --job-dir; any write
\* may fail, any job may crash.
SPECIFICATION Spec
CONSTANTS
  Job = {j1, j2}
  NoJob = NoJob
  MaxAttempts = 1
  ExplicitDir = {e1}
  NoDir = NoDir
  Mode = {"train"}
  IoMayFail = TRUE
SYMMETRY Symmetry
INVARIANTS TypeOK AttemptSingleWriter TerminalFactsAgree
PROPERTY RestingDirsImmutable
