\* Two handoffs of one session, one after the other; the first may leave a
\* session run behind that goes on beside the second.
SPECIFICATION Spec
CONSTANTS
  Handoff = {h1, h2}
  Caller = {h1, h2}
  None = None
  Request <- Requests
  Log <- TwoLogs
  AllowRun = TRUE
  PipeCap = 1
  CaptureCap = 3
  MaxConcurrent = 1
CHECK_DEADLOCK FALSE
INVARIANTS TypeOK FactMatchesLogs ExecutedIsRecorded DeniedStaysDenied CapturedWhole
PROPERTIES QuietAfterReturn HandoffsReturn
