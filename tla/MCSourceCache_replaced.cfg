\* One process and a CSV that is replaced while its raw cache is built.
SPECIFICATION Spec
CONSTANTS
  Proc = {p1}
  Chunks = 2
  MaxClock = 2
  MaxVersion = 2
  MaxCalls = 2
  Faults = {}
CHECK_DEADLOCK FALSE
PROPERTY AlwaysUpToDate
