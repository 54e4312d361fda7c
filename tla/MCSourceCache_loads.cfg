\* Two processes, two calls, a CSV that is replaced once.
SPECIFICATION Spec
CONSTANTS
  Proc = {p1, p2}
  Chunks = 2
  MaxClock = 4
  MaxVersion = 2
  MaxCalls = 2
  Faults = {"abandon", "short"}
SYMMETRY Symmetry
CHECK_DEADLOCK FALSE
INVARIANTS TypeOK RawFresh NormFresh ServedFresh
