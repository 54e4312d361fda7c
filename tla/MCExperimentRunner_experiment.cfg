\* Every overload, parallelism, list of bundles and outcome of the tasks.
SPECIFICATION Spec
CONSTANTS
  Identity = {i1, i2}
  i1 = i1
  i2 = i2
  Invalid = Invalid
  Piece = {"a", "b"}
  Hardware = 3
  Jobs = {0, 1, 2}
  ArgsOf <- Calls
CHECK_DEADLOCK FALSE
INVARIANTS TypeOK NoneLeftBehind BoundedWaste ReportAccepted
PROPERTY ImplementsSerial
