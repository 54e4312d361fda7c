\* One file installed through unique temporary names and one through a shared one; any call may fail, the flush of a full disk too.
SPECIFICATION InstallSpec
CONSTANTS
  Proc = {p1, p2, p3}
  File = {f1, f2}
  Text = {t1, t2}
  Nil = Nil
  Empty = Empty
  Torn = {torn}
  Mixed <- MCMixed
  UniqueFile = {f1}
  IoFaults = {"open", "write", "rename"}
SYMMETRY Symmetry
INVARIANTS TypeOK InstalledWhole
PROPERTY ImplementsAtomicFile
