\* The fleet face in local mode.
SPECIFICATION MCSpec
CONSTANTS
  Pids = {p1, p2}
  Kinds <- MCKinds
  IoStat = {"www"}
  None = None
  MaxCpu = 2
  MaxIo = 1
  Tids = {p1, p2}
  Groups = {a, b}
  MaxWork = 1
  Parts = {"map"}
SYMMETRY Symmetric
CHECK_DEADLOCK FALSE
PROPERTY ThreadsListed
