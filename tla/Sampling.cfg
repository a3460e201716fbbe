\* Two processes, two kinds in one unit; two threads in two groups.
SPECIFICATION MCSpec
CONSTANTS
  Pids = {p1, p2}
  Kinds <- MCKinds
  IoStat = {"www"}
  None = None
  MaxCpu = 2
  MaxIo = 1
  Tids = {p1, p2}
  Groups = {a, b}
  MaxWork = 1
  Parts = {"rows", "map", "detail", "overlay"}
SYMMETRY Symmetric
CHECK_DEADLOCK FALSE
PROPERTIES RowsAccountForWork ThreadRates
