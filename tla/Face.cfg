\* A thin host and one with a daemon; three groups.
SPECIFICATION Spec
CONSTANTS
  Hosts = 2
  Daemon = {2}
  App = {a1, a2, a3}
  None = None
SYMMETRY AppPermutations
INVARIANTS FaceUnmarked DrillOnSpine SelectionSettled
PROPERTIES SelectionHeld OrderedRowsNeverHop
