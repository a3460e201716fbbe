\* Two hosts, two groups, with liveness.
SPECIFICATION FairSpec
CONSTANTS
  h1 = h1
  h2 = h2
  a1 = a1
  a2 = a2
  Host = {h1, h2}
  App = {a1, a2}
  None = None
INVARIANTS OwnData
PROPERTIES LostHostLeft ListComesBack EnteredHostShown
