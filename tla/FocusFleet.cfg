\* Two connections, safety only; the labels are interchangeable.
SPECIFICATION Spec
CONSTANTS
  h1 = h1
  h2 = h2
  a1 = a1
  a2 = a2
  None = None
  Host = {h1, h2}
  App = {a1, a2}
  HostOf <- TwoHosts
  Trim <- Plain
  Steady = {}
  Elapsed = {TRUE, FALSE}
  MaxPipe = 1
  MaxChan = 1
SYMMETRY AppPermutations
INVARIANTS NoCrossGroupRates OneSamplerWhenSettled
CHECK_DEADLOCK FALSE
