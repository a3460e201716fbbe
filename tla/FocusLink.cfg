\* One connection, deep pipes, with liveness.
SPECIFICATION FairSpec
CONSTANTS
  h1 = h1
  h2 = h2
  a1 = a1
  a2 = a2
  None = None
  Host = {h1}
  App = {a1, a2}
  HostOf <- OneHost
  Trim <- Plain
  Steady <- SteadyFirst
  Elapsed = {TRUE}
  MaxPipe = 2
  MaxChan = 2
INVARIANTS FocusDelivered
PROPERTIES FocusServed FocusReleased
CHECK_DEADLOCK FALSE
