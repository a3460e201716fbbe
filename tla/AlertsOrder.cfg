\* The values of one group, listed in more than one order.
SPECIFICATION AlertsSpec
CONSTANTS
  Group = {nginx}
  Sample <- MCSample
  RateLimit = 3
  None = None
PROPERTIES SteadyLoadNoDropout
